------------------------- MODULE StaticFilesProofs -------------------------
(***************************************************************************)
(* No cached file carries a modification time newer than its content, for  *)
(* any number of requests, keys, files and changes to them.                *)
(***************************************************************************)
EXTENDS StaticFiles, TLAPS

Entry == [last_modified : Nat, content : Nat, recent : BOOLEAN]

Shapes ==
    /\ fs \in [Files -> Nat] /\ version \in Nat
    /\ cache \in [Paths -> Entry] /\ entry \in [Requests -> Entry]
    /\ DOMAIN pc = Requests
    /\ key_to_path \in [Keys -> Paths \cup {NoPath}]
    /\ path \in [Requests -> Paths \cup {NoPath}]
    /\ key \in [Requests -> Keys \cup {NoKey}]

\* What request r knows of its key and its path where it stands.
Place(r) ==
    /\ pc[r] \in {"lookup", "cached", "recheck", "unbind", "resolve"} => key[r] \in Keys
    /\ pc[r] = "html" => key[r] \in Keys /\ Html[key[r]] \in Files
    /\ pc[r] \in {"index", "read_dir", "listing", "bind"} => key[r] \in Dirs
    /\ pc[r] \in {"metadata", "read"} => path[r] \in Files
    /\ pc[r] \in {"cached", "recheck", "bind", "insert"} => path[r] \in Paths

\* A time read for a file is not newer than the file, as long as it is there.
\* It is not newer than the last change either, which is what is left when
\* the file is removed and written again before its content is read.
Loading(r) ==
    /\ pc[r] = "read" => /\ entry[r].last_modified =< version
                         /\ fs[path[r]] # Missing => entry[r].last_modified =< fs[path[r]]
    /\ pc[r] \in {"bind", "insert"} => entry[r].last_modified =< entry[r].content

IInv ==
    /\ Shapes
    /\ \A f \in Files : fs[f] =< version
    /\ \A r \in Requests : Place(r) /\ Loading(r)
    /\ NeverAhead

\* The server starts with empty caches and no request.
LEMMA InitIInv == Init => IInv
<1> SUFFICES ASSUME Init PROVE IInv
    BY Zenon
<1> USE DEF Init
<1>1. NoEntry \in Entry /\ NoEntry.last_modified = 0 /\ NoEntry.content = 0
    BY Zenon DEF NoEntry, Entry
<1>2. Shapes
  <2>1. fs \in [Files -> Nat] /\ version \in Nat
      BY DEF Missing
  <2>2. cache \in [Paths -> Entry] /\ entry \in [Requests -> Entry]
      BY <1>1, Zenon
  <2> QED
      BY <2>1, <2>2, Zenon DEF Shapes
<1>3. \A f \in Files : fs[f] =< version
    BY DEF Missing
<1>4. \A r \in Requests : Place(r) /\ Loading(r)
    BY Zenon DEF Place, Loading
<1>5. NeverAhead
    BY <1>1 DEF NeverAhead, Paths
<1> QED
    BY <1>2, <1>3, <1>4, <1>5, Zenon DEF IInv

\* Entries stay entries when their fields are set.
LEMMA EntryFields ==
  ASSUME NEW e \in Entry
  PROVE  /\ \A b \in BOOLEAN : /\ [e EXCEPT !.recent = b] \in Entry
                              /\ [e EXCEPT !.recent = b].last_modified = e.last_modified
                              /\ [e EXCEPT !.recent = b].content = e.content
         /\ e.last_modified \in Nat /\ e.content \in Nat
         /\ \A v \in Nat : /\ [e EXCEPT !.last_modified = v] \in Entry
                          /\ [e EXCEPT !.last_modified = v].last_modified = v
                          /\ [e EXCEPT !.content = v, !.recent = TRUE] \in Entry
                          /\ [e EXCEPT !.content = v, !.recent = TRUE].content = v
                          /\ [e EXCEPT !.content = v, !.recent = TRUE].last_modified = e.last_modified
BY Zenon DEF Entry

\* Every step keeps the shapes.
LEMMA ShapesStep == IInv /\ [Next]_vars => Shapes'
<1> SUFFICES ASSUME IInv, [Next]_vars PROVE Shapes'
    BY Zenon
<1> USE DEF Shapes
<1>0. Shapes /\ NoEntry \in Entry
    BY Zenon DEF IInv, NoEntry, Entry
<1>1. ASSUME NEW f \in Files, Write(f) \/ Remove(f) PROVE Shapes'
    BY <1>0, <1>1 DEF Write, Remove, Missing, cacheVars, reqVars
<1>2. ASSUME NEW r \in Requests, NEW k \in Keys, Request(r, k) PROVE Shapes'
    BY <1>0, <1>2, ConstantsAssumption, Zenon DEF Request, Answer, Goto, IInv, Place, Paths,
       Listings,
       Entry, fsVars, cacheVars, NoKey
<1>3. ASSUME NEW r \in Requests, Finish(r) PROVE Shapes'
    BY <1>0, <1>3, ConstantsAssumption, Zenon DEF Finish, Goto, IInv, Place, Paths, Listings, Entry,
       fsVars, cacheVars, NoKey
<1>4. ASSUME NEW r \in Requests, Lookup(r) PROVE Shapes'
  <2>1. key[r] \in Keys
      BY <1>4, Zenon DEF IInv, Place, Lookup
  <2>2. key_to_path[key[r]] \in Paths \cup {NoPath}
      BY <1>0, <2>1, Zenon
  <2> QED
      BY <1>0, <1>4, <2>2 DEF Lookup, Answer, Goto, fsVars, cacheVars
<1>5. ASSUME NEW r \in Requests, Recheck(r) PROVE Shapes'
  <2>1. path[r] \in Paths /\ [cache[path[r]] EXCEPT !.recent = TRUE] \in Entry
      BY <1>0, <1>5, EntryFields, Zenon DEF IInv, Place, Recheck
  <2>2. entry' \in [Requests -> Entry] /\ cache' \in [Paths -> Entry]
    <3>1. \/ cache' = cache
          \/ cache' = [cache EXCEPT ![path[r]].recent = TRUE]
          \/ cache' = [cache EXCEPT ![path[r]] = NoEntry]
        BY <1>5, Zenon DEF Recheck
    <3>2. entry' = [entry EXCEPT ![r] = NoEntry]
        BY <1>5, Zenon DEF Recheck
    <3>3. cache' \in [Paths -> Entry]
        BY <1>0, <2>1, <3>1, Zenon
    <3>4. entry' \in [Requests -> Entry]
        BY <1>0, <3>2, Zenon
    <3> QED
        BY <3>3, <3>4, Zenon
  <2>3. /\ DOMAIN pc' = Requests /\ path' \in [Requests -> Paths \cup {NoPath}]
        /\ key_to_path' \in [Keys -> Paths \cup {NoPath}]
      BY <1>0, <1>5, Zenon DEF Recheck, Answer, Goto
  <2> QED
      BY <1>0, <1>5, <2>2, <2>3, Zenon DEF Recheck, fsVars
<1>6. ASSUME NEW r \in Requests, Resolve(r) PROVE Shapes'
  <2>1. key[r] \in Keys /\ (key[r] \notin Dirs => key[r] \in Paths)
      BY <1>6, ConstantsAssumption, Zenon DEF IInv, Place, Resolve, Paths
  <2> QED
      BY <1>0, <1>6, <2>1, Zenon DEF Resolve, Answer, Goto, FoundFile, NotFound, fsVars
<1>7. ASSUME NEW r \in Requests, ResolveHtml(r) PROVE Shapes'
  <2>1. key[r] \in Keys /\ Html[key[r]] \in Paths
      BY <1>7, ConstantsAssumption, Zenon DEF IInv, Place, ResolveHtml, Paths
  <2> QED
      BY <1>0, <1>7, <2>1, Zenon DEF ResolveHtml, Answer, Goto, FoundFile, NotFound, fsVars
<1>8. ASSUME NEW r \in Requests, ResolveIndex(r) PROVE Shapes'
  <2>1. key[r] \in Keys /\ Index[key[r]] \in Paths
      BY <1>8, ConstantsAssumption, Zenon DEF IInv, Place, ResolveIndex, Paths
  <2> QED
      BY <1>0, <1>8, <2>1, Zenon DEF ResolveIndex, Goto, FoundFile, fsVars
<1>9. ASSUME NEW r \in Requests, ReadDir(r) PROVE Shapes'
  <2>1. key[r] \in Keys /\ Index[key[r]] \in Paths
      BY <1>9, ConstantsAssumption, Zenon DEF IInv, Place, ReadDir, Paths
  <2> QED
      BY <1>0, <1>9, <2>1, Zenon DEF ReadDir, Answer, Goto, FoundFile, NotFound, fsVars
<1>10. ASSUME NEW r \in Requests, MakeListing(r) PROVE Shapes'
  <2>1. Listing[key[r]] \in Paths
      BY <1>10, Zenon DEF IInv, Place, MakeListing, Paths, Listings
  <2>2. entry' \in [Requests -> Entry]
    <3>1. [NoEntry EXCEPT !.content = version, !.recent = TRUE] \in Entry
        BY <1>0, EntryFields, Zenon
    <3> QED
        BY <1>0, <1>10, <3>1, Zenon DEF MakeListing
  <2> QED
      BY <1>0, <1>10, <2>1, <2>2, Zenon DEF MakeListing, Goto, fsVars, cacheVars
<1>11. ASSUME NEW r \in Requests, ReadMetadata(r) PROVE Shapes'
  <2>1. fs[path[r]] \in Nat
      BY <1>0, <1>11, Zenon DEF IInv, Place, ReadMetadata
  <2>2. [NoEntry EXCEPT !.last_modified = fs[path[r]]] \in Entry
      BY <1>0, <2>1, EntryFields, Zenon
  <2>3. entry' \in [Requests -> Entry]
      BY <1>0, <1>11, <2>2, Zenon DEF ReadMetadata
  <2> QED
      BY <1>0, <1>11, <2>3, Zenon DEF ReadMetadata, Answer, Goto, fsVars, cacheVars
<1>12. ASSUME NEW r \in Requests, ReadContent(r) PROVE Shapes'
  <2>1. fs[path[r]] \in Nat
      BY <1>0, <1>12, Zenon DEF IInv, Place, ReadContent
  <2>2. [entry[r] EXCEPT !.content = fs[path[r]], !.recent = TRUE] \in Entry
      BY <1>0, <2>1, EntryFields, Zenon
  <2>3. entry' \in [Requests -> Entry]
      BY <1>0, <1>12, <2>2, Zenon DEF ReadContent
  <2> QED
      BY <1>0, <1>12, <2>3, Zenon DEF ReadContent, Answer, Goto, fsVars, cacheVars
<1>13. ASSUME NEW r \in Requests, Insert(r) PROVE Shapes'
    BY <1>0, <1>13, ConstantsAssumption, Zenon DEF Insert, Answer, Goto, IInv, Place, Paths,
       Listings,
       Entry, fsVars, cacheVars, NoKey
<1>14. ASSUME NEW r \in Requests, Stream(r) PROVE Shapes'
    BY <1>0, <1>14, ConstantsAssumption, Zenon DEF Stream, Answer, Goto, IInv, Place, Paths,
       Listings,
       Entry, fsVars, cacheVars, NoKey
<1>15. ASSUME NEW q \in Paths, RecheckIntervalElapses(q) \/ Evict(q) PROVE Shapes'
  <2>1. [cache[q] EXCEPT !.recent = FALSE] \in Entry
      BY <1>0, EntryFields, Zenon
  <2>2. cache' \in [Paths -> Entry]
      BY <1>0, <1>15, <2>1, Zenon DEF RecheckIntervalElapses, Evict
  <2> QED
      BY <1>0, <1>15, <2>2, Zenon DEF RecheckIntervalElapses, Evict, fsVars, reqVars
<1>16. ASSUME NEW k \in Keys, EvictMiss(k) PROVE Shapes'
    BY <1>0, <1>16, Zenon DEF EvictMiss, fsVars, reqVars
<1>17. CASE UNCHANGED vars
    BY <1>0, <1>17, Zenon DEF vars
<1>18. ASSUME NEW r \in Requests, LookupEntry(r) PROVE Shapes'
  <2>1. path[r] \in Paths
      BY <1>18, Zenon DEF IInv, Place, LookupEntry
  <2>2. cache[path[r]] \in Entry
      BY <1>0, <2>1, Zenon
  <2>3. entry' \in [Requests -> Entry]
      BY <1>0, <1>18, <2>2, Zenon DEF LookupEntry
  <2> QED
      BY <1>0, <1>18, <2>3, Zenon DEF LookupEntry, Answer, Goto, fsVars, cacheVars
<1>19. ASSUME NEW r \in Requests, Unbind(r) PROVE Shapes'
    BY <1>0, <1>19, Zenon DEF Unbind, Goto, fsVars
<1>20. ASSUME NEW r \in Requests, BindListing(r) PROVE Shapes'
  <2>1. path[r] \in Paths
      BY <1>20, Zenon DEF IInv, Place, BindListing
  <2> QED
      BY <1>0, <1>20, <2>1, Zenon DEF BindListing, Goto, fsVars
<1> QED
    BY <1>1, <1>2, <1>3, <1>4, <1>5, <1>6, <1>7, <1>8, <1>9, <1>10, <1>11, <1>12, <1>13, <1>14,
       <1>15, <1>16, <1>17, <1>18, <1>19, <1>20, Zenon DEF Next, Serve

\* Every step keeps what a request knows of its key and its path.
LEMMA PlaceStep == IInv /\ [Next]_vars => (\A x \in Requests : Place(x))'
<1> SUFFICES ASSUME IInv, [Next]_vars PROVE (\A x \in Requests : Place(x))'
    BY Zenon
<1> USE DEF Place
<1>0. Shapes /\ \A r \in Requests : Place(r)
    BY Zenon DEF IInv
<1>1. ASSUME NEW f \in Files, Write(f) \/ Remove(f) PROVE (\A x \in Requests : Place(x))'
    BY <1>0, <1>1, Zenon DEF Write, Remove, cacheVars, reqVars, Shapes
<1>2. ASSUME NEW r \in Requests, NEW k \in Keys, Request(r, k) PROVE (\A x \in Requests : Place(x))'
    BY <1>0, <1>2 DEF Request, Answer, Goto, fsVars, cacheVars, Shapes
<1>3. ASSUME NEW r \in Requests, Finish(r) PROVE (\A x \in Requests : Place(x))'
    BY <1>0, <1>3, Zenon DEF Finish, Goto, fsVars, cacheVars, Shapes
<1>4. ASSUME NEW r \in Requests, Lookup(r) PROVE (\A x \in Requests : Place(x))'
    BY <1>0, <1>4 DEF Lookup, Answer, Goto, fsVars, cacheVars, Shapes
<1>5. ASSUME NEW r \in Requests, Recheck(r) PROVE (\A x \in Requests : Place(x))'
    BY <1>0, <1>5, ZenonT(30) DEF Recheck, Answer, Goto, fsVars, cacheVars, Shapes
<1>6. ASSUME NEW r \in Requests, Resolve(r) PROVE (\A x \in Requests : Place(x))'
    BY <1>0, <1>6, ConstantsAssumption DEF Resolve, Answer, Goto, FoundFile, NotFound, fsVars,
       Paths, Shapes
<1>7. ASSUME NEW r \in Requests, ResolveHtml(r) PROVE (\A x \in Requests : Place(x))'
    BY <1>0, <1>7 DEF ResolveHtml, Answer, Goto, FoundFile, NotFound, fsVars, Paths, Shapes
<1>8. ASSUME NEW r \in Requests, ResolveIndex(r) PROVE (\A x \in Requests : Place(x))'
    BY <1>0, <1>8, ConstantsAssumption DEF ResolveIndex, Goto, FoundFile, fsVars, Paths, Shapes
<1>9. ASSUME NEW r \in Requests, ReadDir(r) PROVE (\A x \in Requests : Place(x))'
    BY <1>0, <1>9, ConstantsAssumption DEF ReadDir, Answer, Goto, FoundFile, NotFound, fsVars,
       Paths, Shapes
<1>10. ASSUME NEW r \in Requests, MakeListing(r) PROVE (\A x \in Requests : Place(x))'
    BY <1>0, <1>10, ZenonT(30) DEF MakeListing, Goto, Paths, Listings, fsVars, cacheVars, Shapes
<1>11. ASSUME NEW r \in Requests, ReadMetadata(r) PROVE (\A x \in Requests : Place(x))'
    BY <1>0, <1>11 DEF ReadMetadata, Answer, Goto, fsVars, cacheVars, Shapes
<1>12. ASSUME NEW r \in Requests, ReadContent(r) PROVE (\A x \in Requests : Place(x))'
    BY <1>0, <1>12 DEF ReadContent, Answer, Goto, Paths, fsVars, cacheVars, Shapes
<1>13. ASSUME NEW r \in Requests, Insert(r) PROVE (\A x \in Requests : Place(x))'
    BY <1>0, <1>13, Zenon DEF Insert, Answer, Goto, fsVars, cacheVars, Shapes
<1>14. ASSUME NEW r \in Requests, Stream(r) PROVE (\A x \in Requests : Place(x))'
    BY <1>0, <1>14, Zenon DEF Stream, Answer, Goto, fsVars, cacheVars, Shapes
<1>15. ASSUME NEW q \in Paths, RecheckIntervalElapses(q) \/ Evict(q) PROVE (\A x \in Requests : Place(x))'
    BY <1>0, <1>15, Zenon DEF RecheckIntervalElapses, Evict, fsVars, reqVars, Shapes
<1>16. ASSUME NEW k \in Keys, EvictMiss(k) PROVE (\A x \in Requests : Place(x))'
    BY <1>0, <1>16, Zenon DEF EvictMiss, fsVars, reqVars, Shapes
<1>17. CASE UNCHANGED vars
    BY <1>0, <1>17, Zenon DEF vars, Shapes
<1>18. ASSUME NEW r \in Requests, LookupEntry(r) PROVE (\A x \in Requests : Place(x))'
    BY <1>0, <1>18, ZenonT(30) DEF LookupEntry, Answer, Goto, fsVars, cacheVars, Shapes
<1>19. ASSUME NEW r \in Requests, Unbind(r) PROVE (\A x \in Requests : Place(x))'
    BY <1>0, <1>19, ZenonT(30) DEF Unbind, Goto, fsVars, Shapes
<1>20. ASSUME NEW r \in Requests, BindListing(r) PROVE (\A x \in Requests : Place(x))'
    BY <1>0, <1>20, ZenonT(30) DEF BindListing, Goto, fsVars, Shapes
<1> QED
    BY <1>1, <1>2, <1>3, <1>4, <1>5, <1>6, <1>7, <1>8, <1>9, <1>10, <1>11, <1>12, <1>13, <1>14,
       <1>15, <1>16, <1>17, <1>18, <1>19, <1>20, Zenon DEF Next, Serve

\* No file is newer than the last change.
LEMMA ChangesStep ==
  IInv /\ [Next]_vars => version =< version' /\ (\A f \in Files : fs[f] =< version)'
<1> SUFFICES ASSUME IInv, [Next]_vars
             PROVE  version =< version' /\ (\A f \in Files : fs[f] =< version)'
    BY Zenon
<1>0. fs \in [Files -> Nat] /\ version \in Nat /\ \A f \in Files : fs[f] =< version
    BY Zenon DEF IInv, Shapes
<1>1. ASSUME NEW f \in Files, Write(f) \/ Remove(f)
      PROVE  version =< version' /\ (\A g \in Files : fs[g] =< version)'
    BY <1>0, <1>1 DEF Write, Remove, Missing
<1>2. CASE UNCHANGED fsVars
    BY <1>0, <1>2 DEF fsVars
<1>3. ASSUME NEW r \in Requests, Serve(r) \/ \E k \in Keys : Request(r, k)
      PROVE  UNCHANGED fsVars
    BY <1>3, Zenon DEF Serve, Request, Finish, Lookup, LookupEntry, Recheck, Unbind, Resolve, ResolveHtml,
                ResolveIndex, ReadDir, BindListing, MakeListing, ReadMetadata, ReadContent, Insert, Stream
<1>4. ASSUME NEW q \in Paths, RecheckIntervalElapses(q) \/ Evict(q) PROVE UNCHANGED fsVars
    BY <1>4, Zenon DEF RecheckIntervalElapses, Evict
<1>5. ASSUME NEW k \in Keys, EvictMiss(k) PROVE UNCHANGED fsVars
    BY <1>5, Zenon DEF EvictMiss
<1>6. UNCHANGED vars => UNCHANGED fsVars
    BY Zenon DEF vars, fsVars
<1> QED
    BY <1>1, <1>2, <1>3, <1>4, <1>5, <1>6, Zenon DEF Next

\* A load that has read a time finds a content at least as new.
LEMMA LoadingStep == IInv /\ [Next]_vars => (\A x \in Requests : Loading(x))'
<1> SUFFICES ASSUME IInv, [Next]_vars PROVE (\A x \in Requests : Loading(x))'
    BY Zenon
<1>0. Shapes /\ \A r \in Requests : Place(r) /\ Loading(r)
    BY Zenon DEF IInv
<1>1. ASSUME NEW f \in Files, Write(f) \/ Remove(f) PROVE (\A x \in Requests : Loading(x))'
  <2>1. \A r \in Requests : pc[r] = "read" => path[r] \in Files /\ entry[r].last_modified \in Nat
      BY <1>0, EntryFields, Zenon DEF Shapes, Place
  <2>2. version' = version + 1 /\ UNCHANGED <<pc, path, entry>>
      BY <1>1, Zenon DEF Write, Remove, reqVars
  <2>3. \A g \in Files : fs'[g] \in {fs[g], version + 1, Missing}
      BY <1>0, <1>1, Zenon DEF Write, Remove, Shapes
  <2> QED
      BY <1>0, <2>1, <2>2, <2>3 DEF Loading, Shapes
<1>2. ASSUME NEW r \in Requests, NEW k \in Keys, Request(r, k) PROVE (\A x \in Requests : Loading(x))'
    BY <1>0, <1>2, Zenon DEF Request, Answer, Goto, fsVars, Shapes, Loading
<1>3. ASSUME NEW r \in Requests, Finish(r) PROVE (\A x \in Requests : Loading(x))'
    BY <1>0, <1>3, Zenon DEF Finish, Goto, fsVars, Shapes, Loading
<1>4. ASSUME NEW r \in Requests, Lookup(r) PROVE (\A x \in Requests : Loading(x))'
    BY <1>0, <1>4 DEF Lookup, Answer, Goto, fsVars, Shapes, Loading
<1>5. ASSUME NEW r \in Requests, Recheck(r) PROVE (\A x \in Requests : Loading(x))'
    BY <1>0, <1>5, ZenonT(30) DEF Recheck, Answer, Goto, fsVars, Shapes, Loading
<1>6. ASSUME NEW r \in Requests, Resolve(r) PROVE (\A x \in Requests : Loading(x))'
    BY <1>0, <1>6, ZenonT(30) DEF Resolve, Answer, Goto, FoundFile, NotFound, fsVars, Shapes,
       Loading
<1>7. ASSUME NEW r \in Requests, ResolveHtml(r) PROVE (\A x \in Requests : Loading(x))'
    BY <1>0, <1>7, ZenonT(30) DEF ResolveHtml, Answer, Goto, FoundFile, NotFound, fsVars, Shapes,
       Loading
<1>8. ASSUME NEW r \in Requests, ResolveIndex(r) PROVE (\A x \in Requests : Loading(x))'
    BY <1>0, <1>8, ZenonT(30) DEF ResolveIndex, Goto, FoundFile, fsVars, Shapes, Loading
<1>9. ASSUME NEW r \in Requests, ReadDir(r) PROVE (\A x \in Requests : Loading(x))'
    BY <1>0, <1>9, ZenonT(30) DEF ReadDir, Answer, Goto, FoundFile, NotFound, fsVars, Shapes,
       Loading
<1>10. ASSUME NEW r \in Requests, Stream(r) PROVE (\A x \in Requests : Loading(x))'
    BY <1>0, <1>10, Zenon DEF Stream, Answer, Goto, fsVars, Shapes, Loading
<1>11. ASSUME NEW r \in Requests, MakeListing(r) PROVE (\A x \in Requests : Loading(x))'
  <2>1. entry'[r].last_modified = 0 /\ entry'[r].content = version
      BY <1>0, <1>11, Zenon DEF MakeListing, Shapes, NoEntry
  <2>2. pc'[r] = "bind" /\ version \in Nat
      BY <1>0, <1>11, Zenon DEF MakeListing, Goto, Shapes
  <2> QED
      BY <1>0, <1>11, <2>1, <2>2 DEF MakeListing, Goto, fsVars, Shapes, Loading
<1>12. ASSUME NEW r \in Requests, ReadMetadata(r) PROVE (\A x \in Requests : Loading(x))'
  <2>1. path[r] \in Files /\ fs[path[r]] \in Nat /\ fs[path[r]] =< version
      BY <1>0, <1>12, Zenon DEF IInv, Shapes, Place, ReadMetadata
  <2>2. pc'[r] = "done" \/ (pc'[r] = "read" /\ entry'[r].last_modified = fs[path[r]])
      BY <1>0, <1>12, ZenonT(30) DEF ReadMetadata, Answer, Goto, NoEntry, Shapes
  <2> QED
      BY <1>0, <1>12, <2>1, <2>2 DEF ReadMetadata, Answer, Goto, fsVars, Shapes, Loading
<1>13. ASSUME NEW r \in Requests, ReadContent(r) PROVE (\A x \in Requests : Loading(x))'
  <2>1. path[r] \in Files /\ fs[path[r]] \in Nat
      BY <1>0, <1>13, Zenon DEF Shapes, Place, ReadContent
  <2>2. CASE fs[path[r]] = Missing
      BY <1>0, <1>13, <2>2, Zenon DEF ReadContent, Answer, Goto, fsVars, Shapes, Loading
  <2>3. CASE fs[path[r]] # Missing
    <3>1. entry'[r] = [entry[r] EXCEPT !.content = fs[path[r]], !.recent = TRUE]
        BY <1>0, <1>13, <2>3, Zenon DEF ReadContent, Shapes
    <3>2. entry'[r].content = fs[path[r]] /\ entry'[r].last_modified = entry[r].last_modified
      <4>1. entry[r] \in Entry
          BY <1>0, Zenon DEF Shapes
      <4>2. \A v \in Nat : /\ [entry[r] EXCEPT !.content = v, !.recent = TRUE].content = v
                          /\ [entry[r] EXCEPT !.content = v, !.recent = TRUE].last_modified
                                = entry[r].last_modified
          BY <4>1, EntryFields, Zenon
      <4> QED
          BY <2>1, <3>1, <4>2, Zenon
    <3>3. entry[r].last_modified =< fs[path[r]] /\ pc'[r] = "insert"
        BY <1>0, <1>13, <2>3, Zenon DEF ReadContent, Goto, Shapes, Loading
    <3> QED
        BY <1>0, <1>13, <2>3, <3>2, <3>3, ZenonT(30) DEF ReadContent, Goto, fsVars, Shapes, Loading
  <2> QED
      BY <2>2, <2>3, Zenon
<1>14. ASSUME NEW r \in Requests, Insert(r) PROVE (\A x \in Requests : Loading(x))'
    BY <1>0, <1>14, Zenon DEF Insert, Answer, Goto, fsVars, Shapes, Loading
<1>15. ASSUME NEW q \in Paths, RecheckIntervalElapses(q) \/ Evict(q) PROVE (\A x \in Requests : Loading(x))'
    BY <1>0, <1>15, Zenon DEF RecheckIntervalElapses, Evict, fsVars, reqVars, Loading
<1>16. ASSUME NEW k \in Keys, EvictMiss(k) PROVE (\A x \in Requests : Loading(x))'
    BY <1>0, <1>16, Zenon DEF EvictMiss, fsVars, reqVars, Loading
<1>17. CASE UNCHANGED vars
    BY <1>0, <1>17, Zenon DEF vars, Loading
<1>18. ASSUME NEW r \in Requests, LookupEntry(r) PROVE (\A x \in Requests : Loading(x))'
    BY <1>0, <1>18, ZenonT(30) DEF LookupEntry, Answer, Goto, fsVars, Shapes, Loading
<1>19. ASSUME NEW r \in Requests, Unbind(r) PROVE (\A x \in Requests : Loading(x))'
    BY <1>0, <1>19, Zenon DEF Unbind, Goto, fsVars, Shapes, Loading
<1>20. ASSUME NEW r \in Requests, BindListing(r) PROVE (\A x \in Requests : Loading(x))'
    BY <1>0, <1>20, Zenon DEF BindListing, Goto, fsVars, Shapes, Loading
<1> QED
    BY <1>1, <1>2, <1>3, <1>4, <1>5, <1>6, <1>7, <1>8, <1>9, <1>10, <1>11, <1>12, <1>13, <1>14,
       <1>15, <1>16, <1>17, <1>18, <1>19, <1>20, Zenon DEF Next, Serve

\* Every step keeps the times of the cached files behind their contents.
LEMMA NeverAheadStep == IInv /\ [Next]_vars => NeverAhead'
<1> SUFFICES ASSUME IInv, [Next]_vars PROVE NeverAhead'
    BY Zenon
<1>0. Shapes /\ NeverAhead /\ \A r \in Requests : Place(r) /\ Loading(r)
    BY Zenon DEF IInv
<1>1. NoEntry.last_modified =< NoEntry.content
    BY DEF NoEntry
<1>2. \A q \in Files, b \in BOOLEAN :
          [cache[q] EXCEPT !.recent = b].last_modified =< [cache[q] EXCEPT !.recent = b].content
  <2>1. \A q \in Files : cache[q] \in Entry /\ cache[q].last_modified =< cache[q].content
      BY <1>0, Zenon DEF Shapes, NeverAhead, Paths
  <2> TAKE q \in Files, b \in BOOLEAN
  <2>2. cache[q] \in Entry
      BY <2>1, Zenon
  <2>3. /\ [cache[q] EXCEPT !.recent = b].last_modified = cache[q].last_modified
        /\ [cache[q] EXCEPT !.recent = b].content = cache[q].content
      BY <2>2, EntryFields, Zenon
  <2> QED
      BY <2>1, <2>3, Zenon
<1>3. CASE UNCHANGED cache
    BY <1>0, <1>3, Zenon DEF NeverAhead
<1>4. ASSUME NEW r \in Requests, Recheck(r) PROVE NeverAhead'
  <2>1. path[r] \in Paths
      BY <1>0, <1>4, Zenon DEF Recheck, Place
  <2>2. cache' \in {cache, [cache EXCEPT ![path[r]].recent = TRUE],
                    [cache EXCEPT ![path[r]] = NoEntry]}
      BY <1>4, Zenon DEF Recheck
  <2> QED
      BY <1>0, <1>1, <1>2, <2>1, <2>2, Zenon DEF NeverAhead, Shapes, Paths
<1>5. ASSUME NEW r \in Requests, Insert(r) PROVE NeverAhead'
    BY <1>0, <1>5, Zenon DEF Insert, NeverAhead, Shapes, Paths, Place, Loading
<1>6. ASSUME NEW q \in Paths, RecheckIntervalElapses(q) PROVE NeverAhead'
    BY <1>0, <1>2, <1>6, Zenon DEF RecheckIntervalElapses, NeverAhead, Shapes, Paths
<1>7. ASSUME NEW q \in Paths, Evict(q) PROVE NeverAhead'
    BY <1>0, <1>1, <1>7, Zenon DEF Evict, NeverAhead, Shapes, Paths
<1>8. ASSUME NEW r \in Requests, Serve(r), ~Recheck(r), ~Insert(r) PROVE UNCHANGED cache
    BY <1>8, Zenon DEF Serve, Finish, Lookup, LookupEntry, Unbind, Resolve, ResolveHtml, ResolveIndex,
                ReadDir, BindListing,
                MakeListing, ReadMetadata, ReadContent, Stream, cacheVars
<1>9. ASSUME NEW r \in Requests, NEW k \in Keys, Request(r, k) PROVE UNCHANGED cache
    BY <1>9, Zenon DEF Request, cacheVars
<1>10. ASSUME NEW f \in Files, Write(f) \/ Remove(f) PROVE UNCHANGED cache
    BY <1>10, Zenon DEF Write, Remove, cacheVars
<1>11. ASSUME NEW k \in Keys, EvictMiss(k) PROVE UNCHANGED cache
    BY <1>11, Zenon DEF EvictMiss
<1>12. UNCHANGED vars => UNCHANGED cache
    BY Zenon DEF vars
<1> QED
    BY <1>3, <1>4, <1>5, <1>6, <1>7, <1>8, <1>9, <1>10, <1>11, <1>12, Zenon DEF Next

(***************************************************************************)
(* Whatever is written or removed while files are loaded (read_entire_file *)
(* under CacheEntry::new), no cached file carries a modification time      *)
(* newer than its content.                                                 *)
(***************************************************************************)
THEOREM CacheNeverAhead == Spec => []NeverAhead
<1>1. IInv /\ [Next]_vars => IInv'
    BY ShapesStep, PlaceStep, ChangesStep, LoadingStep, NeverAheadStep, Zenon DEF IInv
<1>2. IInv => NeverAhead
    BY Zenon DEF IInv
<1> QED
    BY <1>1, <1>2, InitIInv, PTL DEF Spec
=============================================================================
