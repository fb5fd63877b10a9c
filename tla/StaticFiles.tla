----------------------------- MODULE StaticFiles -----------------------------
(***************************************************************************)
(* The static file server (services/static_file_server.rs), which the      *)
(* static_assets middleware asks for every GET and HEAD request it         *)
(* matches.  One server is shared by all requests of a worker; it keeps    *)
(*   key_to_path  the file a request key was last resolved to,             *)
(*   cache        the contents of small files, by path,                    *)
(*   miss_cache   the keys that resolved to nothing.                       *)
(* `resolve' awaits the file system between its reads and its writes of    *)
(* these tables, so requests interleave with each other and with whoever   *)
(* writes the files.  Each action below is one stretch of resolve (and of  *)
(* the load or the stream it starts) between two awaits; a stretch that    *)
(* uses two tables, each under its own lock, is two actions.               *)
(*                                                                         *)
(* A file is abstracted to the number of the change that produced it,      *)
(* which is its content and its modification time at once (so: a change    *)
(* gives a file a modification time it did not have before).  The keys are *)
(* ones that pass the extension, normalisation and hidden-file tests: the  *)
(* others are refused without touching any table.                          *)
(***************************************************************************)
EXTENDS Integers

CONSTANTS Requests,       \* concurrent request slots of one worker
          Keys,           \* request keys; a key is also its full_path
          Dirs,           \* the keys that name a directory
          Files,          \* the paths a file can be at
          Html,           \* Html[k]: full_path with extension html, or NoPath
                          \* (always NoPath without try_html_extension)
          Index,          \* Index[k]: index.html in the directory k
          Listing,        \* Listing[k]: the virtual path of its listing
          NoPath,
          TooLarge,       \* the versions longer than max_file_size
          auto_index,     \* the option of that name
          MaxVersion      \* bound: number of changes to the file system

Missing == 0

Listings == {Listing[k] : k \in Dirs}

Paths == Files \cup Listings

ASSUME ConstantsAssumption ==
    /\ MaxVersion \in Nat \ {0}
    /\ TooLarge \subseteq 1 .. MaxVersion
    /\ auto_index \in BOOLEAN
    /\ Dirs \subseteq Keys
    /\ Keys \ Dirs \subseteq Files
    /\ Html \in [Keys -> Files \cup {NoPath}]
    /\ Index \in [Dirs -> Files]
    /\ Listings \cap Files = {}
    /\ NoPath \notin Paths

VARIABLES fs,          \* fs[f]: the version of file f, or Missing
          version,     \* the number of changes made so far
          miss_cache,  \* set of keys
          key_to_path, \* key_to_path[k]: a path, or NoPath
          cache,       \* cache[p]: a CacheEntry, or NoEntry
          pc,          \* pc[r]: the await request r is at
          key,         \* key[r]: the key r asks for
          path,        \* path[r]: the path r works on
          entry,       \* entry[r]: the entry r holds or is loading
          shared,      \* shared[r]: entry[r] is the object in the cache
          answer       \* answer[r]: what r was answered

fsVars == <<fs, version>>

cacheVars == <<miss_cache, key_to_path, cache>>

reqVars == <<pc, key, path, entry, shared, answer>>

vars == <<fs, version, miss_cache, key_to_path, cache, pc, key, path, entry,
          shared, answer>>

(***************************************************************************)
(* A cache entry: the modification time and the content read for it, and   *)
(* whether last_checked is less than recheck_interval ago.                 *)
(***************************************************************************)
CacheEntry == [last_modified : 0 .. MaxVersion, content : 0 .. MaxVersion,
               recent : BOOLEAN]

\* The key of a slot that serves nobody.
NoKey == NoPath

NoEntry == [last_modified |-> 0, content |-> 0, recent |-> FALSE]

\* What a request is answered: the content of a file or listing, or another
\* outcome.
Content(v) == [kind |-> "content", version |-> v]

Outcome(o) == [kind |-> o, version |-> 0]

States == {"idle", "lookup", "cached", "recheck", "unbind", "resolve", "html",
           "index", "read_dir", "listing", "bind", "metadata", "read", "insert",
           "stream", "done"}

Init ==
    /\ fs \in [Files -> {Missing, 1}]
    /\ version = 1
    /\ miss_cache = {}
    /\ key_to_path = [k \in Keys |-> NoPath]
    /\ cache = [p \in Paths |-> NoEntry]
    /\ pc = [r \in Requests |-> "idle"]
    /\ key = [r \in Requests |-> NoKey]
    /\ path = [r \in Requests |-> NoPath]
    /\ entry = [r \in Requests |-> NoEntry]
    /\ shared = [r \in Requests |-> FALSE]
    /\ answer = [r \in Requests |-> Outcome("none")]

----------------------------------------------------------------------------
(***************************************************************************)
(* The file system: someone writes or removes a file.                      *)
(***************************************************************************)
Write(f) ==
    /\ version < MaxVersion
    /\ version' = version + 1
    /\ fs' = [fs EXCEPT ![f] = version + 1]
    /\ UNCHANGED <<cacheVars, reqVars>>

Remove(f) ==
    /\ version < MaxVersion
    /\ fs[f] # Missing
    /\ version' = version + 1
    /\ fs' = [fs EXCEPT ![f] = Missing]
    /\ UNCHANGED <<cacheVars, reqVars>>

----------------------------------------------------------------------------
(***************************************************************************)
(* What a request does when it is done with resolve: it holds a result.    *)
(***************************************************************************)
Goto(r, s) == pc' = [pc EXCEPT ![r] = s]

Answer(r, a) ==
    /\ Goto(r, "done")
    /\ answer' = [answer EXCEPT ![r] = a]

\* The end of resolve: the key is remembered as one that resolves to nothing.
NotFound(r) ==
    /\ miss_cache' = miss_cache \cup {key[r]}
    /\ Answer(r, Outcome("notfound"))

\* A request arrives; a key in miss_cache is answered at once.
Request(r, k) ==
    /\ pc[r] = "idle"
    /\ key' = [key EXCEPT ![r] = k]
    /\ IF k \in miss_cache
       THEN Answer(r, Outcome("notfound"))
       ELSE Goto(r, "lookup") /\ UNCHANGED answer
    /\ UNCHANGED <<fsVars, cacheVars, path, entry, shared>>

\* The response is handed on; the slot is reused for another request.
Finish(r) ==
    /\ pc[r] = "done"
    /\ Goto(r, "idle")
    /\ answer' = [answer EXCEPT ![r] = Outcome("none")]
    /\ key' = [key EXCEPT ![r] = NoKey]
    /\ path' = [path EXCEPT ![r] = NoPath]
    /\ UNCHANGED <<fsVars, cacheVars, entry, shared>>

\* The path the key was last resolved to.
Lookup(r) ==
    LET p == key_to_path[key[r]] IN
    /\ pc[r] = "lookup"
    /\ path' = [path EXCEPT ![r] = p]
    /\ Goto(r, IF p = NoPath THEN "resolve" ELSE "cached")
    /\ UNCHANGED <<fsVars, cacheVars, key, entry, shared, answer>>

\* A cached entry that was checked recently is the answer; an older one is
\* compared with the file first.
LookupEntry(r) ==
    LET p == path[r] IN
    /\ pc[r] = "cached"
    /\ \/ /\ cache[p] = NoEntry
          /\ path' = [path EXCEPT ![r] = NoPath]
          /\ Goto(r, "resolve")
          /\ UNCHANGED <<entry, shared, answer>>
       \/ /\ cache[p] # NoEntry /\ cache[p].recent
          /\ Answer(r, Content(cache[p].content))
          /\ UNCHANGED <<path, entry, shared>>
       \/ /\ cache[p] # NoEntry /\ ~cache[p].recent
          /\ Goto(r, "recheck")
          /\ entry' = [entry EXCEPT ![r] = cache[p]]
          /\ shared' = [shared EXCEPT ![r] = TRUE]
          /\ UNCHANGED <<path, answer>>
    /\ UNCHANGED <<fsVars, cacheVars, key>>

\* Mutant: any file that still exists counts as unchanged.
RecheckExists(r) ==
    LET p == path[r] IN
    /\ pc[r] = "recheck"
    /\ \/ /\ p \in Files
          /\ fs[p] # Missing
          /\ cache' = IF shared[r] THEN [cache EXCEPT ![p].recent = TRUE] ELSE cache
          /\ Answer(r, Content(entry[r].content))
          /\ UNCHANGED path
       \/ /\ p \in Files => fs[p] = Missing
          /\ path' = [path EXCEPT ![r] = NoPath]
          /\ Goto(r, "resolve")
          /\ UNCHANGED <<cache, answer>>
    /\ shared' = [shared EXCEPT ![r] = FALSE]
    /\ entry' = [entry EXCEPT ![r] = NoEntry]
    /\ UNCHANGED <<fsVars, miss_cache, key_to_path, key>>

\* The file has not changed: last_checked is updated in the entry r holds,
\* which need not be the one in the cache any more.  It has, and is too large
\* now: it leaves the cache, then the key loses its path.  In every case but
\* the first the key is resolved anew; a listing's virtual path never exists.
Recheck(r) ==
    LET p == path[r] IN
    /\ pc[r] = "recheck"
    /\ \/ /\ p \in Files
          /\ fs[p] # Missing
          /\ fs[p] = entry[r].last_modified
          /\ cache' = IF shared[r] THEN [cache EXCEPT ![p].recent = TRUE] ELSE cache
          /\ shared' = [shared EXCEPT ![r] = FALSE]
          /\ Answer(r, Content(entry[r].content))
          /\ UNCHANGED path
       \/ /\ p \in Files
          /\ fs[p] # entry[r].last_modified
          /\ fs[p] \in TooLarge
          /\ cache' = [cache EXCEPT ![p] = NoEntry]
          /\ shared' = [q \in Requests |-> shared[q] /\ path[q] # p]
          /\ path' = [path EXCEPT ![r] = NoPath]
          /\ Goto(r, "unbind")
          /\ UNCHANGED answer
       \/ /\ p \in Files => fs[p] # entry[r].last_modified /\ fs[p] \notin TooLarge
          /\ shared' = [shared EXCEPT ![r] = FALSE]
          /\ path' = [path EXCEPT ![r] = NoPath]
          /\ Goto(r, "resolve")
          /\ UNCHANGED <<cache, answer>>
    /\ entry' = [entry EXCEPT ![r] = NoEntry]
    /\ UNCHANGED <<fsVars, miss_cache, key_to_path, key>>

Unbind(r) ==
    /\ pc[r] = "unbind"
    /\ key_to_path' = [key_to_path EXCEPT ![key[r]] = NoPath]
    /\ Goto(r, "resolve")
    /\ UNCHANGED <<fsVars, miss_cache, cache, key, path, entry, shared, answer>>

\* A file found at p that fits in the cache is loaded into it.
FoundFile(r, p) ==
    /\ path' = [path EXCEPT ![r] = p]
    /\ key_to_path' = [key_to_path EXCEPT ![key[r]] = p]
    /\ Goto(r, "metadata")

\* tokio::fs::metadata(&full_path): a small file, a large one, a directory
\* (asked for without its trailing slash, or with it), or nothing.
Resolve(r) ==
    LET k == key[r] IN
    /\ pc[r] = "resolve"
    /\ \/ /\ k \notin Dirs
          /\ fs[k] \notin TooLarge \cup {Missing}
          /\ FoundFile(r, k)
          /\ UNCHANGED <<miss_cache, answer>>
       \/ /\ k \notin Dirs
          /\ fs[k] \in TooLarge
          /\ path' = [path EXCEPT ![r] = k]
          /\ Goto(r, "stream")
          /\ UNCHANGED <<miss_cache, key_to_path, answer>>
       \/ /\ k \in Dirs
          /\ Answer(r, Outcome("redirect"))
          /\ UNCHANGED <<miss_cache, key_to_path, path>>
       \/ /\ k \in Dirs
          /\ Goto(r, "index")
          /\ UNCHANGED <<miss_cache, key_to_path, path, answer>>
       \/ /\ k \notin Dirs
          /\ fs[k] = Missing
          /\ IF Html[k] # NoPath
             THEN Goto(r, "html") /\ UNCHANGED <<miss_cache, answer>>
             ELSE NotFound(r)
          /\ UNCHANGED <<key_to_path, path>>
    /\ UNCHANGED <<fsVars, cache, key, entry, shared>>

\* The key with the extension html: the key is bound to that path whether or
\* not the file fits in the cache.
ResolveHtml(r) ==
    LET p == Html[key[r]] IN
    /\ pc[r] = "html"
    /\ \/ /\ fs[p] \notin TooLarge \cup {Missing}
          /\ FoundFile(r, p)
          /\ UNCHANGED <<miss_cache, answer>>
       \/ /\ fs[p] \in TooLarge
          /\ path' = [path EXCEPT ![r] = p]
          /\ key_to_path' = [key_to_path EXCEPT ![key[r]] = p]
          /\ Goto(r, "stream")
          /\ UNCHANGED <<miss_cache, answer>>
       \/ /\ fs[p] = Missing
          /\ NotFound(r)
          /\ UNCHANGED <<key_to_path, path>>
    /\ UNCHANGED <<fsVars, cache, key, entry, shared>>

\* index.html in the directory, whatever its size.
ResolveIndex(r) ==
    LET p == Index[key[r]] IN
    /\ pc[r] = "index"
    /\ IF fs[p] # Missing
       THEN FoundFile(r, p)
       ELSE Goto(r, "read_dir") /\ UNCHANGED <<path, key_to_path>>
    /\ UNCHANGED <<fsVars, miss_cache, cache, key, entry, shared, answer>>

\* The directory is searched for the index once more, in any case of letters;
\* failing that it is listed, if the option is on.  A directory that cannot be
\* read, or an entry that is gone when its metadata is asked for, ends the
\* search with an answer that is not remembered.
ReadDir(r) ==
    LET p == Index[key[r]] IN
    /\ pc[r] = "read_dir"
    /\ \/ /\ fs[p] # Missing
          /\ FoundFile(r, p)
          /\ UNCHANGED <<miss_cache, answer>>
       \/ /\ fs[p] = Missing
          /\ IF auto_index
             THEN Goto(r, "listing") /\ UNCHANGED <<miss_cache, answer>>
             ELSE NotFound(r)
          /\ UNCHANGED <<path, key_to_path>>
       \/ /\ Answer(r, Outcome("notfound"))
          /\ UNCHANGED <<miss_cache, path, key_to_path>>
    /\ UNCHANGED <<fsVars, cache, key, entry, shared>>

\* new_virtual_listing: the content is the state of the directory.  Its time
\* of modification is never compared with anything and is left out.
MakeListing(r) ==
    LET p == Listing[key[r]] IN
    /\ pc[r] = "listing"
    /\ path' = [path EXCEPT ![r] = p]
    /\ entry' = [entry EXCEPT ![r] = [NoEntry EXCEPT !.content = version,
                                                !.recent = TRUE]]
    /\ Goto(r, "bind")
    /\ UNCHANGED <<fsVars, cacheVars, key, shared, answer>>

\* The key is bound to the listing; for a file that was done when it was found.
BindListing(r) ==
    /\ pc[r] = "bind"
    /\ key_to_path' = [key_to_path EXCEPT ![key[r]] = path[r]]
    /\ Goto(r, "insert")
    /\ UNCHANGED <<fsVars, miss_cache, cache, key, path, entry, shared, answer>>

\* read_entire_file, first half: the modification time.  A file that is gone
\* by now makes CacheEntry::new fail, and its result is unwrapped.
ReadMetadata(r) ==
    LET p == path[r] IN
    /\ pc[r] = "metadata"
    /\ IF fs[p] = Missing
       THEN Answer(r, Outcome("panic")) /\ UNCHANGED entry
       ELSE /\ entry' = [entry EXCEPT ![r] = [NoEntry EXCEPT !.last_modified = fs[p]]]
            /\ Goto(r, "read")
            /\ UNCHANGED answer
    /\ UNCHANGED <<fsVars, cacheVars, key, path, shared>>

\* read_entire_file, second half: the content.
ReadContent(r) ==
    LET p == path[r] IN
    /\ pc[r] = "read"
    /\ IF fs[p] = Missing
       THEN /\ entry' = [entry EXCEPT ![r] = NoEntry]
            /\ Answer(r, Outcome("panic"))
       ELSE /\ entry' = [entry EXCEPT ![r].content = fs[p], ![r].recent = TRUE]
            /\ Goto(r, "insert")
            /\ UNCHANGED answer
    /\ UNCHANGED <<fsVars, cacheVars, key, path, shared>>

\* Mutant: the modification time is taken after the content was read.
InsertStamped(r) ==
    LET p == path[r] IN
    /\ pc[r] = "insert"
    /\ cache' = [cache EXCEPT ![p] =
                    IF p \in Files THEN [entry[r] EXCEPT !.last_modified = fs[p]] ELSE entry[r]]
    /\ shared' = [q \in Requests |-> shared[q] /\ path[q] # p]
    /\ Answer(r, Content(entry[r].content))
    /\ entry' = [entry EXCEPT ![r] = NoEntry]
    /\ UNCHANGED <<fsVars, miss_cache, key_to_path, key, path>>

\* The entry, complete once its compressed variants have been looked for,
\* replaces whatever is cached for the path.
Insert(r) ==
    LET p == path[r] IN
    /\ pc[r] = "insert"
    /\ cache' = [cache EXCEPT ![p] = entry[r]]
    /\ shared' = [q \in Requests |-> shared[q] /\ path[q] # p]
    /\ Answer(r, Content(entry[r].content))
    /\ entry' = [entry EXCEPT ![r] = NoEntry]
    /\ UNCHANGED <<fsVars, miss_cache, key_to_path, key, path>>

\* serve_stream_content: the file is opened again, and that result unwrapped.
Stream(r) ==
    /\ pc[r] = "stream"
    /\ Answer(r, IF fs[path[r]] = Missing THEN Outcome("panic") ELSE Content(fs[path[r]]))
    /\ UNCHANGED <<fsVars, cacheVars, key, path, entry, shared>>

----------------------------------------------------------------------------
(***************************************************************************)
(* Time, and the limits of the two caches.                                 *)
(***************************************************************************)
RecheckIntervalElapses(p) ==
    /\ cache[p].recent
    /\ cache' = [cache EXCEPT ![p].recent = FALSE]
    /\ UNCHANGED <<fsVars, miss_cache, key_to_path, reqVars>>

Evict(p) ==
    /\ cache[p] # NoEntry
    /\ cache' = [cache EXCEPT ![p] = NoEntry]
    /\ shared' = [r \in Requests |-> shared[r] /\ path[r] # p]
    /\ UNCHANGED <<fsVars, miss_cache, key_to_path, pc, key, path, entry, answer>>

EvictMiss(k) ==
    /\ k \in miss_cache
    /\ miss_cache' = miss_cache \ {k}
    /\ UNCHANGED <<fsVars, key_to_path, cache, reqVars>>

Serve(r) ==
    \/ Lookup(r)
    \/ LookupEntry(r)
    \/ Recheck(r)
    \/ Unbind(r)
    \/ Resolve(r)
    \/ ResolveHtml(r)
    \/ ResolveIndex(r)
    \/ ReadDir(r)
    \/ MakeListing(r)
    \/ BindListing(r)
    \/ ReadMetadata(r)
    \/ ReadContent(r)
    \/ Insert(r)
    \/ Stream(r)
    \/ Finish(r)

Next ==
    \/ \E f \in Files : Write(f) \/ Remove(f)
    \/ \E r \in Requests : Serve(r) \/ \E k \in Keys : Request(r, k)
    \/ \E p \in Paths : RecheckIntervalElapses(p) \/ Evict(p)
    \/ \E k \in Keys : EvictMiss(k)

Spec == Init /\ [][Next]_vars

\* The runtime polls every task that is ready and the file system answers;
\* time passes.  Nobody has to ask for anything, to change a file, or to be
\* evicted.
Fairness ==
    /\ \A r \in Requests : WF_vars(Serve(r))
    /\ \A p \in Paths : WF_vars(RecheckIntervalElapses(p))

FairSpec == Spec /\ Fairness

----------------------------------------------------------------------------
TypeOK ==
    /\ fs \in [Files -> 0 .. MaxVersion]
    /\ version \in 1 .. MaxVersion
    /\ miss_cache \subseteq Keys
    /\ key_to_path \in [Keys -> Paths \cup {NoPath}]
    /\ cache \in [Paths -> CacheEntry]
    /\ pc \in [Requests -> States]
    /\ key \in [Requests -> Keys \cup {NoKey}]
    /\ path \in [Requests -> Paths \cup {NoPath}]
    /\ entry \in [Requests -> CacheEntry]
    /\ shared \in [Requests -> BOOLEAN]
    /\ answer \in [Requests ->
           [kind : {"content", "none", "notfound", "redirect", "panic"},
            version : 0 .. MaxVersion]]

(***************************************************************************)
(* No cached file carries a modification time newer than its content: the  *)
(* recheck compares only the times (resolve), so a content older than the  *)
(* time stored with it would be served until the file changes again.       *)
(* read_entire_file takes the time first, for a file that may be written   *)
(* between its two reads.                                                  *)
(***************************************************************************)
NeverAhead ==
    \A p \in Files : cache[p].last_modified =< cache[p].content

\* What the server should show for a path at this moment.
Now(p) == IF p \in Files THEN fs[p] ELSE version

(***************************************************************************)
(* Once the files no longer change (MaxVersion bounds the changes, so they *)
(* stop in every behaviour), every content answered is sooner or later the *)
(* present content of the path the key resolves to, and no request panics: *)
(* slow loads that put an old content back, entries being checked while    *)
(* they are replaced, and evictions in between delay this but do not       *)
(* prevent it.  Not-found answers are left out: a miss is cached until it  *)
(* is evicted, without a recheck.                                          *)
(***************************************************************************)
EventuallyCurrent ==
    <>[](\A r \in Requests :
            pc[r] = "done" =>
                /\ answer[r].kind # "panic"
                /\ answer[r].kind = "content" => answer[r].version = Now(path[r]))
=============================================================================
