----------------------------- MODULE Downloads -----------------------------
(***************************************************************************)
(* Downloads of one page (bonk/events.go, onDownload and SaveAsContext;     *)
(* bonk/page_wait.go, WaitForEvent). A watcher is an On(DownloadEvent)      *)
(* whose handler saves the download, as the documentation shows it; a      *)
(* waiter is a WaitForEvent(DownloadEvent) whose caller saves what it gets. *)
(*                                                                         *)
(* Each makes a directory and tells Chrome to download into it, subscribes  *)
(* to a download's beginning and to its progress, and removes the directory *)
(* at the end. Every event starts a goroutine for each subscriber.          *)
(*                                                                         *)
(* Chrome names a file after its download's guid only when it is asked to   *)
(* (allowAndName, proto/browser_types.go:458); onDownload asks for "allow", *)
(* and SaveAs looks for the guid.                                           *)
(***************************************************************************)

CONSTANTS
    Watchers, Waiters,
    Guids,          \* the downloads of the page
    NoGuid, NoDir

ASSUME DownloadsAssumption == Watchers \cap Waiters = {}

Watching == Watchers \cup Waiters
Pairs == Watching \X Guids

VARIABLES
    place,          \* onDownload and its end, for each who watches
    downloadPath,   \* Chrome: whose directory downloads go to
    dl, dir,        \* a download's state, and where Chrome puts it
    starting, progressing,      \* the goroutines of the two events, by pair
    stored, savedPath, closedDone,  \* downloads (the sync.Map); a Download's fields
    got,            \* what is in WaitForEvent's channel
    saving,         \* SaveAs: "none", "blocked", "saved", "unknown" (no path), "noFile"
    tooEarly,       \* history: progress handled before the beginning was stored
    unheard         \* history: completed while u1 was subscribed and u2 was not

dlVars == <<place, downloadPath, dl, dir, starting, progressing, stored, savedPath, closedDone,
            got, saving, tooEarly, unheard>>
chromeVars == <<downloadPath, dl, dir, unheard>>
fieldVars == <<stored, savedPath, closedDone, tooEarly>>

Places == {"none", "dir", "begin", "both", "noBegin", "ended"}

DownloadsTypeOK ==
    /\ place \in [Watching -> Places]
    /\ downloadPath \in Watching \cup {NoDir}
    /\ dl \in [Guids -> {"new", "running", "completed", "canceled"}]
    /\ dir \in [Guids -> Watching \cup {NoDir}]
    /\ starting \in [Pairs -> {"none", "store", "over"}]
    /\ progressing \in [Pairs -> {"none", "load", "close", "over"}]
    /\ stored \subseteq Pairs /\ savedPath \subseteq Pairs /\ closedDone \subseteq Pairs
    /\ got \in [Waiters -> Guids \cup {NoGuid}]
    /\ saving \in [Pairs -> {"none", "blocked", "saved", "unknown", "noFile"}]
    /\ tooEarly \subseteq Pairs /\ unheard \subseteq Pairs

DownloadsInit ==
    /\ place = [s \in Watching |-> "none"]
    /\ downloadPath = NoDir
    /\ dl = [g \in Guids |-> "new"] /\ dir = [g \in Guids |-> NoDir]
    /\ starting = [p \in Pairs |-> "none"] /\ progressing = [p \in Pairs |-> "none"]
    /\ stored = {} /\ savedPath = {} /\ closedDone = {}
    /\ got = [s \in Waiters |-> NoGuid]
    /\ saving = [p \in Pairs |-> "none"]
    /\ tooEarly = {} /\ unheard = {}

Move(s, from, to) == place[s] = from /\ place' = [place EXCEPT ![s] = to]

-----------------------------------------------------------------------------
(* onDownload, and the function it returns                                   *)

\* The errors of MkdirTemp and of the command are ignored: Chrome's path may stay.
SetDownloadPath(s) ==
    /\ Move(s, "none", "dir")
    /\ downloadPath' \in {s, downloadPath}
    /\ UNCHANGED <<dl, dir, starting, progressing, fieldVars, got, saving, unheard>>

SubscribeDownload(s) ==
    /\ Move(s, "dir", "begin") \/ Move(s, "begin", "both")
    /\ UNCHANGED <<chromeVars, starting, progressing, fieldVars, got, saving>>

\* The user ends a watch when it likes, WaitForEvent when it has got a download
\* or its time is up, whatever there may be in its channel then.
EndWatch(s) ==
    /\ Move(s, "both", "noBegin")
    /\ \/ s \in Watchers /\ UNCHANGED got
       \/ s \in Waiters /\ got[s] # NoGuid /\ UNCHANGED got
       \/ s \in Waiters /\ got' = [got EXCEPT ![s] = NoGuid]
    /\ UNCHANGED <<chromeVars, starting, progressing, fieldVars, saving>>

\* The progress is unsubscribed and the directory removed; then WaitForEvent
\* returns, and its caller saves.
RemoveDir(s) ==
    /\ Move(s, "noBegin", "ended")
    /\ saving' = IF s \in Waiters /\ got[s] # NoGuid
                 THEN [saving EXCEPT ![<<s, got[s]>>] = "blocked"] ELSE saving
    /\ UNCHANGED <<chromeVars, starting, progressing, fieldVars, got>>

-----------------------------------------------------------------------------
(* Chrome                                                                    *)

DownloadBegins(g) ==
    /\ dl[g] = "new"
    /\ dl' = [dl EXCEPT ![g] = "running"]
    /\ dir' = [dir EXCEPT ![g] = downloadPath]
    /\ starting' = [p \in Pairs |-> IF p[2] = g /\ place[p[1]] \in {"begin", "both"}
                                    THEN "store" ELSE starting[p]]
    /\ UNCHANGED <<place, downloadPath, progressing, fieldVars, got, saving, unheard>>

\* The handlers of a cancelled download's progress return at once.
DownloadEnds(g, how) ==
    /\ dl[g] = "running"
    /\ dl' = [dl EXCEPT ![g] = how]
    /\ progressing' = [p \in Pairs |->
            IF p[2] = g /\ how = "completed" /\ place[p[1]] \in {"both", "noBegin"}
            THEN "load" ELSE progressing[p]]
    /\ unheard' = unheard \cup {p \in Pairs : p[2] = g /\ place[p[1]] = "begin"}
    /\ UNCHANGED <<place, downloadPath, dir, starting, fieldVars, got, saving>>

-----------------------------------------------------------------------------
(* The goroutines of the events                                              *)

\* Store, then fn: a watcher's SaveAs, or a send to WaitForEvent's channel, which
\* keeps the first and is read no more once the wait is over.
Store(p) ==
    /\ starting[p] = "store"
    /\ starting' = [starting EXCEPT ![p] = "over"]
    /\ stored' = stored \cup {p}
    /\ IF p[1] \in Watchers
       THEN saving' = [saving EXCEPT ![p] = "blocked"] /\ UNCHANGED got
       ELSE /\ got' = IF got[p[1]] = NoGuid /\ place[p[1]] \in {"begin", "both"}
                      THEN [got EXCEPT ![p[1]] = p[2]] ELSE got
            /\ UNCHANGED saving
    /\ UNCHANGED <<place, chromeVars, progressing, savedPath, closedDone, tooEarly>>

\* Variant with a defect: done is closed and savedPath left empty.
CloseWithoutPath(p) ==
    /\ progressing[p] = "load"
    /\ progressing' = [progressing EXCEPT ![p] = IF p \in stored THEN "close" ELSE "over"]
    /\ closedDone' = IF p \in stored THEN closedDone \cup {p} ELSE closedDone
    /\ tooEarly' = IF p \in stored THEN tooEarly ELSE tooEarly \cup {p}
    /\ UNCHANGED <<place, chromeVars, starting, stored, savedPath, got, saving>>

\* Load finds the Download and sets its savedPath, or finds nothing.
LoadDownload(p) ==
    /\ progressing[p] = "load"
    /\ progressing' = [progressing EXCEPT ![p] = IF p \in stored THEN "close" ELSE "over"]
    /\ savedPath' = IF p \in stored THEN savedPath \cup {p} ELSE savedPath
    /\ tooEarly' = IF p \in stored THEN tooEarly ELSE tooEarly \cup {p}
    /\ UNCHANGED <<place, chromeVars, starting, stored, closedDone, got, saving>>

CloseDone(p) ==
    /\ progressing[p] = "close"
    /\ progressing' = [progressing EXCEPT ![p] = "over"]
    /\ closedDone' = closedDone \cup {p}
    /\ UNCHANGED <<place, chromeVars, starting, stored, savedPath, tooEarly, got, saving>>

-----------------------------------------------------------------------------
(* SaveAsContext                                                             *)

Behavior == "allow"     \* what onDownload asks Chrome for

\* There is a file dir/guid in the directory of this watch.
FileThere(p) == Behavior = "allowAndName" /\ dir[p[2]] = p[1] /\ place[p[1]] # "ended"

\* Past done: the path may be empty, or name no file.
SaveAs(p) ==
    /\ saving[p] = "blocked" /\ p \in closedDone
    /\ saving' = [saving EXCEPT ![p] = IF p \notin savedPath THEN "unknown"
                                       ELSE IF FileThere(p) THEN "saved" ELSE "noFile"]
    /\ UNCHANGED <<place, chromeVars, starting, progressing, fieldVars, got>>

HandlersOver(p) == starting[p] # "store" /\ progressing[p] \notin {"load", "close"}

DownloadsNext ==
    \/ \E s \in Watching : SetDownloadPath(s) \/ SubscribeDownload(s) \/ EndWatch(s) \/ RemoveDir(s)
    \/ \E g \in Guids : DownloadBegins(g) \/ \E how \in {"completed", "canceled"} : DownloadEnds(g, how)
    \/ \E p \in Pairs : Store(p) \/ LoadDownload(p) \/ CloseDone(p) \/ SaveAs(p)
    \/ /\ \A s \in Watching : place[s] = "ended"
       /\ \A g \in Guids : dl[g] \in {"completed", "canceled"}
       /\ \A p \in Pairs : HandlersOver(p)
       /\ UNCHANGED dlVars

DownloadsSpec == DownloadsInit /\ [][DownloadsNext]_dlVars

-----------------------------------------------------------------------------
(* Properties                                                                *)

\* SaveAs in a watcher's handler is not kept waiting by a download that has
\* completed -- unless the watch has ended, or the completion was handled before
\* the beginning was stored, or came before the progress was subscribed to -- and
\* whenever it goes on, it has the path that the progress event has set. (That
\* Chrome has put a file of that name there is another matter, see Behavior.)
DownloadReported ==
    \A p \in Watchers \X Guids :
        /\ saving[p] # "unknown"
        /\ (saving[p] = "blocked" /\ place[p[1]] = "both" /\ dl[p[2]] = "completed"
            /\ HandlersOver(p) /\ p \notin tooEarly \cup unheard) => p \in closedDone

\* events.go:77-78, "SaveAs copies the downloaded file to the given path. Blocks
\* until the download completes": of a download that WaitForEvent has returned,
\* SaveAs returns when it has completed. That WaitForEvent has unsubscribed by
\* then lets it block for ever.
WaitedDownloadSaved ==
    \A p \in Waiters \X Guids :
        (saving[p] = "blocked" /\ dl[p[2]] = "completed" /\ HandlersOver(p)
         /\ p \notin tooEarly \cup unheard) => p \in closedDone

=============================================================================
