------------------------------ MODULE HttpTable ------------------------------
(***************************************************************************)
(* The HTTP requests of a script: the list of requests and curl's multi    *)
(* handle in src/runner/penmusic.c, the promises that wait in              *)
(* src/plugin/js/lx-shim.js.  RunnerLoop calls these operators from        *)
(* its turn and from the code of scripts.                                  *)
(***************************************************************************)
EXTENDS Integers, Sequences, Functions

VARIABLES
  g_reqs,      \* requests in the native list
  multi,       \* those whose handle curl has taken
  pendingReqs, \* __pendingReqs: those whose promise can still be settled
  reqSeq,      \* __reqSeq: the last id
  settled      \* history: promises settled, in this order

httpVars == <<g_reqs, multi, pendingReqs, reqSeq, settled>>

HttpInit ==
  g_reqs = {} /\ multi = {} /\ pendingReqs = {} /\ reqSeq = 0 /\ settled = <<>>

\* js_request_start accepts the request.
RequestStarts ==
  LET id == reqSeq + 1 IN
    /\ reqSeq' = id
    /\ pendingReqs' = pendingReqs \cup {id}
    /\ g_reqs' = g_reqs \cup {id} /\ multi' = multi \cup {id}
    /\ UNCHANGED settled

\* It accepts it, and curl does not take the handle: what multi_add_handle
\* returns is not looked at.  Only a cancel can settle the request now.
RequestRefused ==
  LET id == reqSeq + 1 IN
    /\ reqSeq' = id
    /\ pendingReqs' = pendingReqs \cup {id}
    /\ g_reqs' = g_reqs \cup {id}
    /\ UNCHANGED <<settled, multi>>

\* It throws: no libcurl, no memory, no handle.  The exception rejects the
\* promise in whose executor it was called; the entry stays.
RequestFails ==
  LET id == reqSeq + 1 IN
    /\ reqSeq' = id
    /\ pendingReqs' = pendingReqs \cup {id}
    /\ settled' = Append(settled, id)
    /\ UNCHANGED <<g_reqs, multi>>

\* req_done and __lx_request_done: a promise that is not there is not settled.
RequestDone(id) ==
  /\ pendingReqs' = pendingReqs \ {id}
  /\ settled' = IF id \in pendingReqs THEN Append(settled, id) ELSE settled

\* Mutant: the request is freed and its promise is not told.
CompleteQuietly(id) ==
  /\ g_reqs' = g_reqs \ {id} /\ multi' = multi \ {id}
  /\ UNCHANGED <<pendingReqs, settled, reqSeq>>

\* http_poll for one message of curl's.
Complete(id) ==
  /\ g_reqs' = g_reqs \ {id}
  /\ RequestDone(id)
  /\ multi' = multi \ {id}
  /\ UNCHANGED reqSeq

\* Mutant: the handle of a cancelled request stays with curl.
CancelKeepsHandle(id) ==
  /\ id \in g_reqs
  /\ g_reqs' = g_reqs \ {id} /\ RequestDone(id)
  /\ UNCHANGED <<multi, reqSeq>>

\* http_cancel.
Cancel(id) ==
  /\ id \in g_reqs
  /\ g_reqs' = g_reqs \ {id}
  /\ RequestDone(id)
  /\ multi' = multi \ {id}
  /\ UNCHANGED reqSeq

-----------------------------------------------------------------------------
HttpTypeOK ==
  /\ reqSeq \in Nat /\ settled \in Seq(1..reqSeq)
  /\ {g_reqs, multi, pendingReqs} \subseteq SUBSET (1..reqSeq)

\* Every request is either listed or settled, never both, and settled once at
\* most; the promise of a listed one waits, and curl has no handle of one that
\* is not listed.  It does not say that curl has all of them (a handle that it
\* refused, penmusic.c:1789), nor that the shim forgets what is settled (a start
\* that threw leaves its entry, lx-shim.js:207).
RequestsAccounted ==
  /\ multi \subseteq g_reqs /\ g_reqs \subseteq pendingReqs
  /\ g_reqs \cap Range(settled) = {} /\ g_reqs \cup Range(settled) = 1..reqSeq
  /\ IsInjective(settled)
=============================================================================
