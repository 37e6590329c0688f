----------------------------- MODULE MemoLifecycle -----------------------------
(***************************************************************************)
(* What the owner of a memo is promised, with no queue, worker or retry in *)
(* sight: the status machine of the StatusPendingUpload .. StatusFailed    *)
(* constants (internal/models/voice_memo.go), deletion at any point, and   *)
(* that transcribing is never the end of it.                               *)
(***************************************************************************)
CONSTANT Memo

VARIABLES status, deleted

memoVars == <<status, deleted>>

Becomes(m, to) ==
    /\ ~deleted[m]
    /\ status' = [status EXCEPT ![m] = to]
    /\ UNCHANGED deleted

Create(m) == status[m] = "absent" /\ Becomes(m, "pending_upload")

Submit(m) == status[m] \in {"pending_upload", "failed"} /\ Becomes(m, "transcribing")

\* The transcription succeeds, is given up, or was not taken on at all.
Settle(m) ==
    /\ status[m] = "transcribing"
    /\ \E to \in {"ready", "failed", "pending_upload"} : Becomes(m, to)

Delete(m) ==
    /\ status[m] /= "absent" /\ ~deleted[m]
    /\ deleted' = [deleted EXCEPT ![m] = TRUE]
    /\ UNCHANGED status

Init ==
    /\ status = [m \in Memo |-> "absent"]
    /\ deleted = [m \in Memo |-> FALSE]

Next == \E m \in Memo : Create(m) \/ Submit(m) \/ Settle(m) \/ Delete(m)

Spec == Init /\ [][Next]_memoVars /\ \A m \in Memo : WF_memoVars(Settle(m))

===============================================================================
