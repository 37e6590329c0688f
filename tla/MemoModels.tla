------------------------------ MODULE MemoModels ------------------------------
(***************************************************************************)
(* The values the transcription pipeline passes around: memo statuses      *)
(* (internal/models/voice_memo.go) and transcription jobs                  *)
(* (internal/queue/memory_queue.go).  A memo is known by its id alone; its *)
(* title, tags, sizes, audio key, text, version and timestamps are data no *)
(* property tells apart.                                                   *)
(***************************************************************************)
EXTENDS Integers

CONSTANTS
    Memo,        \* the memo ids that may be allocated
    NoMemo,      \* the memo of an agent that holds no job
    MaxRetries   \* queue.MaxRetries

ASSUME NoMemoAssumption == NoMemo \notin Memo
ASSUME MaxRetriesAssumption == MaxRetries \in Nat \ {0}

\* models.VoiceMemoStatus, and "absent" for an id no document has.
Status == {"absent", "pending_upload", "transcribing", "ready", "failed"}

\* queue.TranscriptionJob.  handleFailure may raise retry to MaxRetries.
Job == [memo : Memo, retry : 0 .. MaxRetries]

NoJob == [memo |-> NoMemo, retry |-> 0]

===============================================================================
