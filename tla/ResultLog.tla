----------------------------- MODULE ResultLog -----------------------------
(***************************************************************************)
(* What the inventory database promises to whoever reads it, without its   *)
(* header, its offsets or the bytes in it: a log that only grows, by the   *)
(* results the workers emitted, in the order in which they were emitted.   *)
(* A run begins by overwriting what another run left.  Two things end the  *)
(* order, not the growth: once all that was emitted is in the log, a       *)
(* result may be made up (the end of the run announces one that is not     *)
(* there); and a worker that is killed while it emits breaks the channel.  *)
(* A write that is cut short in the drain, which goes on behind it, is the *)
(* end of what the log promises.                                           *)
(***************************************************************************)
EXTENDS Naturals, Sequences, SequencesExt

CONSTANTS Result,   \* the results the workers may emit, each at most once
          Past      \* what a made up result may be instead of one of them

VARIABLES emitted,   \* the results emitted so far
          log,       \* the results that can be read
          state      \* of a former run, or this one's: open, made_up, broken, torn

logVars == <<emitted, log, state>>

Init ==
    /\ emitted = <<>>
    /\ log \in Seq(Result)
    /\ state = "former"

Overwrite ==
    /\ state = "former"
    /\ state' = "open" /\ log' = <<>>
    /\ UNCHANGED emitted

Emit(r) ==
    /\ state \in {"open", "made_up"}
    /\ r \notin ToSet(emitted)
    /\ emitted' = Append(emitted, r)
    /\ UNCHANGED <<log, state>>

Record ==
    /\ state = "open"
    /\ Len(log) < Len(emitted)
    /\ log' = Append(log, emitted[Len(log) + 1])
    /\ UNCHANGED <<emitted, state>>

MakeUp ==
    /\ state = "open"
    /\ Len(log) = Len(emitted)
    /\ state' = "made_up"
    /\ UNCHANGED <<emitted, log>>

Break ==
    /\ state \in {"open", "made_up"}
    /\ state' = "broken"
    /\ UNCHANGED <<emitted, log>>

RecordAny(r) ==
    /\ state \in {"made_up", "broken"}
    /\ log' = Append(log, r)
    /\ UNCHANGED <<emitted, state>>

Tear ==
    /\ state \in {"open", "made_up", "broken"}
    /\ state' = "torn" /\ log' = <<>>
    /\ UNCHANGED emitted

Next ==
    \/ Overwrite \/ Record \/ MakeUp \/ Break \/ Tear
    \/ \E r \in Result : Emit(r)
    \/ \E r \in Result \cup {Past} : RecordAny(r)

Spec == Init /\ [][Next]_logVars
=============================================================================
