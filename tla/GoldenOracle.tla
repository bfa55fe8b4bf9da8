----------------------------- MODULE GoldenOracle -----------------------------
(***************************************************************************)
(* sw/fifo_model.py: the golden checker.  It replays the lines of the      *)
(* host's trace.csv against a deque and exits 0 when it met no mismatch.   *)
(*                                                                         *)
(* One step is one line of the file, of any shape: the file is written by  *)
(* another program and nothing promises that it is whole.  sent, got,      *)
(* sentBefore and bad are history: the values of the push lines, of the    *)
(* pop lines, how many push lines came before each pop line, and how many  *)
(* lines are no event at all.                                              *)
(***************************************************************************)
EXTENDS TaskWords, Naturals, Sequences

CONSTANT MaxLines   \* bound: the events of the trace

ASSUME OracleAssumption == MaxLines \in Nat

VARIABLES
  q, mismatches, pushes, pops,   \* check_trace's
  exit,                          \* "replaying", or main's exit status
  sent, got, sentBefore, bad

oracleVars == <<q, mismatches, pushes, pops, exit, sent, got, sentBefore, bad>>

OracleInit ==
  /\ q = <<>> /\ sent = <<>> /\ got = <<>> /\ sentBefore = <<>>
  /\ mismatches = 0 /\ pushes = 0 /\ pops = 0 /\ bad = 0
  /\ exit = "replaying"

Replaying == exit = "replaying" /\ pushes + pops + bad < MaxLines

PushLine(v) ==
  /\ Replaying
  /\ q' = Append(q, v)
  /\ pushes' = pushes + 1
  /\ sent' = Append(sent, v)
  /\ UNCHANGED <<mismatches, pops, exit, got, sentBefore, bad>>

\* Fault: the newest word expected instead of the oldest.
PopLineNewest(v) ==
  /\ Replaying
  /\ pops' = pops + 1
  /\ mismatches' = IF q # <<>> /\ q[Len(q)] = v THEN mismatches ELSE mismatches + 1
  /\ q' = IF q = <<>> THEN q ELSE SubSeq(q, 1, Len(q) - 1)
  /\ got' = Append(got, v)
  /\ sentBefore' = Append(sentBefore, Len(sent))
  /\ UNCHANGED <<pushes, exit, sent, bad>>

\* The oldest word leaves whether or not it is the one the line names.
PopLine(v) ==
  /\ Replaying
  /\ pops' = pops + 1
  /\ mismatches' = IF q # <<>> /\ Head(q) = v THEN mismatches ELSE mismatches + 1
  /\ q' = IF q = <<>> THEN q ELSE Tail(q)
  /\ got' = Append(got, v)
  /\ sentBefore' = Append(sentBefore, Len(sent))
  /\ UNCHANGED <<pushes, exit, sent, bad>>

\* Fault: a line that is no event passes in silence.
BadLineSilent ==
  /\ Replaying
  /\ bad' = bad + 1
  /\ UNCHANGED <<q, mismatches, pushes, pops, exit, sent, got, sentBefore>>

\* Two fields, but the value is not hexadecimal or the operation unknown.
\* (A blank line, or one without exactly two fields, changes nothing.)
BadLine ==
  /\ Replaying
  /\ bad' = bad + 1
  /\ mismatches' = mismatches + 1
  /\ UNCHANGED <<q, pushes, pops, exit, sent, got, sentBefore>>

EndOfTrace ==
  /\ exit = "replaying"
  /\ exit' = IF mismatches = 0 THEN "0" ELSE "1"
  /\ UNCHANGED <<q, mismatches, pushes, pops, sent, got, sentBefore, bad>>

OracleNext ==
  \/ \E v \in Data : PushLine(v) \/ PopLine(v)
  \/ BadLine
  \/ EndOfTrace

OracleSpec == OracleInit /\ [][OracleNext]_oracleVars

-------------------------------------------------------------------------------
(***************************************************************************)
(* Properties.                                                             *)
(***************************************************************************)

OracleTypeOK ==
  /\ q \in Seq(Data) /\ sent \in Seq(Data) /\ got \in Seq(Data)
  /\ sentBefore \in Seq(Nat) /\ Len(sentBefore) = Len(got)
  /\ mismatches \in Nat /\ bad \in Nat
  /\ pushes = Len(sent) /\ pops = Len(got)
  /\ exit \in {"replaying", "0", "1"}

\* The reference: the k-th pop of the trace takes the k-th push, and comes
\* after it.
PopsTakePushesInOrder ==
  \A k \in 1 .. Len(got) : k <= sentBefore[k] /\ k <= Len(sent) /\ got[k] = sent[k]

\* While nothing was counted, the deque is the pushes not popped yet.
LeftoverIsUnmatched ==
  mismatches = 0 =>
    /\ Len(got) + Len(q) = Len(sent)
    /\ \A i \in 1 .. Len(q) : q[i] = sent[Len(got) + i]

\* A mismatch is counted exactly when the trace read so far is not one a
\* FIFO can produce, or holds a line that is no event.
MismatchIffNotFifo == mismatches = 0 <=> bad = 0 /\ PopsTakePushesInOrder

\* The inductive invariant.
OracleInv ==
  /\ OracleTypeOK /\ LeftoverIsUnmatched /\ MismatchIffNotFifo
  /\ \A k \in 1 .. Len(got) : sentBefore[k] <= Len(sent)

\* The exit status tells FIFO traces from all others.
VerdictIsReference ==
  exit # "replaying" => (exit = "0" <=> bad = 0 /\ PopsTakePushesInOrder)

===============================================================================
