-------------------------- MODULE GoldenOracleProofs --------------------------
(***************************************************************************)
(* For every trace, of any length and over any words: check_trace counts   *)
(* no mismatch, and main exits 0, exactly when the k-th pop of the trace   *)
(* takes the k-th push.                                                    *)
(***************************************************************************)
EXTENDS GoldenOracle, SequenceTheorems, TLAPS

LEMMA OracleInvInit == OracleInit => OracleInv
<1> SUFFICES ASSUME OracleInit PROVE OracleInv
  OBVIOUS
<1>1. /\ q = <<>> /\ sent = <<>> /\ got = <<>> /\ sentBefore = <<>>
      /\ q \in Seq(Data) /\ sent \in Seq(Data) /\ got \in Seq(Data) /\ sentBefore \in Seq(Nat)
      /\ Len(q) = 0 /\ Len(sent) = 0 /\ Len(got) = 0 /\ Len(sentBefore) = 0
  BY DEF OracleInit
<1> QED
  BY <1>1 DEF OracleInit, OracleInv, OracleTypeOK, LeftoverIsUnmatched, MismatchIffNotFifo,
       PopsTakePushesInOrder

LEMMA OracleInvPush ==
  ASSUME OracleInv, NEW v \in Data, PushLine(v)
  PROVE  OracleInv'
<1>1. /\ q' \in Seq(Data) /\ Len(q') = Len(q) + 1
      /\ \A i \in 1 .. Len(q) : q'[i] = q[i]
      /\ q'[Len(q) + 1] = v
  BY AppendProperties DEF PushLine, OracleInv, OracleTypeOK
<1>2. /\ sent' \in Seq(Data) /\ Len(sent') = Len(sent) + 1
      /\ \A i \in 1 .. Len(sent) : sent'[i] = sent[i]
      /\ sent'[Len(sent) + 1] = v
  BY AppendProperties DEF PushLine, OracleInv, OracleTypeOK
<1>3. /\ Len(q) \in Nat /\ Len(sent) \in Nat /\ Len(got) \in Nat
      /\ Len(sentBefore) = Len(got)
      /\ \A k \in 1 .. Len(got) : sentBefore[k] \in Nat
  BY DEF OracleInv, OracleTypeOK
<1>4. OracleTypeOK'
  BY <1>1, <1>2, <1>3 DEF PushLine, OracleInv, OracleTypeOK
<1>5. LeftoverIsUnmatched'
  <2> SUFFICES ASSUME mismatches = 0
               PROVE  /\ Len(got) + Len(q') = Len(sent')
                      /\ \A i \in 1 .. Len(q') : q'[i] = sent'[Len(got) + i]
    BY DEF PushLine, LeftoverIsUnmatched
  <2>1. /\ Len(got) + Len(q) = Len(sent)
        /\ \A i \in 1 .. Len(q) : q[i] = sent[Len(got) + i]
    BY DEF OracleInv, LeftoverIsUnmatched
  <2>2. ASSUME NEW i \in 1 .. Len(q) PROVE q'[i] = sent'[Len(got) + i]
    <3>1. Len(got) + i \in 1 .. Len(sent)
      BY <1>3, <2>1
    <3> QED BY <1>1, <1>2, <2>1, <3>1
  <2>3. q'[Len(q) + 1] = sent'[Len(got) + (Len(q) + 1)]
    BY <1>1, <1>2, <1>3, <2>1
  <2>4. Len(got) + Len(q') = Len(sent')
    BY <1>1, <1>2, <1>3, <2>1
  <2>5. \A i \in 1 .. Len(q') : i \in 1 .. Len(q) \/ i = Len(q) + 1
    BY <1>1, <1>3
  <2> QED BY <2>2, <2>3, <2>4, <2>5
<1>6. \A k \in 1 .. Len(got) :
        (k <= sentBefore[k] /\ k <= Len(sent') /\ got[k] = sent'[k])
           <=> (k <= sentBefore[k] /\ k <= Len(sent) /\ got[k] = sent[k])
  BY <1>2, <1>3 DEF OracleInv
<1>7. PopsTakePushesInOrder' <=> PopsTakePushesInOrder
  BY <1>6 DEF PushLine, PopsTakePushesInOrder
<1> QED
  BY <1>2, <1>3, <1>4, <1>5, <1>7 DEF PushLine, OracleInv, MismatchIffNotFifo

LEMMA OracleInvPop ==
  ASSUME OracleInv, NEW v \in Data, PopLine(v)
  PROVE  OracleInv'
<1>1. /\ got' \in Seq(Data) /\ Len(got') = Len(got) + 1
      /\ \A i \in 1 .. Len(got) : got'[i] = got[i]
      /\ got'[Len(got) + 1] = v
  BY AppendProperties DEF PopLine, OracleInv, OracleTypeOK
<1>2. /\ Len(sent) \in Nat /\ Len(got) \in Nat /\ Len(q) \in Nat
      /\ Len(sentBefore) = Len(got)
      /\ \A k \in 1 .. Len(got) : sentBefore[k] \in Nat
  BY DEF OracleInv, OracleTypeOK
<1>3. /\ sentBefore' \in Seq(Nat) /\ Len(sentBefore') = Len(got) + 1
      /\ \A i \in 1 .. Len(got) : sentBefore'[i] = sentBefore[i]
      /\ sentBefore'[Len(got) + 1] = Len(sent)
  BY <1>2, AppendProperties DEF PopLine, OracleInv, OracleTypeOK
<1>4. CASE q = <<>>
  <2>1. q' = q /\ mismatches' = mismatches + 1 /\ sent' = sent /\ bad' = bad /\ Len(q) = 0
    BY <1>4 DEF PopLine
  <2>2. OracleTypeOK'
    BY <1>1, <1>2, <1>3, <2>1 DEF PopLine, OracleInv, OracleTypeOK
  <2>3. mismatches' # 0
    BY <2>1 DEF OracleInv, OracleTypeOK
  <2>4. ~(bad' = 0 /\ PopsTakePushesInOrder')
    <3>1. ASSUME bad = 0, PopsTakePushesInOrder' PROVE FALSE
      <4>1. \A k \in 1 .. Len(got) + 1 :
              k <= sentBefore'[k] /\ k <= Len(sent) /\ got'[k] = sent[k]
        BY <3>1, <1>1, <2>1 DEF PopsTakePushesInOrder
      <4>2. PopsTakePushesInOrder
        BY <4>1, <1>1, <1>2, <1>3 DEF PopsTakePushesInOrder
      <4>3. Len(got) = Len(sent)
        BY <3>1, <4>2, <2>1, <1>2 DEF OracleInv, MismatchIffNotFifo, LeftoverIsUnmatched
      <4> QED BY <4>1, <4>3, <1>2
    <3> QED BY <3>1, <2>1
  <2> QED
    BY <1>1, <1>2, <1>3, <2>1, <2>2, <2>3, <2>4
    DEF OracleInv, LeftoverIsUnmatched, MismatchIffNotFifo
<1>5. CASE q # <<>>
  <2>1. /\ q' = Tail(q) /\ sent' = sent /\ bad' = bad
        /\ mismatches' = IF Head(q) = v THEN mismatches ELSE mismatches + 1
    BY <1>5 DEF PopLine
  <2>2. /\ q' \in Seq(Data) /\ Len(q') = Len(q) - 1 /\ Head(q) = q[1] /\ Len(q) > 0
        /\ \A i \in 1 .. Len(q) - 1 : q'[i] = q[i + 1]
    BY <1>5, <2>1, HeadTailProperties DEF OracleInv, OracleTypeOK
  <2>3. OracleTypeOK'
    BY <1>1, <1>2, <1>3, <2>1, <2>2 DEF PopLine, OracleInv, OracleTypeOK
  <2>4. mismatches \in Nat
    BY DEF OracleInv, OracleTypeOK
  <2>5. mismatches' = 0 <=> mismatches = 0 /\ q[1] = v
    BY <2>1, <2>2, <2>4
  <2>6. LeftoverIsUnmatched'
    <3> SUFFICES ASSUME mismatches' = 0
                 PROVE  /\ Len(got') + Len(q') = Len(sent)
                        /\ \A i \in 1 .. Len(q') : q'[i] = sent[Len(got') + i]
      BY <2>1 DEF LeftoverIsUnmatched
    <3>1. /\ Len(got) + Len(q) = Len(sent)
          /\ \A i \in 1 .. Len(q) : q[i] = sent[Len(got) + i]
      BY <2>5 DEF OracleInv, LeftoverIsUnmatched
    <3>2. ASSUME NEW i \in 1 .. Len(q') PROVE q'[i] = sent[Len(got') + i]
      <4>1. i + 1 \in 1 .. Len(q) /\ q'[i] = q[i + 1] /\ Len(got') + i = Len(got) + (i + 1)
        BY <1>1, <1>2, <2>2
      <4> QED BY <3>1, <4>1
    <3>3. Len(got') + Len(q') = Len(sent)
      <4>1. Len(got') = Len(got) + 1 /\ Len(q') = Len(q) - 1 /\ Len(got) + Len(q) = Len(sent)
        BY <1>1, <2>2, <3>1
      <4>2. Len(got) \in Nat /\ Len(q) \in Nat
        BY <1>2
      <4> QED BY <4>1, <4>2
    <3> QED
      <4>1. \A i \in 1 .. Len(q') : q'[i] = sent[Len(got') + i]
        BY <3>2
      <4> QED BY <3>3, <4>1
  <2>7. PopsTakePushesInOrder' <=>
          /\ PopsTakePushesInOrder
          /\ Len(got) + 1 <= Len(sent) /\ v = sent[Len(got) + 1]
    <3> DEFINE P(k) == k <= sentBefore'[k] /\ k <= Len(sent) /\ got'[k] = sent[k]
    <3>1. PopsTakePushesInOrder' <=> (\A k \in 1 .. Len(got) : P(k)) /\ P(Len(got) + 1)
      <4>1. PopsTakePushesInOrder' <=> \A k \in 1 .. Len(got) + 1 : P(k)
        BY <1>1, <2>1 DEF PopsTakePushesInOrder
      <4> HIDE DEF P
      <4> QED BY <4>1, <1>2
    <3>2. (\A k \in 1 .. Len(got) : P(k)) <=> PopsTakePushesInOrder
      BY <1>1, <1>3 DEF PopsTakePushesInOrder
    <3>3. P(Len(got) + 1) <=> Len(got) + 1 <= Len(sent) /\ v = sent[Len(got) + 1]
      BY <1>1, <1>3
    <3> QED BY <3>1, <3>2, <3>3
  <2>8. mismatches = 0 => Len(got) + 1 <= Len(sent) /\ q[1] = sent[Len(got) + 1]
    <3>1. 1 \in 1 .. Len(q)
      BY <1>2, <2>2
    <3> QED BY <1>2, <2>2, <3>1 DEF OracleInv, LeftoverIsUnmatched
  <2>9. MismatchIffNotFifo'
    <3>1. mismatches = 0 <=> bad = 0 /\ PopsTakePushesInOrder
      BY DEF OracleInv, MismatchIffNotFifo
    <3>2. mismatches' = 0 <=> bad = 0 /\ PopsTakePushesInOrder'
      BY <2>5, <2>7, <2>8, <3>1
    <3> QED BY <2>1, <3>2 DEF MismatchIffNotFifo
  <2> QED
    <3>1. \A k \in 1 .. Len(got') : sentBefore'[k] <= Len(sent')
      BY <1>1, <1>2, <1>3, <2>1 DEF OracleInv
    <3> QED BY <2>3, <2>6, <2>9, <3>1 DEF OracleInv
<1> QED BY <1>4, <1>5

LEMMA OracleInvStep ==
  ASSUME OracleInv, [OracleNext]_oracleVars
  PROVE  OracleInv'
<1> USE DEF OracleInv, OracleTypeOK, LeftoverIsUnmatched, MismatchIffNotFifo, PopsTakePushesInOrder
<1>1. ASSUME NEW v \in Data, PushLine(v)
      PROVE  OracleInv'
  BY <1>1, OracleInvPush
<1>2. ASSUME NEW v \in Data, PopLine(v)
      PROVE  OracleInv'
  BY <1>2, OracleInvPop
<1>3. CASE BadLine
  BY <1>3 DEF BadLine
<1>4. CASE EndOfTrace
  BY <1>4 DEF EndOfTrace
<1>5. CASE UNCHANGED oracleVars
  BY <1>5 DEF oracleVars
<1> QED BY <1>1, <1>2, <1>3, <1>4, <1>5 DEF OracleNext

(***************************************************************************)
(* The deque of fifo_model.py is the unmatched pushes as long as nothing   *)
(* was counted, and a mismatch is counted exactly when the lines read so   *)
(* far are not the events of a FIFO.                                       *)
(***************************************************************************)
THEOREM OracleKeepsInv == OracleSpec => []OracleInv
<1>1. OracleInit => OracleInv
  BY OracleInvInit
<1>2. OracleInv /\ [OracleNext]_oracleVars => OracleInv'
  BY OracleInvStep
<1> QED BY <1>1, <1>2, PTL DEF OracleSpec

\* fifo_model.py exits 0 exactly on the traces in which every pop takes the
\* oldest waiting push, and no line is invalid.
THEOREM OracleVerdict == OracleSpec => []VerdictIsReference
<1> DEFINE V == exit # "replaying" => (exit = "0" <=> mismatches = 0)
<1>1. OracleInit => V
  BY DEF OracleInit
<1>2. OracleInv /\ V /\ [OracleNext]_oracleVars => V'
  <2> SUFFICES ASSUME OracleInv, V, [OracleNext]_oracleVars PROVE V'
    OBVIOUS
  <2>1. CASE EndOfTrace
    BY <2>1 DEF EndOfTrace
  <2>2. CASE UNCHANGED oracleVars
    BY <2>2 DEF oracleVars
  <2>3. ASSUME exit = "replaying", exit' = exit
        PROVE  V'
    BY <2>3
  <2> QED
    BY <2>1, <2>2, <2>3 DEF OracleNext, PushLine, PopLine, BadLine, Replaying
<1>3. OracleInv /\ V => VerdictIsReference
  BY DEF OracleInv, MismatchIffNotFifo, VerdictIsReference
<1> QED BY <1>1, <1>2, <1>3, OracleKeepsInv, PTL DEF OracleSpec

===============================================================================
