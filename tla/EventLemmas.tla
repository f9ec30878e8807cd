---------------------------- MODULE EventLemmas ----------------------------
(***************************************************************************)
(* What the delivery of a watch event leaves of the sequence of events on  *)
(* their way, and what the arrival of another adds to it.                  *)
(***************************************************************************)
EXTENDS Integers, Sequences, TLAPS

\* What the delivery of the first of the events leaves.
LEMMA FirstDelivered ==
  ASSUME NEW S, NEW s \in Seq(S), s # << >>
  PROVE  /\ Head(s) \in S /\ Tail(s) \in Seq(S)
         /\ Len(s) \in Nat /\ Len(s) > 0
         /\ Len(s) = 1 => Tail(s) = << >> /\ Head(s) = s[Len(s)]
         /\ Len(s) > 1 => Tail(s) # << >> /\ Tail(s)[Len(Tail(s))] = s[Len(s)]
  <1>1. /\ Len(s) \in Nat /\ Len(s) > 0 /\ Head(s) = s[1]
        /\ Tail(s) \in Seq(S) /\ Len(Tail(s)) = Len(s) - 1
        /\ \A i \in 1..Len(s) - 1 : Tail(s)[i] = s[i + 1]
    OBVIOUS
  <1>2. Head(s) \in S /\ (Len(Tail(s)) = 0 => Tail(s) = << >>)
    BY <1>1
  <1>3. Len(s) = 1 => Tail(s) = << >> /\ Head(s) = s[Len(s)]
    BY <1>1, <1>2
  <1>4. Len(s) > 1 => Tail(s) # << >> /\ Tail(s)[Len(Tail(s))] = s[Len(s)]
    <2>1. ASSUME Len(s) > 1
          PROVE  Len(s) - 1 \in 1..Len(s) - 1 /\ (Len(s) - 1) + 1 = Len(s) /\ Len(s) - 1 # 0
      BY <1>1, <2>1
    <2>2. Len(s) > 1 => Tail(s)[Len(s) - 1] = s[Len(s)]
      BY <1>1, <2>1
    <2>3. Len(s) > 1 => Tail(s) # << >>
      BY <1>1, <2>1
    <2> QED
      BY <1>1, <2>2, <2>3
  <1> QED
    BY <1>1, <1>2, <1>3, <1>4

\* The events after the first are the others, one place ahead.
LEMMA RestDelivered ==
  ASSUME NEW S, NEW s \in Seq(S), s # << >>
  PROVE  \A i \in 1..Len(Tail(s)) : i + 1 \in 1..Len(s) /\ Tail(s)[i] = s[i + 1]
  OBVIOUS

\* One more event comes after the others.
LEMMA EventAppended ==
  ASSUME NEW S, NEW s \in Seq(S), NEW e \in S
  PROVE  /\ Append(s, e) \in Seq(S)
         /\ \A i \in 1..Len(Append(s, e)) :
              Append(s, e)[i] = e \/ (i \in 1..Len(s) /\ Append(s, e)[i] = s[i])
         /\ Len(Append(s, e)) = Len(s) + 1 /\ Append(s, e)[Len(s) + 1] = e
         /\ \A i \in 1..Len(s) : i \in 1..Len(Append(s, e)) /\ Append(s, e)[i] = s[i]
  OBVIOUS
=============================================================================
