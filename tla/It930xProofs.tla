---------------------------- MODULE It930xProofs ----------------------------
(***************************************************************************)
(* That no command is taken for done by the reply to another, however many *)
(* numbers there are, as long as the bridge fails fewer times in an open   *)
(* than there are numbers, and no open begins with replies left over; and, *)
(* whatever is left over, as long as no command is taken so: that firmware *)
(* of any number of blocks boots only whole, and that a bridge that was    *)
(* opened is set up in full, with any of its ports in use and any number   *)
(* of GPIOs.                                                               *)
(***************************************************************************)
EXTENDS It930x, SequenceTheorems, TLAPS

\* How many numbers were used since n, if s is the next.
Back(n, s) == (IF n < s THEN s ELSE s + SeqSpace) - 1 - n

Age(m) == Back(m.seq, seq)

\* A number of an older message is further back than that of a newer one.
OlderFirst(q) == \A i, j \in DOMAIN q : i < j => Age(q[j]) < Age(q[i])

Sequence(q) == q \in Seq({q[i] : i \in DOMAIN q})

Numbered(q) ==
  \A i \in DOMAIN q : {"seq", "fresh"} \subseteq DOMAIN q[i] /\ q[i].seq \in 0 .. SeqSpace - 1

\* What is left behind is as old as there were faults; the number of what is
\* waited for is that of nothing else.
Recent(m) ==
  /\ Age(m) <= (IF waiting THEN faults ELSE faults - 1)
  /\ (waiting /\ Age(m) = 0) => m.fresh

\* A driver that is closed has nothing to do.
Idle ==
  /\ waiting => todo # <<>>
  /\ todo = <<>> => result = "ok"
  /\ phase = "closed" => todo = <<>>

Types ==
  /\ seq \in 0 .. SeqSpace - 1 /\ faults \in 0 .. MaxFaults
  /\ waiting \in BOOLEAN /\ foreign \in BOOLEAN
  /\ Sequence(in) /\ Sequence(out) /\ Numbered(in) /\ Numbered(out)

\* Only what is waited for is fresh: the last command, or the reply to it.
Fresh ==
  /\ \A j \in DOMAIN out : out[j].fresh => waiting /\ j = Len(out)
  /\ \A i \in DOMAIN in : in[i].fresh => waiting /\ DOMAIN out = {}

InOrder ==
  /\ OlderFirst(in) /\ OlderFirst(out)
  /\ \A i \in DOMAIN in, j \in DOMAIN out : Age(out[j]) < Age(in[i])

AllRecent ==
  /\ \A i \in DOMAIN in : Recent(in[i])
  /\ \A j \in DOMAIN out : Recent(out[j])

\* While no open began with anything left over.
Ordered == Types /\ InOrder /\ AllRecent /\ ~foreign

IInv ==
  /\ Types /\ Idle
  /\ clean => Ordered
  /\ ~foreign => Fresh

-----------------------------------------------------------------------------
(* Sequences                                                               *)

LEMMA SeqIs ==
  ASSUME NEW q
  PROVE  Sequence(q) => Len(q) \in Nat /\ DOMAIN q = 1 .. Len(q)
BY DEF Sequence

LEMMA AppendIs ==
  ASSUME NEW q, Sequence(q), NEW m
  PROVE  /\ Sequence(Append(q, m)) /\ DOMAIN Append(q, m) = 1 .. Len(q) + 1
         /\ \A i \in 1 .. Len(q) : Append(q, m)[i] = q[i]
         /\ Append(q, m)[Len(q) + 1] = m /\ Len(Append(q, m)) = Len(q) + 1
<1> DEFINE S == {q[i] : i \in DOMAIN q} \cup {m}
           a == Append(q, m)
<1>1. Len(q) \in Nat /\ DOMAIN q = 1 .. Len(q) /\ q = [i \in 1 .. Len(q) |-> q[i]]
  BY DEF Sequence
<1>2. q \in [1 .. Len(q) -> S]
  BY <1>1
<1>3. q \in Seq(S) /\ m \in S
  BY <1>1, <1>2
<1> HIDE DEF S
<1>4. /\ a \in Seq(S) /\ DOMAIN a = 1 .. Len(q) + 1 /\ Len(a) = Len(q) + 1
      /\ \A i \in 1 .. Len(q) : a[i] = q[i]
      /\ a[Len(q) + 1] = m
  BY <1>3
<1> HIDE DEF a
<1>5. a = [i \in 1 .. Len(a) |-> a[i]]
  BY <1>4
<1> DEFINE T == {a[i] : i \in DOMAIN a}
<1>6. a \in [1 .. Len(a) -> T] /\ Len(a) \in Nat
  BY <1>4, <1>5, <1>1
<1> HIDE DEF T
<1>7. a \in Seq(T)
  BY <1>6
<1> QED
  BY <1>4, <1>7 DEF Sequence, a, T

LEMMA TailIs ==
  ASSUME NEW q, Sequence(q), q # <<>>
  PROVE  /\ Sequence(Tail(q)) /\ DOMAIN Tail(q) = 1 .. Len(q) - 1
         /\ \A i \in 1 .. Len(q) - 1 : Tail(q)[i] = q[i + 1]
         /\ Head(q) = q[1] /\ 1 \in DOMAIN q /\ Len(q) \in Nat \ {0}
         /\ DOMAIN q = 1 .. Len(q) /\ Len(Tail(q)) = Len(q) - 1
<1> DEFINE S == {q[i] : i \in DOMAIN q}
           a == Tail(q)
<1>1. q \in Seq(S)
  BY DEF Sequence
<1> HIDE DEF S
<1>2. /\ a \in Seq(S) /\ DOMAIN a = 1 .. Len(q) - 1 /\ Len(a) = Len(q) - 1
      /\ \A i \in 1 .. Len(q) - 1 : a[i] = q[i + 1]
      /\ Head(q) = q[1] /\ Len(q) \in Nat \ {0} /\ DOMAIN q = 1 .. Len(q)
  BY <1>1
<1> HIDE DEF a
<1>3. a = [i \in 1 .. Len(a) |-> a[i]]
  BY <1>2
<1> DEFINE T == {a[i] : i \in DOMAIN a}
<1>4. a \in [1 .. Len(a) -> T] /\ Len(a) \in Nat
  BY <1>2, <1>3
<1> HIDE DEF T
<1>5. a \in Seq(T)
  BY <1>4
<1> QED
  BY <1>2, <1>5 DEF Sequence, a, T

\* What is kept of messages whose command was given up.
Kept(q) == [i \in DOMAIN q |-> [q[i] EXCEPT !.fresh = FALSE]]

LEMMA KeptIs ==
  ASSUME NEW q, Sequence(q), Numbered(q)
  PROVE  /\ Sequence(Kept(q)) /\ Numbered(Kept(q)) /\ DOMAIN Kept(q) = DOMAIN q
         /\ \A i \in DOMAIN q : Kept(q)[i].seq = q[i].seq /\ Kept(q)[i].fresh = FALSE
<1> DEFINE a == Kept(q)
<1>1. DOMAIN q = 1 .. Len(q) /\ Len(q) \in Nat
  BY SeqIs
<1>2. DOMAIN a = DOMAIN q /\ \A i \in DOMAIN q : a[i] = [q[i] EXCEPT !.fresh = FALSE]
  BY DEF Kept
<1>3. \A i \in DOMAIN q : DOMAIN a[i] = DOMAIN q[i] /\ a[i].seq = q[i].seq /\ a[i].fresh = FALSE
  BY <1>2 DEF Numbered
<1>4. Numbered(a)
  BY <1>2, <1>3 DEF Numbered
<1>5. a = [i \in 1 .. Len(q) |-> a[i]]
  BY <1>1 DEF Kept
<1> HIDE DEF a
<1>6. a \in [1 .. Len(q) -> {a[i] : i \in DOMAIN a}]
  BY <1>1, <1>2, <1>5
<1>7. a \in Seq({a[i] : i \in DOMAIN a})
  BY <1>1, <1>6
<1> QED
  BY <1>2, <1>3, <1>4, <1>7 DEF Sequence, a

-----------------------------------------------------------------------------
(* Numbers                                                                 *)

LEMMA SentIs ==
  ASSUME seq \in 0 .. SeqSpace - 1
  PROVE  Sent = (IF seq = 0 THEN SeqSpace - 1 ELSE seq - 1)
<1>1. SeqSpace \in Nat \ {0}
  BY FaultsAssumption
<1>2. CASE seq = 0
  <2>1. (SeqSpace - 1) % SeqSpace = SeqSpace - 1
    BY <1>1
  <2> QED
    BY <1>1, <1>2, <2>1 DEF Sent
<1>3. CASE seq # 0
  <2>1. (SeqSpace + (seq - 1)) % SeqSpace = seq - 1
    BY <1>1, <1>3, SMTT(30)
  <2>2. seq + SeqSpace - 1 = SeqSpace + (seq - 1)
    BY <1>1
  <2> QED
    BY <1>3, <2>1, <2>2 DEF Sent
<1> QED
  BY <1>2, <1>3

\* The number just sent is back none, and only it.
LEMMA SentIsNone ==
  ASSUME seq \in 0 .. SeqSpace - 1, NEW n \in 0 .. SeqSpace - 1
  PROVE  n = Sent <=> Back(n, seq) = 0
BY SentIs, FaultsAssumption DEF Back

LEMMA BackIs ==
  ASSUME NEW n \in 0 .. SeqSpace - 1, NEW s \in 0 .. SeqSpace - 1
  PROVE  Back(n, s) \in 0 .. SeqSpace - 1
BY FaultsAssumption DEF Back

LEMMA AgeIs ==
  ASSUME seq \in 0 .. SeqSpace - 1, NEW q, Numbered(q)
  PROVE  \A i \in DOMAIN q : Age(q[i]) \in Int
<1> TAKE i \in DOMAIN q
<1>1. q[i].seq \in 0 .. SeqSpace - 1
  BY DEF Numbered
<1>2. Back(q[i].seq, seq) \in 0 .. SeqSpace - 1
  BY <1>1, BackIs
<1> QED
  BY <1>2, FaultsAssumption DEF Age

LEMMA NextNumber ==
  ASSUME NEW s \in 0 .. SeqSpace - 1
  PROVE  (s + 1) % SeqSpace = (IF s = SeqSpace - 1 THEN 0 ELSE s + 1)
<1>1. SeqSpace \in Nat \ {0}
  BY FaultsAssumption
<1>2. CASE s = SeqSpace - 1
  <2>1. s + 1 = SeqSpace /\ SeqSpace % SeqSpace = 0
    BY <1>1, <1>2
  <2> QED
    BY <1>2, <2>1
<1>3. CASE s # SeqSpace - 1
  BY <1>1, <1>3
<1> QED
  BY <1>2, <1>3

\* As the next number is used, all others are one further back, unless one
\* would come round.
LEMMA OneFurther ==
  ASSUME NEW n \in 0 .. SeqSpace - 1, NEW s \in 0 .. SeqSpace - 1,
         Back(n, s) < SeqSpace - 1
  PROVE  Back(n, (s + 1) % SeqSpace) = Back(n, s) + 1
BY NextNumber, FaultsAssumption DEF Back

LEMMA JustUsed ==
  ASSUME NEW s \in 0 .. SeqSpace - 1
  PROVE  (s + 1) % SeqSpace \in 0 .. SeqSpace - 1 /\ Back(s, (s + 1) % SeqSpace) = 0
BY NextNumber, FaultsAssumption DEF Back

-----------------------------------------------------------------------------
(* The steps                                                               *)

LEMMA InitHolds == Init => IInv
<1> SUFFICES ASSUME Init PROVE IInv
  OBVIOUS
<1>1. in = <<>> /\ out = <<>> /\ seq = 0 /\ faults = 0 /\ waiting = FALSE /\ foreign = FALSE
  BY DEF Init
<1>2. \A S : <<>> \in Seq(S)
  OBVIOUS
<1>3. Sequence(in) /\ Sequence(out)
  BY <1>1, <1>2 DEF Sequence
<1>4. DOMAIN in = {} /\ DOMAIN out = {}
  BY <1>1
<1>5. Types
  <2>1. Numbered(in) /\ Numbered(out)
    BY <1>4 DEF Numbered
  <2>2. waiting \in BOOLEAN /\ foreign \in BOOLEAN
    BY <1>1
  <2>3. seq \in 0 .. SeqSpace - 1 /\ faults \in 0 .. MaxFaults
    BY <1>1, FaultsAssumption
  <2> QED
    BY <2>1, <2>2, <2>3, <1>3 DEF Types
<1> QED
  <2>1. Ordered
    BY <1>1, <1>4, <1>5 DEF Ordered, InOrder, OlderFirst, AllRecent
  <2>2. Idle /\ Fresh
    BY <1>1, <1>4 DEF Init, Idle, Fresh
  <2> QED
    BY <1>5, <2>1, <2>2 DEF IInv

LEMMA QuietStep ==
  ASSUME Ordered, UNCHANGED <<seq, waiting, in, out, faults, foreign>>
  PROVE  Ordered'
BY DEF Ordered, Types, Sequence, Numbered, InOrder, OlderFirst, AllRecent, Recent, Age

LEMMA FailureIs == Failure => waiting' = FALSE /\ out' = Kept(out)
BY DEF Failure, Kept

\* What is given up on, or was already, gets older than the faults say only
\* with one more fault.
LEMMA LeftBehind ==
  ASSUME Ordered, waiting' = FALSE, out' = Kept(out), in' = in \/ in' = Kept(in),
         foreign' = foreign,
         faults < MaxFaults, faults' = faults + 1,
         \/ seq' = seq
         \/ ~waiting /\ seq' = (seq + 1) % SeqSpace
  PROVE  Ordered'
<1> USE FaultsAssumption DEF Ordered, Types
<1>1. /\ Sequence(out') /\ Numbered(out') /\ DOMAIN out' = DOMAIN out
      /\ \A i \in DOMAIN out : out'[i].seq = out[i].seq
      /\ Sequence(in') /\ Numbered(in') /\ DOMAIN in' = DOMAIN in
      /\ \A i \in DOMAIN in : in'[i].seq = in[i].seq
  BY KeptIs
<1>2. \E d \in 0 .. 1 : \A n \in 0 .. SeqSpace - 1 :
        /\ (d = 1 => ~waiting)
        /\ Back(n, seq) \in 0 .. SeqSpace - 1
        /\ (d = 1 /\ Back(n, seq) < SeqSpace - 1) => Back(n, seq') = Back(n, seq) + 1
        /\ d = 0 => Back(n, seq') = Back(n, seq)
  <2>1. CASE seq' = seq
    <3>1. \A n \in 0 .. SeqSpace - 1 : Back(n, seq) \in 0 .. SeqSpace - 1
      BY BackIs
    <3>2. \A n \in 0 .. SeqSpace - 1 :
            /\ (0 = 1 => ~waiting)
            /\ Back(n, seq) \in 0 .. SeqSpace - 1
            /\ (0 = 1 /\ Back(n, seq) < SeqSpace - 1) => Back(n, seq') = Back(n, seq) + 1
            /\ 0 = 0 => Back(n, seq') = Back(n, seq)
      BY <2>1, <3>1
    <3> QED
      BY <3>2
  <2>2. CASE ~waiting /\ seq' = (seq + 1) % SeqSpace
    <3>1. \A n \in 0 .. SeqSpace - 1 :
            /\ Back(n, seq) \in 0 .. SeqSpace - 1
            /\ Back(n, seq) < SeqSpace - 1 => Back(n, seq') = Back(n, seq) + 1
      BY <2>2, BackIs, OneFurther
    <3> QED
      BY <2>2, <3>1
  <2> QED
    BY <2>1, <2>2
<1>3. PICK d \in 0 .. 1 : \A n \in 0 .. SeqSpace - 1 :
        /\ (d = 1 => ~waiting)
        /\ Back(n, seq) \in 0 .. SeqSpace - 1
        /\ (d = 1 /\ Back(n, seq) < SeqSpace - 1) => Back(n, seq') = Back(n, seq) + 1
        /\ d = 0 => Back(n, seq') = Back(n, seq)
  BY <1>2
<1>4. \A i \in DOMAIN in : in[i].seq \in 0 .. SeqSpace - 1 /\ Back(in[i].seq, seq') = Age(in[i]) + d
                           /\ Age(in[i]) + d <= faults
  <2> TAKE i \in DOMAIN in
  <2>1. in[i].seq \in 0 .. SeqSpace - 1
    BY DEF Numbered
  <2>2. Age(in[i]) <= (IF waiting THEN faults ELSE faults - 1)
    BY DEF AllRecent, Recent
  <2> QED
    BY <1>3, <2>1, <2>2 DEF Age
<1>5. \A i \in DOMAIN out : out[i].seq \in 0 .. SeqSpace - 1 /\ Back(out[i].seq, seq') = Age(out[i]) + d
                            /\ Age(out[i]) + d <= faults
  <2> TAKE i \in DOMAIN out
  <2>1. out[i].seq \in 0 .. SeqSpace - 1
    BY DEF Numbered
  <2>2. Age(out[i]) <= (IF waiting THEN faults ELSE faults - 1)
    BY DEF AllRecent, Recent
  <2> QED
    BY <1>3, <2>1, <2>2 DEF Age
<1>6. /\ \A i \in DOMAIN in : Age(in[i])' = Age(in[i]) + d
      /\ \A i \in DOMAIN out : Age(out[i])' = Age(out[i]) + d
  BY <1>1, <1>4, <1>5 DEF Age
<1>7. Types'
  <2>1. seq' \in 0 .. SeqSpace - 1
    BY JustUsed
  <2>2. Sequence(in)' /\ Numbered(in)' /\ Sequence(out)' /\ Numbered(out)'
    BY <1>1 DEF Sequence, Numbered
  <2>3. waiting' \in BOOLEAN /\ foreign' \in BOOLEAN
    OBVIOUS
  <2> QED
    BY <2>1, <2>2, <2>3
<1>8. \A i \in DOMAIN in : Age(in[i]) \in Int
  BY <1>3, <1>4 DEF Age
<1>9. \A i \in DOMAIN out : Age(out[i]) \in Int
  BY <1>3, <1>5 DEF Age
<1>10. InOrder'
  BY <1>1, <1>3, <1>6, <1>8, <1>9 DEF InOrder, OlderFirst
<1>11. AllRecent'
  BY <1>1, <1>4, <1>5, <1>6 DEF AllRecent, Recent
<1> QED
  BY <1>7, <1>10, <1>11

LEMMA SendStep ==
  ASSUME Ordered, Send
  PROVE  Ordered'
<1> USE FaultsAssumption DEF Ordered, Types
<1> PICK m : /\ out' = Append(out, m) /\ {"seq", "fresh"} \subseteq DOMAIN m
             /\ m.seq = seq /\ m.fresh = TRUE
  BY DEF Send
<1>1. /\ ~waiting /\ waiting' = TRUE /\ seq' = (seq + 1) % SeqSpace
      /\ in' = in /\ faults' = faults /\ foreign' = foreign
  BY DEF Send
<1>2. /\ Sequence(out') /\ DOMAIN out' = 1 .. Len(out) + 1
      /\ \A i \in 1 .. Len(out) : out'[i] = out[i]
      /\ out'[Len(out) + 1] = m
      /\ DOMAIN out = 1 .. Len(out) /\ Len(out) \in Nat
  BY AppendIs, SeqIs
<1>3. seq' \in 0 .. SeqSpace - 1 /\ Age(m)' = 0
  <2>1. Age(m)' = Back(m.seq, seq')
    BY DEF Age
  <2> QED
    BY <2>1, <1>1, JustUsed
<1>4. \A i \in DOMAIN in : Age(in[i])' = Age(in[i]) + 1 /\ Age(in[i]) \in 0 .. faults - 1
  <2> TAKE i \in DOMAIN in
  <2>1. in[i].seq \in 0 .. SeqSpace - 1 /\ Age(in[i]) <= faults - 1
    BY <1>1 DEF Numbered, AllRecent, Recent
  <2>2. Age(in[i]) \in 0 .. SeqSpace - 1
    BY <2>1, BackIs DEF Age
  <2>3. Back(in[i].seq, seq') = Age(in[i]) + 1
    <3>1. Back(in[i].seq, seq) < SeqSpace - 1
      BY <2>1, <2>2 DEF Age
    <3> QED
      BY <3>1, <2>1, <1>1, OneFurther DEF Age
  <2> QED
    BY <2>1, <2>2, <2>3, <1>1 DEF Age
<1>5. \A i \in DOMAIN out : Age(out[i])' = Age(out[i]) + 1 /\ Age(out[i]) \in 0 .. faults - 1
  <2> TAKE i \in DOMAIN out
  <2>1. out[i].seq \in 0 .. SeqSpace - 1 /\ Age(out[i]) <= faults - 1
    BY <1>1 DEF Numbered, AllRecent, Recent
  <2>2. Age(out[i]) \in 0 .. SeqSpace - 1
    BY <2>1, BackIs DEF Age
  <2>3. Back(out[i].seq, seq') = Age(out[i]) + 1
    <3>1. Back(out[i].seq, seq) < SeqSpace - 1
      BY <2>1, <2>2 DEF Age
    <3> QED
      BY <3>1, <2>1, <1>1, OneFurther DEF Age
  <2> QED
    BY <2>1, <2>2, <2>3, <1>1, <1>2 DEF Age
<1>6. Types'
  <2>1. Numbered(in') /\ Numbered(out')
    BY <1>1, <1>2 DEF Numbered
  <2>2. waiting' \in BOOLEAN /\ foreign' \in BOOLEAN
    BY <1>1
  <2>3. Numbered(in)' /\ Numbered(out)' /\ Sequence(in)' /\ Sequence(out)'
    BY <2>1, <1>1, <1>2 DEF Numbered, Sequence
  <2> QED
    BY <2>2, <2>3, <1>1, <1>3
<1>7. InOrder'
  BY <1>1, <1>2, <1>3, <1>4, <1>5 DEF InOrder, OlderFirst
<1>8. AllRecent'
  BY <1>1, <1>2, <1>3, <1>4, <1>5 DEF AllRecent, Recent
<1> QED
  BY <1>1, <1>6, <1>7, <1>8

LEMMA TakeReplyStep ==
  ASSUME Ordered, TakeReply
  PROVE  Ordered'
<1> USE FaultsAssumption DEF Ordered, Types
<1>1. /\ waiting /\ in # <<>> /\ in' = Kept(Tail(in)) /\ seq' = seq /\ faults' = faults
      /\ foreign' = (foreign \/ (Accepted(Head(in)) /\ ~Head(in).fresh))
  BY DEF TakeReply, Kept
<1>2. waiting' = FALSE /\ (out' = out \/ out' = Kept(out))
  BY FailureIs DEF TakeReply, Success
<1>3. /\ Sequence(Tail(in)) /\ DOMAIN Tail(in) = 1 .. Len(in) - 1
      /\ \A i \in 1 .. Len(in) - 1 : Tail(in)[i] = in[i + 1]
      /\ Head(in) = in[1] /\ 1 \in DOMAIN in /\ Len(in) \in Nat \ {0}
      /\ DOMAIN in = 1 .. Len(in)
  BY <1>1, TailIs
<1>4. Numbered(Tail(in))
  BY <1>3 DEF Numbered
<1>5. /\ Sequence(in') /\ Numbered(in') /\ DOMAIN in' = 1 .. Len(in) - 1
      /\ \A i \in 1 .. Len(in) - 1 : in'[i].seq = in[i + 1].seq
  <2>1. /\ Sequence(Kept(Tail(in))) /\ Numbered(Kept(Tail(in)))
        /\ DOMAIN Kept(Tail(in)) = DOMAIN Tail(in)
        /\ \A i \in DOMAIN Tail(in) : Kept(Tail(in))[i].seq = Tail(in)[i].seq
    BY <1>3, <1>4, KeptIs
  <2> QED
    BY <2>1, <1>1, <1>3
<1>6. /\ Sequence(out') /\ Numbered(out') /\ DOMAIN out' = DOMAIN out
      /\ \A i \in DOMAIN out : out'[i].seq = out[i].seq
  BY <1>2, KeptIs
<1>7. /\ \A i \in 1 .. Len(in) - 1 : Age(in[i])' = Age(in[i + 1])
      /\ \A i \in DOMAIN out : Age(out[i])' = Age(out[i])
  BY <1>1, <1>5, <1>6 DEF Age
<1>8. /\ \A i \in DOMAIN in : Age(in[i]) \in Int
      /\ \A i \in DOMAIN out : Age(out[i]) \in Int
      /\ \A i \in 1 .. Len(in) - 1 : i \in Nat /\ i + 1 \in DOMAIN in
  <2>1. /\ \A i \in DOMAIN in : Age(in[i]) \in Int
        /\ \A i \in DOMAIN out : Age(out[i]) \in Int
    BY AgeIs
  <2> QED
    BY <2>1, <1>3
<1>9. Accepted(Head(in)) => Head(in).fresh
  <2>1. Recent(in[1]) /\ in[1].seq \in 0 .. SeqSpace - 1
    BY <1>3 DEF AllRecent, Numbered
  <2>2. Accepted(in[1]) => Age(in[1]) = 0
    BY <2>1, SentIsNone DEF Accepted, Age
  <2> QED
    BY <2>1, <2>2, <1>1, <1>3 DEF Recent
<1>10. ~foreign'
  BY <1>1, <1>9
<1>11. Types'
  <2>1. waiting' \in BOOLEAN /\ foreign' \in BOOLEAN
    BY <1>1, <1>2
  <2>2. Sequence(in)' /\ Numbered(in)' /\ Sequence(out)' /\ Numbered(out)'
    BY <1>5, <1>6 DEF Sequence, Numbered
  <2> QED
    BY <2>1, <2>2, <1>1
<1>12. InOrder'
  <2>1. \A i, j \in DOMAIN in' : i < j => Age(in[j])' < Age(in[i])'
    <3> TAKE i, j \in DOMAIN in'
    <3>1. /\ i \in 1 .. Len(in) - 1 /\ j \in 1 .. Len(in) - 1
          /\ i \in Nat /\ j \in Nat /\ i + 1 \in DOMAIN in /\ j + 1 \in DOMAIN in
      BY <1>5, <1>8
    <3>2. i < j => Age(in[j + 1]) < Age(in[i + 1])
      BY <3>1 DEF InOrder, OlderFirst
    <3>3. Age(in[i])' = Age(in[i + 1]) /\ Age(in[j])' = Age(in[j + 1])
      BY <3>1, <1>7
    <3> QED
      BY <3>2, <3>3
  <2>2. \A i, j \in DOMAIN out' : i < j => Age(out[j])' < Age(out[i])'
    BY <1>6, <1>7 DEF InOrder, OlderFirst
  <2>3. \A i \in DOMAIN in', j \in DOMAIN out' : Age(out[j])' < Age(in[i])'
    BY <1>5, <1>6, <1>7, <1>8 DEF InOrder
  <2> QED
    BY <2>1, <2>2, <2>3 DEF InOrder, OlderFirst
<1>13. AllRecent'
  <2>1. Age(in[1]) <= faults
    BY <1>1, <1>3 DEF AllRecent, Recent
  <2>2. /\ \A i \in 1 .. Len(in) - 1 : Age(in[i + 1]) < Age(in[1])
        /\ \A j \in DOMAIN out : Age(out[j]) < Age(in[1])
    BY <1>3, <1>8 DEF InOrder, OlderFirst
  <2>3. /\ \A i \in DOMAIN in' : Age(in[i])' <= faults - 1
        /\ \A j \in DOMAIN out' : Age(out[j])' <= faults - 1
    <3>1. \A i \in 1 .. Len(in) - 1 : Age(in[i + 1]) \in Int /\ Age(in[i + 1]) <= faults - 1
      <4> TAKE i \in 1 .. Len(in) - 1
      <4>1. Age(in[i + 1]) \in Int /\ Age(in[1]) \in Int
        BY <1>3, <1>8
      <4>2. Age(in[i + 1]) < Age(in[1])
        BY <2>2
      <4> QED
        BY <2>1, <4>1, <4>2
    <3>2. \A j \in DOMAIN out : Age(out[j]) <= faults - 1
      BY <2>1, <2>2, <1>3, <1>8
    <3> QED
      BY <3>1, <3>2, <1>5, <1>6, <1>7
  <2> QED
    BY <2>3, <1>1, <1>2 DEF AllRecent, Recent
<1> QED
  BY <1>10, <1>11, <1>12, <1>13

LEMMA ObeyStep ==
  ASSUME Ordered, Obey
  PROVE  Ordered'
<1> USE FaultsAssumption DEF Ordered, Types
<1>1. /\ out # <<>> /\ out' = Tail(out) /\ waiting' = waiting /\ seq' = seq /\ foreign' = foreign
      /\ faults' \in 0 .. MaxFaults /\ faults <= faults'
  <2>1. /\ out # <<>> /\ out' = Tail(out) /\ waiting' = waiting /\ seq' = seq
        /\ foreign' = foreign
    BY DEF Obey, driver
  <2>2. faults' = faults \/ (faults < MaxFaults /\ faults' = faults + 1)
    BY DEF Obey
  <2> QED
    BY <2>1, <2>2
<1>2. /\ Sequence(out') /\ DOMAIN out' = 1 .. Len(out) - 1
      /\ \A i \in 1 .. Len(out) - 1 : out'[i] = out[i + 1]
      /\ Head(out) = out[1] /\ 1 \in DOMAIN out /\ Len(out) \in Nat \ {0}
      /\ DOMAIN out = 1 .. Len(out)
  BY <1>1, TailIs
<1>3. \/ in' = in
      \/ \E m : /\ in' = Append(in, m) /\ {"seq", "fresh"} \subseteq DOMAIN m
                /\ m.seq = out[1].seq /\ m.fresh = out[1].fresh
  BY <1>2 DEF Obey, Reply
<1>4. /\ \A i \in DOMAIN in : Age(in[i]) \in Int
      /\ \A i \in DOMAIN out : Age(out[i]) \in Int
      /\ DOMAIN in = 1 .. Len(in) /\ Len(in) \in Nat
      /\ \A i \in 1 .. Len(out) - 1 : i \in Nat /\ i + 1 \in DOMAIN out
  <2>1. /\ \A i \in DOMAIN in : Age(in[i]) \in Int
        /\ \A i \in DOMAIN out : Age(out[i]) \in Int
    BY AgeIs
  <2>2. DOMAIN in = 1 .. Len(in) /\ Len(in) \in Nat
    BY SeqIs
  <2> QED
    BY <2>1, <2>2, <1>2
<1>5. /\ Numbered(out') /\ \A i \in 1 .. Len(out) - 1 : Age(out[i])' = Age(out[i + 1])
  BY <1>1, <1>2 DEF Numbered, Age
<1>6. /\ Sequence(in') /\ Numbered(in') /\ Len(in) \in Nat
      /\ DOMAIN in' = 1 .. Len(in) \/ DOMAIN in' = 1 .. Len(in) + 1
      /\ \A i \in DOMAIN in' :
           /\ Age(in[i])' = (IF i = Len(in) + 1 THEN Age(out[1]) ELSE Age(in[i]))
           /\ in'[i].fresh = (IF i = Len(in) + 1 THEN out[1].fresh ELSE in[i].fresh)
  <2>1. CASE in' = in
    <3>1. Sequence(in') /\ Numbered(in') /\ DOMAIN in' = 1 .. Len(in)
      BY <2>1, <1>4
    <3>2. \A i \in DOMAIN in' : i # Len(in) + 1 /\ Age(in[i])' = Age(in[i])
                                /\ in'[i].fresh = in[i].fresh
      <4> TAKE i \in DOMAIN in'
      <4>1. i \in 1 .. Len(in) /\ Len(in) \in Nat
        BY <3>1, <1>4
      <4>2. i # Len(in) + 1
        BY <4>1
      <4>3. in'[i] = in[i] /\ seq' = seq
        BY <2>1, <1>1
      <4> QED
        BY <4>2, <4>3 DEF Age
    <3> QED
      BY <3>1, <3>2, <1>4
  <2>2. CASE \E m : /\ in' = Append(in, m) /\ {"seq", "fresh"} \subseteq DOMAIN m
                    /\ m.seq = out[1].seq /\ m.fresh = out[1].fresh
    <3> PICK m : /\ in' = Append(in, m) /\ {"seq", "fresh"} \subseteq DOMAIN m
                 /\ m.seq = out[1].seq /\ m.fresh = out[1].fresh
      BY <2>2
    <3>1. /\ Sequence(in') /\ DOMAIN in' = 1 .. Len(in) + 1
          /\ \A i \in 1 .. Len(in) : in'[i] = in[i]
          /\ in'[Len(in) + 1] = m
      BY AppendIs
    <3>2. out[1].seq \in 0 .. SeqSpace - 1
      BY <1>2 DEF Numbered
    <3>3. Numbered(in')
      BY <3>1, <3>2, <1>4 DEF Numbered
    <3>4. \A i \in DOMAIN in' :
            /\ Age(in[i])' = (IF i = Len(in) + 1 THEN Age(out[1]) ELSE Age(in[i]))
            /\ in'[i].fresh = (IF i = Len(in) + 1 THEN out[1].fresh ELSE in[i].fresh)
      <4>1. \A i \in DOMAIN in' : i = Len(in) + 1 \/ (i # Len(in) + 1 /\ i \in 1 .. Len(in))
        BY <3>1, <1>4
      <4> TAKE i \in DOMAIN in'
      <4>2. seq' = seq
        BY <1>1
      <4>3. CASE i = Len(in) + 1
        <5>1. in'[i].seq = out[1].seq /\ in'[i].fresh = out[1].fresh
          BY <4>3, <3>1
        <5> QED
          BY <5>1, <4>2, <4>3 DEF Age
      <4>4. CASE i # Len(in) + 1 /\ i \in 1 .. Len(in)
        <5>1. in'[i] = in[i]
          BY <4>4, <3>1
        <5> QED
          BY <5>1, <4>2, <4>4 DEF Age
      <4> QED
        BY <4>1, <4>3, <4>4
    <3> QED
      BY <3>1, <3>3, <3>4, <1>4
  <2> QED
    BY <2>1, <2>2, <1>3
<1>7. Types'
  <2>1. Sequence(in)' /\ Numbered(in)' /\ Sequence(out)' /\ Numbered(out)'
    BY <1>2, <1>5, <1>6 DEF Sequence, Numbered
  <2>2. waiting' \in BOOLEAN /\ foreign' \in BOOLEAN
    BY <1>1
  <2> QED
    BY <2>1, <2>2, <1>1
<1>8. InOrder'
  <2>1. \A i \in DOMAIN in' : i = Len(in) + 1 \/ (i # Len(in) + 1 /\ i \in DOMAIN in)
    BY <1>4, <1>6
  <2>2. \A i \in DOMAIN in : i \in Nat /\ i <= Len(in) /\ Age(out[1]) < Age(in[i])
    BY <1>2, <1>4 DEF InOrder
  <2>3. \A i, j \in DOMAIN in' : i < j => Age(in[j])' < Age(in[i])'
    <3> TAKE i, j \in DOMAIN in'
    <3> HAVE i < j
    <3>1. /\ i \in DOMAIN in => i <= Len(in) /\ i # Len(in) + 1 /\ Age(in[i])' = Age(in[i])
          /\ j \in DOMAIN in => j <= Len(in) /\ j # Len(in) + 1 /\ Age(in[j])' = Age(in[j])
      BY <2>2, <1>4, <1>6
    <3>2. i \in DOMAIN in
      <4>1. CASE j = Len(in) + 1
        BY <4>1, <2>1, <1>4
      <4>2. CASE j \in DOMAIN in
        <5>1. j <= Len(in) /\ j \in Nat /\ Len(in) \in Nat
          BY <4>2, <2>2, <1>4
        <5>2. i # Len(in) + 1
          BY <5>1
        <5> QED
          BY <5>2, <2>1
      <4> QED
        BY <4>1, <4>2, <2>1
    <3>3. CASE j \in DOMAIN in
      <4>1. Age(in[j]) < Age(in[i])
        BY <3>2, <3>3 DEF InOrder, OlderFirst
      <4> QED
        BY <4>1, <3>1, <3>2, <3>3
    <3>4. CASE j = Len(in) + 1
      <4>1. Age(in[j])' = Age(out[1])
        BY <3>4, <1>6
      <4>2. Age(out[1]) < Age(in[i])
        BY <3>2, <2>2
      <4> QED
        BY <4>1, <4>2, <3>1, <3>2
    <3> QED
      BY <3>3, <3>4, <2>1
  <2>4. \A i, j \in DOMAIN out' : i < j => Age(out[j])' < Age(out[i])'
    <3> TAKE i, j \in DOMAIN out'
    <3>1. /\ i \in 1 .. Len(out) - 1 /\ j \in 1 .. Len(out) - 1
          /\ i \in Nat /\ j \in Nat /\ i + 1 \in DOMAIN out /\ j + 1 \in DOMAIN out
      BY <1>2, <1>4
    <3>2. i < j => Age(out[j + 1]) < Age(out[i + 1])
      BY <3>1 DEF InOrder, OlderFirst
    <3>3. Age(out[i])' = Age(out[i + 1]) /\ Age(out[j])' = Age(out[j + 1])
      BY <3>1, <1>5
    <3> QED
      BY <3>2, <3>3
  <2>5. \A j \in DOMAIN out' : Age(out[j])' < Age(out[1])
    <3> TAKE j \in DOMAIN out'
    <3>1. j \in 1 .. Len(out) - 1 /\ j \in Nat \ {0} /\ j + 1 \in DOMAIN out
      BY <1>2, <1>4
    <3>2. Age(out[j + 1]) < Age(out[1])
      BY <3>1, <1>2 DEF InOrder, OlderFirst
    <3>3. Age(out[j])' = Age(out[j + 1])
      BY <3>1, <1>5
    <3> QED
      BY <3>2, <3>3
  <2>6. \A i \in DOMAIN in', j \in DOMAIN out' : Age(out[j])' < Age(in[i])'
    <3> TAKE i \in DOMAIN in', j \in DOMAIN out'
    <3>1. Age(out[j])' < Age(out[1]) /\ Age(out[1]) \in Int
      BY <2>5, <1>2, <1>4
    <3>2. Age(out[j])' \in Int
      <4>1. j \in 1 .. Len(out) - 1 /\ j + 1 \in DOMAIN out
        BY <1>2, <1>4
      <4> QED
        BY <4>1, <1>4, <1>5
    <3>3. CASE i = Len(in) + 1
      BY <3>1, <3>3, <1>6
    <3>4. CASE i # Len(in) + 1 /\ i \in DOMAIN in
      <4>1. Age(in[i])' = Age(in[i]) /\ Age(in[i]) \in Int /\ Age(out[1]) < Age(in[i])
        BY <3>4, <2>2, <1>4, <1>6
      <4> QED
        BY <4>1, <3>1, <3>2
    <3> QED
      BY <3>3, <3>4, <2>1
  <2> QED
    BY <2>3, <2>4, <2>6 DEF InOrder, OlderFirst
<1>9. AllRecent'
  <2>1. \A i \in DOMAIN in' : i = Len(in) + 1 \/ (i # Len(in) + 1 /\ i \in DOMAIN in)
    BY <1>4, <1>6
  <2>2. \A i \in DOMAIN in' : Recent(in[i])'
    <3> TAKE i \in DOMAIN in'
    <3>1. CASE i = Len(in) + 1
      <4>1. Age(in[i])' = Age(out[1]) /\ in'[i].fresh = out[1].fresh
        BY <3>1, <1>6
      <4>2. Recent(out[1]) /\ Age(out[1]) \in Int
        BY <1>2, <1>4 DEF AllRecent
      <4> QED
        BY <4>1, <4>2, <1>1 DEF Recent
    <3>2. CASE i # Len(in) + 1 /\ i \in DOMAIN in
      <4>1. Age(in[i])' = Age(in[i]) /\ in'[i].fresh = in[i].fresh
        BY <3>2, <1>6
      <4>2. Recent(in[i]) /\ Age(in[i]) \in Int
        BY <3>2, <1>4 DEF AllRecent
      <4> QED
        BY <4>1, <4>2, <1>1 DEF Recent
    <3> QED
      BY <3>1, <3>2, <2>1
  <2>3. \A i \in DOMAIN out' : Recent(out[i])'
    <3> TAKE i \in DOMAIN out'
    <3>1. i \in 1 .. Len(out) - 1 /\ i + 1 \in DOMAIN out
      BY <1>2, <1>4
    <3>2. Age(out[i])' = Age(out[i + 1]) /\ out'[i].fresh = out[i + 1].fresh
      BY <3>1, <1>2, <1>5
    <3>3. Recent(out[i + 1]) /\ Age(out[i + 1]) \in Int
      BY <3>1, <1>4 DEF AllRecent
    <3> QED
      BY <3>2, <3>3, <1>1 DEF Recent
  <2> QED
    BY <2>2, <2>3 DEF AllRecent
<1> QED
  BY <1>1, <1>7, <1>8, <1>9

LEMMA OpenStep ==
  ASSUME Ordered, Open, clean'
  PROVE  Ordered'
<1> USE FaultsAssumption DEF Ordered, Types
<1>1. /\ in' = <<>> /\ out' = <<>> /\ seq' = 0 /\ faults' = 0 /\ waiting' = waiting
      /\ foreign' = foreign
  BY DEF Open
<1>2. \A S : <<>> \in Seq(S)
  OBVIOUS
<1>3. Sequence(in') /\ Sequence(out')
  BY <1>1, <1>2 DEF Sequence
<1>4. DOMAIN in' = {} /\ DOMAIN out' = {}
  BY <1>1
<1>5. Types'
  <2>1. Numbered(in)' /\ Numbered(out)' /\ Sequence(in)' /\ Sequence(out)'
    BY <1>3, <1>4 DEF Numbered, Sequence
  <2>2. waiting' \in BOOLEAN /\ foreign' \in BOOLEAN
    BY <1>1
  <2> QED
    BY <2>1, <2>2, <1>1
<1> QED
  BY <1>1, <1>4, <1>5 DEF InOrder, OlderFirst, AllRecent

-----------------------------------------------------------------------------
(* What is left of a sequence                                              *)

LEMMA EmptyIs == Sequence(<<>>) /\ Len(<<>>) = 0 /\ DOMAIN <<>> = {}
<1>1. \A S : <<>> \in Seq(S)
  OBVIOUS
<1> QED
  BY <1>1 DEF Sequence

LEMMA OneIs ==
  ASSUME NEW x
  PROVE  Sequence(<<x>>) /\ Len(<<x>>) = 1 /\ DOMAIN <<x>> = 1 .. 1 /\ <<x>>[1] = x
<1>1. DOMAIN <<x>> = 1 .. 1 /\ <<x>>[1] = x /\ Len(<<x>>) = 1
  OBVIOUS
<1>2. \A S : x \in S => <<x>> \in Seq(S)
  OBVIOUS
<1> QED
  BY <1>1, <1>2 DEF Sequence

\* A sequence over any set is one over the set of what it has.
LEMMA OverIts ==
  ASSUME NEW S, NEW q \in Seq(S)
  PROVE  Sequence(q)
<1>1. Len(q) \in Nat /\ DOMAIN q = 1 .. Len(q) /\ q = [i \in 1 .. Len(q) |-> q[i]]
  OBVIOUS
<1> DEFINE T == {q[i] : i \in DOMAIN q}
<1>2. q \in [1 .. Len(q) -> T]
  BY <1>1
<1> HIDE DEF T
<1>3. q \in Seq(T)
  BY <1>1, <1>2
<1> QED
  BY <1>3 DEF Sequence, T

LEMMA ConcatIs ==
  ASSUME NEW p, NEW q, Sequence(p), Sequence(q)
  PROVE  /\ Sequence(p \o q) /\ Len(p) \in Nat /\ Len(q) \in Nat
         /\ Len(p \o q) = Len(p) + Len(q) /\ DOMAIN (p \o q) = 1 .. Len(p) + Len(q)
         /\ \A i \in 1 .. Len(p) : (p \o q)[i] = p[i]
         /\ \A i \in 1 .. Len(p) + Len(q) : i > Len(p) => (p \o q)[i] = q[i - Len(p)]
<1> DEFINE S == {p[i] : i \in DOMAIN p} \cup {q[i] : i \in DOMAIN q}
<1>1. p \in Seq(S) /\ q \in Seq(S)
  <2>1. p \in Seq({p[i] : i \in DOMAIN p}) /\ q \in Seq({q[i] : i \in DOMAIN q})
    BY DEF Sequence
  <2>2. {p[i] : i \in DOMAIN p} \subseteq S /\ {q[i] : i \in DOMAIN q} \subseteq S
    OBVIOUS
  <2> HIDE DEF S
  <2> QED
    BY <2>1, <2>2, SeqMonotonic
<1> HIDE DEF S
<1>2. /\ p \o q \in Seq(S) /\ Len(p \o q) = Len(p) + Len(q)
      /\ \A i \in 1 .. Len(p) + Len(q) :
           (p \o q)[i] = IF i <= Len(p) THEN p[i] ELSE q[i - Len(p)]
  BY <1>1, ConcatProperties
<1>3. Len(p) \in Nat /\ Len(q) \in Nat
  BY <1>1
<1>4. DOMAIN (p \o q) = 1 .. Len(p) + Len(q)
  BY <1>2, LenProperties
<1>5. Sequence(p \o q)
  BY <1>2, OverIts
<1>6. \A i \in 1 .. Len(p) : (p \o q)[i] = p[i]
  BY <1>2, <1>3
<1>7. \A i \in 1 .. Len(p) + Len(q) : i > Len(p) => (p \o q)[i] = q[i - Len(p)]
  BY <1>2, <1>3
<1> QED
  BY <1>2, <1>3, <1>4, <1>5, <1>6, <1>7

\* What is left of a sequence from its n-th, and what is left of that.
LEMMA RestIs ==
  ASSUME NEW q, Sequence(q), NEW n \in 1 .. Len(q) + 1
  PROVE  /\ Sequence(SubSeq(q, n, Len(q))) /\ Len(q) \in Nat
         /\ Len(SubSeq(q, n, Len(q))) = Len(q) + 1 - n
         /\ DOMAIN SubSeq(q, n, Len(q)) = 1 .. Len(q) + 1 - n
         /\ \A i \in 1 .. Len(q) + 1 - n : SubSeq(q, n, Len(q))[i] = q[n + i - 1]
         /\ SubSeq(q, n, Len(q)) = <<>> <=> n = Len(q) + 1
<1> DEFINE S == {q[i] : i \in DOMAIN q}
           r == SubSeq(q, n, Len(q))
<1>1. q \in Seq(S) /\ Len(q) \in Nat /\ DOMAIN q = 1 .. Len(q) /\ \A i \in 1 .. Len(q) : q[i] \in S
  BY DEF Sequence
<1> HIDE DEF S
<1>2. n \in Int /\ Len(q) \in Int /\ \A i \in n .. Len(q) : q[i] \in S
  BY <1>1
<1>3. /\ r \in Seq(S) /\ Len(r) = (IF n <= Len(q) THEN Len(q) - n + 1 ELSE 0)
      /\ \A i \in 1 .. Len(q) - n + 1 : r[i] = q[n + i - 1]
  BY <1>2, SubSeqProperties
<1> HIDE DEF r
<1>4. Len(r) = Len(q) + 1 - n /\ DOMAIN r = 1 .. Len(q) + 1 - n
  BY <1>1, <1>3
<1>5. r = <<>> <=> n = Len(q) + 1
  BY <1>1, <1>3, <1>4
<1>6. Sequence(r)
  BY <1>3, OverIts
<1>7. \A i \in 1 .. Len(q) + 1 - n : r[i] = q[n + i - 1]
  BY <1>1, <1>3
<1> QED
  BY <1>1, <1>4, <1>5, <1>6, <1>7 DEF r

LEMMA TailIsRest ==
  ASSUME NEW q, Sequence(q), q # <<>>
  PROVE  Tail(q) = SubSeq(q, 2, Len(q)) /\ Len(q) \in Nat \ {0}
BY TailIsSubSeq, TailIs DEF Sequence

LEMMA SameSequence ==
  ASSUME NEW p, NEW q, Sequence(p), Sequence(q), Len(p) = Len(q),
         \A i \in 1 .. Len(p) : p[i] = q[i]
  PROVE  p = q
<1>1. /\ DOMAIN p = 1 .. Len(p) /\ p = [i \in 1 .. Len(p) |-> p[i]]
      /\ DOMAIN q = 1 .. Len(q) /\ q = [i \in 1 .. Len(q) |-> q[i]]
  BY DEF Sequence
<1> QED
  BY <1>1

LEMMA RestOfRest ==
  ASSUME NEW q, Sequence(q), NEW n \in 1 .. Len(q) + 1, NEW m \in 1 .. Len(q) + 2 - n
  PROVE  LET r == SubSeq(q, n, Len(q)) IN SubSeq(r, m, Len(r)) = SubSeq(q, n + m - 1, Len(q))
<1> DEFINE r == SubSeq(q, n, Len(q))
           a == SubSeq(r, m, Len(r))
           b == SubSeq(q, n + m - 1, Len(q))
<1>1. /\ Sequence(r) /\ Len(q) \in Nat /\ Len(r) = Len(q) + 1 - n
      /\ \A i \in 1 .. Len(q) + 1 - n : r[i] = q[n + i - 1]
  BY RestIs
<1> HIDE DEF r
<1>2. m \in 1 .. Len(r) + 1 /\ n + m - 1 \in 1 .. Len(q) + 1
  BY <1>1
<1>3. /\ Sequence(a) /\ Len(a) = Len(r) + 1 - m
      /\ \A i \in 1 .. Len(r) + 1 - m : a[i] = r[m + i - 1]
  <2>1. Sequence(r) /\ m \in 1 .. Len(r) + 1
    BY <1>1, <1>2
  <2>2. /\ Sequence(SubSeq(r, m, Len(r))) /\ Len(SubSeq(r, m, Len(r))) = Len(r) + 1 - m
        /\ \A i \in 1 .. Len(r) + 1 - m : SubSeq(r, m, Len(r))[i] = r[m + i - 1]
    BY <2>1, RestIs
  <2> QED
    BY <2>2
<1>4. /\ Sequence(b) /\ Len(b) = Len(q) + 1 - (n + m - 1)
      /\ \A i \in 1 .. Len(q) + 1 - (n + m - 1) : b[i] = q[(n + m - 1) + i - 1]
  <2> DEFINE k == n + m - 1
  <2>1. k \in 1 .. Len(q) + 1
    BY <1>2
  <2> HIDE DEF k
  <2>2. /\ Sequence(SubSeq(q, k, Len(q))) /\ Len(SubSeq(q, k, Len(q))) = Len(q) + 1 - k
        /\ \A i \in 1 .. Len(q) + 1 - k : SubSeq(q, k, Len(q))[i] = q[k + i - 1]
    BY <2>1, RestIs
  <2> QED
    BY <2>2 DEF k
<1> HIDE DEF a, b
<1>5. Len(a) = Len(b)
  <2>1. Len(a) = Len(r) + 1 - m /\ Len(r) = Len(q) + 1 - n /\ Len(q) \in Nat
    BY <1>1, <1>3
  <2>2. Len(b) = Len(q) + 1 - (n + m - 1)
    BY <1>4
  <2> QED
    BY <2>1, <2>2
<1>6. \A i \in 1 .. Len(a) : a[i] = b[i]
  <2> TAKE i \in 1 .. Len(a)
  <2>1. i \in 1 .. Len(r) + 1 - m /\ m + i - 1 \in 1 .. Len(q) + 1 - n
        /\ i \in 1 .. Len(q) + 1 - (n + m - 1)
    BY <1>1, <1>3
  <2>2. a[i] = r[m + i - 1] /\ r[m + i - 1] = q[n + (m + i - 1) - 1]
        /\ b[i] = q[(n + m - 1) + i - 1]
    BY <2>1, <1>1, <1>3, <1>4
  <2>3. n + (m + i - 1) - 1 = (n + m - 1) + i - 1
    BY <1>1, <2>1
  <2> QED
    BY <2>2, <2>3
<1> QED
  BY <1>3, <1>4, <1>5, <1>6, SameSequence DEF a, b, r

-----------------------------------------------------------------------------
(* What boots                                                              *)

\* What is left to do, from the n-th command of open_bridge.
From(n) == SubSeq(OpenBridge, n, Len(OpenBridge))

\* The commands from the first block of the firmware to the one that boots it.
Loading == 9 .. 9 + Blocks

Outcomes == {"fail", "load", "retry", "bracket", "close", "ignore"}

\* No command of loading the firmware.
Harmless(q) ==
  /\ Sequence(q)
  /\ \A i \in DOMAIN q : q[i].cmd \notin {"scatter", "boot"} /\ q[i].or \in Outcomes

\* Each write of a masked register comes right after the read of it.
Paired(q) ==
  \A i \in DOMAIN q :
    /\ q[i].cmd = "read" => i + 1 \in DOMAIN q /\ q[i + 1].cmd = "merge"
    /\ i > 1 /\ q[i].cmd = "merge" => q[i - 1].cmd = "read" /\ q[i - 1].or = q[i].or

\* The blocks before the n-th command are in the bridge.
BlocksBefore(n) == n \in Loading => \A b \in 1 .. n - 9 : b \in blocks

Opening == \E n \in DOMAIN OpenBridge : todo = From(n) /\ BlocksBefore(n)

\* What is left to do, by the phase.
Progress ==
  /\ phase \in {"closed", "opening", "ready"}
  /\ phase = "opening" => Opening
  /\ phase = "ready" => Harmless(todo)
  /\ phase = "closed" => todo = <<>> /\ ~waiting
  /\ waiting => todo # <<>> /\ todo[1].cmd # "drain"

\* A command on its way to the bridge, given up or not.
Sane(m) ==
  /\ {"cmd", "value"} \subseteq DOMAIN m
  /\ m.cmd = "scatter" => m.value \in 1 .. Blocks
  /\ m.cmd = "boot" => \A b \in 1 .. Blocks : b \in blocks

\* Only what is waited for is fresh; it is the command at the head, and its reply,
\* unless of a failure, comes once it was done.
Current(m) == m.fresh => waiting /\ Age(m) = 0

LoadInv ==
  /\ Progress
  /\ \A b \in blocks : b \in 1 .. Blocks
  /\ \A j \in DOMAIN out :
       /\ Sane(out[j]) /\ Current(out[j])
       /\ out[j].fresh /\ todo[1].cmd = "scatter" =>
            out[j].cmd = "scatter" /\ out[j].value = todo[1].value
  /\ \A i \in DOMAIN in :
       /\ Current(in[i])
       /\ in[i].fresh /\ in[i].ok /\ todo[1].cmd = "scatter" => todo[1].value \in blocks
  /\ fw = "running" => whole

-----------------------------------------------------------------------------
(* The commands of open_bridge                                             *)

\* What comes once the firmware runs.
Calm(q) ==
  /\ Sequence(q)
  /\ \A i \in DOMAIN q : /\ q[i].cmd \in {"read", "merge", "write"}
                         /\ q[i].or \in {"fail", "bracket", "close"}

LEMMA CalmCmd ==
  ASSUME NEW cmd \in {"read", "merge", "write"}, NEW reg, NEW value,
         NEW or \in {"fail", "bracket", "close"}
  PROVE  Calm(Cmd(cmd, reg, value, or))
BY OneIs DEF Calm, Cmd

LEMMA CalmBoth ==
  ASSUME NEW p, NEW q, Calm(p), Calm(q)
  PROVE  Calm(p \o q)
<1>1. /\ Sequence(p \o q) /\ Len(p) \in Nat /\ Len(q) \in Nat
      /\ DOMAIN (p \o q) = 1 .. Len(p) + Len(q)
      /\ \A i \in 1 .. Len(p) : (p \o q)[i] = p[i]
      /\ \A i \in 1 .. Len(p) + Len(q) : i > Len(p) => (p \o q)[i] = q[i - Len(p)]
  BY ConcatIs DEF Calm
<1>2. DOMAIN p = 1 .. Len(p) /\ DOMAIN q = 1 .. Len(q)
  BY SeqIs DEF Calm
<1>3. \A i \in DOMAIN (p \o q) : \/ i \in DOMAIN p /\ (p \o q)[i] = p[i]
                                 \/ i - Len(p) \in DOMAIN q /\ (p \o q)[i] = q[i - Len(p)]
  BY <1>1, <1>2
<1> QED
  BY <1>1, <1>3 DEF Calm

LEMMA CalmMasked ==
  ASSUME NEW r, NEW bit, NEW or \in {"fail", "bracket", "close"}
  PROVE  Calm(Masked(r, bit, or))
BY CalmCmd, CalmBoth DEF Masked

LEMMA CalmWrites ==
  ASSUME NEW s, Sequence(s)
  PROVE  Calm(WriteAll(s))
<1> DEFINE w == WriteAll(s)
           C == {w[i] : i \in DOMAIN s}
<1>1. DOMAIN s = 1 .. Len(s) /\ Len(s) \in Nat
  BY SeqIs
<1>2. /\ w = [i \in 1 .. Len(s) |-> w[i]]
      /\ \A i \in 1 .. Len(s) : w[i].cmd = "write" /\ w[i].or = "fail"
  BY <1>1 DEF WriteAll, W, Cmd
<1> HIDE DEF w
<1>3. w \in [1 .. Len(s) -> C]
  BY <1>1, <1>2
<1> HIDE DEF C
<1>4. w \in Seq(C) /\ DOMAIN w = 1 .. Len(s)
  BY <1>1, <1>3
<1>5. Sequence(w)
  BY <1>4, OverIts
<1> QED
  BY <1>2, <1>4, <1>5 DEF Calm, w

LEMMA Lists ==
  /\ Sequence(Plain1) /\ Sequence(Plain2) /\ Sequence(I2cSpeed)
  /\ \A p : Sequence(Slave(p))
  /\ \A a : Sequence(<<a>>)
  /\ \A a, b, c : Sequence(<<a, b, c>>)
<1>1. \A a, b : Sequence(<<a, b>>)
  <2> TAKE a, b
  <2>1. <<a, b>> \in Seq({a, b})
    OBVIOUS
  <2> QED
    BY <2>1, OverIts
<1>2. \A a, b, c : Sequence(<<a, b, c>>)
  <2> TAKE a, b, c
  <2>1. <<a, b, c>> \in Seq({a, b, c})
    OBVIOUS
  <2> QED
    BY <2>1, OverIts
<1>3. \A a, b, c, d : Sequence(<<a, b, c, d>>)
  <2> TAKE a, b, c, d
  <2>1. <<a, b, c, d>> \in Seq({a, b, c, d})
    OBVIOUS
  <2> QED
    BY <2>1, OverIts
<1>4. \A a, b, c, d, e : Sequence(<<a, b, c, d, e>>)
  <2> TAKE a, b, c, d, e
  <2>1. <<a, b, c, d, e>> \in Seq({a, b, c, d, e})
    OBVIOUS
  <2> QED
    BY <2>1, OverIts
<1>5. Sequence(Plain1)
  BY <1>4 DEF Plain1
<1>6. Sequence(Plain2)
  BY <1>3 DEF Plain2
<1>7. Sequence(I2cSpeed)
  BY <1>1 DEF I2cSpeed
<1>8. \A p : Sequence(Slave(p))
  <2> TAKE p
  <2>1. CASE p \in InUse
    BY <2>1, <1>1 DEF Slave
  <2>2. CASE p \notin InUse
    BY <2>2, EmptyIs DEF Slave
  <2> QED
    BY <2>1, <2>2
<1> QED
  BY <1>2, <1>5, <1>6, <1>7, <1>8, OneIs

LEMMA CalmInput ==
  ASSUME NEW p
  PROVE  Calm(StreamInput(p))
<1>1. CASE p \notin InUse
  BY <1>1, CalmCmd DEF StreamInput, W
<1>2. CASE p \in InUse
  <2> DEFINE a == IF p < 2 THEN << <<Port("da58", p), 0>> >> ELSE <<>>
             b == << <<Port("da73", p), 1>>, <<Port("da78", p), Inputs[p]>>, <<Port("da4c", p), 1>> >>
  <2>1. Sequence(a)
    <3>1. CASE p < 2
      BY <3>1, Lists
    <3>2. CASE ~(p < 2)
      BY <3>2, EmptyIs
    <3> QED
      BY <3>1, <3>2
  <2>2. Sequence(b)
    BY Lists
  <2>3. StreamInput(p) = WriteAll(a \o b)
    BY <1>2 DEF StreamInput
  <2> HIDE DEF a, b
  <2>4. Sequence(a \o b)
    BY <2>1, <2>2, ConcatIs
  <2> QED
    BY <2>3, <2>4, CalmWrites
<1> QED
  BY <1>1, <1>2

LEMMA CalmInit == Calm(InitWarm)
<1>1. Calm(StreamOutput)
  <2>1. /\ Calm(Cmd("write", Reg("dd88"), 38352, "bracket"))
        /\ Calm(Cmd("write", Reg("dd0c"), 128, "bracket"))
        /\ Calm(Cmd("write", Reg("d920"), 0, "close"))
    BY CalmCmd
  <2>2. \A r : /\ Calm(Masked(r, 1, "fail"))
               /\ Calm(Masked(r, 0, "bracket")) /\ Calm(Masked(r, 1, "bracket"))
               /\ Calm(Masked(r, 0, "close"))
    BY CalmMasked
  <2> QED
    BY <2>1, <2>2, CalmBoth DEF StreamOutput
<1>2. Sequence(Slaves)
  BY Lists, ConcatIs DEF Slaves
<1>3. Sequence(I2cSpeed \o Slaves)
  BY <1>2, Lists, ConcatIs
<1>4. Calm(WriteAll(Plain1)) /\ Calm(WriteAll(Plain2)) /\ Calm(WriteAll(I2cSpeed \o Slaves))
  BY <1>3, Lists, CalmWrites
<1>5. Calm(Masked("f41f", 1, "fail")) /\ Calm(Masked("da10", 0, "fail")) /\ Calm(Masked("f41a", 1, "fail"))
  BY CalmMasked
<1> QED
  BY <1>1, <1>4, <1>5, CalmInput, CalmBoth DEF InitWarm

\* What a command is by its place among those of open_bridge: five to raise the
\* bridge, its EEPROM, its firmware's version, those that load the firmware, and
\* what is calm.
Placed(i, c) ==
  /\ i <= 5 => c.cmd = "raise"
  /\ i <= 4 => c.or = "retry"
  /\ i \in {5, 6, 7} => c.or = "fail"
  /\ i = 6 => c.cmd = "eeprom"
  /\ i = 7 => c.cmd = "query"
  /\ i = 8 => c.cmd = "write"
  /\ i \in 8 .. 10 + Blocks => c.or = "load"
  /\ i \in 9 .. 8 + Blocks => c.cmd = "scatter" /\ c.value = i - 8
  /\ i = 9 + Blocks => c.cmd = "boot"
  /\ i = 10 + Blocks => c.cmd = "booted"
  /\ i > 10 + Blocks => /\ c.cmd \in {"read", "merge", "write"}
                        /\ c.or \in {"fail", "bracket", "close"}

\* r is p, then q.
Joined(r, p, q) ==
  /\ Sequence(r) /\ Len(r) = Len(p) + Len(q) /\ DOMAIN r = 1 .. Len(p) + Len(q)
  /\ \A i \in 1 .. Len(p) : r[i] = p[i]
  /\ \A i \in 1 .. Len(p) + Len(q) : i > Len(p) => r[i] = q[i - Len(p)]

LEMMA JoinedIs ==
  ASSUME NEW p, NEW q, Sequence(p), Sequence(q)
  PROVE  Joined(p \o q, p, q)
BY ConcatIs DEF Joined

LEMMA CommandLists ==
  /\ Sequence(Raise) /\ Len(Raise) = 5
  /\ \A i \in 1 .. 5 : Raise[i].cmd = "raise" /\ Raise[i].or = (IF i = 5 THEN "fail" ELSE "retry")
  /\ Sequence(Scatter) /\ Len(Scatter) = Blocks
  /\ \A i \in 1 .. Blocks :
       Scatter[i].cmd = "scatter" /\ Scatter[i].value = i /\ Scatter[i].or = "load"
<1> USE FaultsAssumption
<1>1. /\ Sequence(Raise) /\ Len(Raise) = 5
      /\ \A i \in 1 .. 5 : Raise[i].cmd = "raise" /\ Raise[i].or = (IF i = 5 THEN "fail" ELSE "retry")
  <2> DEFINE C == {Raise[i] : i \in 1 .. 5}
  <2>1. /\ Raise = [i \in 1 .. 5 |-> Raise[i]]
        /\ \A i \in 1 .. 5 : Raise[i].cmd = "raise"
                             /\ Raise[i].or = (IF i = 5 THEN "fail" ELSE "retry")
    BY DEF Raise, Ctrl, Cmd
  <2>2. Raise \in [1 .. 5 -> C]
    BY <2>1
  <2> HIDE DEF C
  <2>3. Raise \in Seq(C)
    BY <2>2, SeqDef
  <2>4. Len(Raise) = 5
    BY <2>1
  <2> QED
    BY <2>1, <2>3, <2>4, OverIts
<1>2. /\ Sequence(Scatter) /\ Len(Scatter) = Blocks
      /\ \A i \in 1 .. Blocks :
           Scatter[i].cmd = "scatter" /\ Scatter[i].value = i /\ Scatter[i].or = "load"
  <2> DEFINE C == {Scatter[i] : i \in 1 .. Blocks}
  <2>1. /\ Scatter = [i \in 1 .. Blocks |-> Scatter[i]]
        /\ \A i \in 1 .. Blocks :
             Scatter[i].cmd = "scatter" /\ Scatter[i].value = i /\ Scatter[i].or = "load"
    BY DEF Scatter, Ctrl, Cmd
  <2>2. Scatter \in [1 .. Blocks -> C]
    BY <2>1
  <2> HIDE DEF C
  <2>3. Scatter \in Seq(C) /\ Len(Scatter) = Blocks
    BY <2>2
  <2> QED
    BY <2>1, <2>3, OverIts
<1> QED
  BY <1>1, <1>2

LEMMA Placement ==
  /\ Sequence(OpenBridge) /\ Len(OpenBridge) \in Nat /\ Len(OpenBridge) >= 10 + Blocks
  /\ DOMAIN OpenBridge = 1 .. Len(OpenBridge)
  /\ \A i \in DOMAIN OpenBridge : Placed(i, OpenBridge[i])
<1> USE FaultsAssumption
<1> DEFINE eeprom == Cmd("eeprom", Reg("4979"), 0, "fail")
           query == Ctrl("query", 0, "fail")
           speed == Cmd("write", Reg("f103"), 7, "load")
           boot == Ctrl("boot", 0, "load")
           booted == Ctrl("booted", 0, "load")
<1>2. /\ Sequence(eeprom) /\ Len(eeprom) = 1 /\ eeprom[1].cmd = "eeprom" /\ eeprom[1].or = "fail"
      /\ Sequence(query) /\ Len(query) = 1 /\ query[1].cmd = "query" /\ query[1].or = "fail"
      /\ Sequence(speed) /\ Len(speed) = 1 /\ speed[1].cmd = "write" /\ speed[1].or = "load"
      /\ Sequence(boot) /\ Len(boot) = 1 /\ boot[1].cmd = "boot" /\ boot[1].or = "load"
      /\ Sequence(booted) /\ Len(booted) = 1 /\ booted[1].cmd = "booted" /\ booted[1].or = "load"
  BY OneIs DEF Cmd, Ctrl
<1> HIDE DEF eeprom, query, speed, boot, booted
<1>4. OpenBridge = Raise \o eeprom \o (query \o speed \o Scatter \o boot \o booted) \o InitWarm
  BY DEF OpenBridge, LoadFirmware, eeprom, query, speed, boot, booted
<1> DEFINE l2 == query \o speed
           l3 == l2 \o Scatter
           l4 == l3 \o boot
           load == l4 \o booted
           first == Raise \o eeprom
           warm == first \o load
<1>5. /\ Sequence(l2) /\ Len(l2) = 2 /\ l2[1] = query[1] /\ l2[2] = speed[1]
  <2>1. Joined(l2, query, speed)
    BY <1>2, JoinedIs
  <2> HIDE DEF l2
  <2> QED
    BY <2>1, <1>2 DEF Joined
<1> HIDE DEF l2
<1>6. /\ Sequence(l3) /\ Len(l3) = 2 + Blocks /\ l3[1] = query[1] /\ l3[2] = speed[1]
      /\ \A i \in 3 .. 2 + Blocks : l3[i] = Scatter[i - 2]
  <2>1. Joined(l3, l2, Scatter)
    BY CommandLists, <1>5, JoinedIs
  <2> HIDE DEF l3
  <2> QED
    BY <2>1, CommandLists, <1>5 DEF Joined
<1> HIDE DEF l3
<1>7. /\ Sequence(l4) /\ Len(l4) = 3 + Blocks /\ l4[1] = query[1] /\ l4[2] = speed[1]
      /\ \A i \in 3 .. 2 + Blocks : l4[i] = Scatter[i - 2]
      /\ l4[3 + Blocks] = boot[1]
  <2>1. Joined(l4, l3, boot)
    BY <1>2, <1>6, JoinedIs
  <2> HIDE DEF l4
  <2> QED
    BY <2>1, <1>2, <1>6 DEF Joined
<1> HIDE DEF l4
<1>8. /\ Sequence(load) /\ Len(load) = 4 + Blocks /\ load[1] = query[1] /\ load[2] = speed[1]
      /\ \A i \in 3 .. 2 + Blocks : load[i] = Scatter[i - 2]
      /\ load[3 + Blocks] = boot[1] /\ load[4 + Blocks] = booted[1]
  <2>1. Joined(load, l4, booted)
    BY <1>2, <1>7, JoinedIs
  <2> HIDE DEF load
  <2> QED
    BY <2>1, <1>2, <1>7 DEF Joined
<1> HIDE DEF load
<1>9. /\ Sequence(first) /\ Len(first) = 6 /\ first[6] = eeprom[1]
      /\ \A i \in 1 .. 5 : first[i] = Raise[i]
  <2>1. Joined(first, Raise, eeprom)
    BY CommandLists, <1>2, JoinedIs
  <2> HIDE DEF first
  <2> QED
    BY <2>1, CommandLists, <1>2 DEF Joined
<1> HIDE DEF first
<1>10. /\ Sequence(warm) /\ Len(warm) = 10 + Blocks
       /\ \A i \in 1 .. 6 : warm[i] = first[i]
       /\ \A i \in 7 .. 10 + Blocks : warm[i] = load[i - 6]
  <2>1. Joined(warm, first, load)
    BY <1>8, <1>9, JoinedIs
  <2> HIDE DEF warm
  <2> QED
    BY <2>1, <1>8, <1>9 DEF Joined
<1>11. OpenBridge = warm \o InitWarm
  BY <1>4 DEF l2, l3, l4, load, first, warm
<1> HIDE DEF warm
<1>12. /\ Sequence(InitWarm) /\ Len(InitWarm) \in Nat /\ DOMAIN InitWarm = 1 .. Len(InitWarm)
  BY CalmInit, SeqIs DEF Calm
<1>13. /\ Sequence(OpenBridge) /\ Len(OpenBridge) = 10 + Blocks + Len(InitWarm)
       /\ DOMAIN OpenBridge = 1 .. Len(OpenBridge)
       /\ \A i \in 1 .. 10 + Blocks : OpenBridge[i] = warm[i]
       /\ \A i \in DOMAIN OpenBridge : i > 10 + Blocks => OpenBridge[i] = InitWarm[i - (10 + Blocks)]
  <2>1. Joined(warm \o InitWarm, warm, InitWarm)
    BY <1>10, <1>12, JoinedIs
  <2>2. Joined(OpenBridge, warm, InitWarm)
    BY <2>1, <1>11
  <2> QED
    BY <2>2, <1>10, <1>12 DEF Joined
<1>14. \A i \in 1 .. 6 : Placed(i, OpenBridge[i])
  <2>1. \A i \in 1 .. 6 : OpenBridge[i] = first[i]
    BY <1>10, <1>13
  <2>2. \A i \in 1 .. 5 : OpenBridge[i].cmd = "raise"
                          /\ OpenBridge[i].or = (IF i = 5 THEN "fail" ELSE "retry")
    BY <2>1, CommandLists, <1>9
  <2>3. OpenBridge[6].cmd = "eeprom" /\ OpenBridge[6].or = "fail"
    BY <2>1, <1>2, <1>9
  <2> QED
    BY <2>2, <2>3 DEF Placed
<1>15. \A i \in 7 .. 10 + Blocks : Placed(i, OpenBridge[i])
  <2>1. \A i \in 7 .. 10 + Blocks : OpenBridge[i] = load[i - 6]
    BY <1>10, <1>13
  <2>2. /\ OpenBridge[7] = query[1] /\ OpenBridge[8] = speed[1]
        /\ OpenBridge[9 + Blocks] = boot[1] /\ OpenBridge[10 + Blocks] = booted[1]
    BY <2>1, <1>8
  <2>3. \A i \in 9 .. 8 + Blocks : OpenBridge[i] = Scatter[i - 8]
    <3> TAKE i \in 9 .. 8 + Blocks
    <3>1. OpenBridge[i] = load[i - 6] /\ i - 6 \in 3 .. 2 + Blocks
      BY <2>1
    <3>2. load[i - 6] = Scatter[(i - 6) - 2]
      BY <3>1, <1>8
    <3> QED
      BY <3>1, <3>2
  <2>4. Placed(7, OpenBridge[7])
    BY <2>2, <1>2 DEF Placed
  <2>5. Placed(8, OpenBridge[8])
    BY <2>2, <1>2 DEF Placed
  <2>6. \A i \in 9 .. 8 + Blocks : Placed(i, OpenBridge[i])
    BY <2>3, CommandLists DEF Placed
  <2>7. Placed(9 + Blocks, OpenBridge[9 + Blocks])
    BY <2>2, <1>2 DEF Placed
  <2>8. Placed(10 + Blocks, OpenBridge[10 + Blocks])
    BY <2>2, <1>2 DEF Placed
  <2>9. \A i \in 7 .. 10 + Blocks : i = 7 \/ i = 8 \/ i \in 9 .. 8 + Blocks \/ i = 9 + Blocks
                                    \/ i = 10 + Blocks
    OBVIOUS
  <2> QED
    BY <2>4, <2>5, <2>6, <2>7, <2>8, <2>9
<1>16. \A i \in DOMAIN OpenBridge : i > 10 + Blocks => Placed(i, OpenBridge[i])
  <2> TAKE i \in DOMAIN OpenBridge
  <2> HAVE i > 10 + Blocks
  <2>1. i - (10 + Blocks) \in DOMAIN InitWarm /\ i \in Nat
    BY <1>12, <1>13
  <2>2. OpenBridge[i] = InitWarm[i - (10 + Blocks)]
    BY <1>13
  <2>3. /\ OpenBridge[i].cmd \in {"read", "merge", "write"}
        /\ OpenBridge[i].or \in {"fail", "bracket", "close"}
    BY <2>1, <2>2, CalmInit DEF Calm
  <2> QED
    BY <2>1, <2>3 DEF Placed
<1>17. \A i \in DOMAIN OpenBridge : i \in 1 .. 6 \/ i \in 7 .. 10 + Blocks \/ i > 10 + Blocks
  BY <1>13
<1>18. \A i \in DOMAIN OpenBridge : Placed(i, OpenBridge[i])
  BY <1>14, <1>15, <1>16, <1>17
<1> QED
  BY <1>12, <1>13, <1>18

-----------------------------------------------------------------------------
(* What is left to do                                                      *)

LEMMA FromIs ==
  ASSUME NEW n \in DOMAIN OpenBridge
  PROVE  /\ Sequence(From(n)) /\ Len(From(n)) = Len(OpenBridge) + 1 - n /\ From(n) # <<>>
         /\ \A i \in 1 .. Len(From(n)) : From(n)[i] = OpenBridge[n + i - 1]
         /\ From(n)[1] = OpenBridge[n] /\ Placed(n, From(n)[1])
         /\ n \in Nat /\ n <= Len(OpenBridge) /\ Len(OpenBridge) \in Nat
<1>1. /\ Sequence(OpenBridge) /\ Len(OpenBridge) \in Nat
      /\ DOMAIN OpenBridge = 1 .. Len(OpenBridge) /\ Placed(n, OpenBridge[n])
  BY Placement
<1>2. n \in 1 .. Len(OpenBridge) + 1 /\ n \in 1 .. Len(OpenBridge) /\ 1 \in 1 .. Len(OpenBridge) + 1 - n
  BY <1>1
<1>3. /\ Sequence(From(n)) /\ Len(From(n)) = Len(OpenBridge) + 1 - n
      /\ \A i \in 1 .. Len(OpenBridge) + 1 - n : From(n)[i] = OpenBridge[n + i - 1]
      /\ From(n) = <<>> <=> n = Len(OpenBridge) + 1
  BY <1>1, <1>2, RestIs DEF From
<1>4. From(n)[1] = OpenBridge[n + 1 - 1]
  BY <1>2, <1>3
<1>5. n + 1 - 1 = n
  BY <1>2
<1> QED
  BY <1>1, <1>2, <1>3, <1>4, <1>5

\* What is left of what is left of open_bridge.
LEMMA FromFrom ==
  ASSUME NEW n \in DOMAIN OpenBridge, NEW m \in 2 .. Len(From(n)) + 1
  PROVE  /\ SubSeq(From(n), m, Len(From(n))) = From(n + m - 1)
         /\ n + m - 1 \in Nat /\ n + m - 1 > n
         /\ SubSeq(From(n), m, Len(From(n))) = <<>> \/ n + m - 1 \in DOMAIN OpenBridge
<1>1. /\ Sequence(OpenBridge) /\ DOMAIN OpenBridge = 1 .. Len(OpenBridge)
      /\ Len(From(n)) = Len(OpenBridge) + 1 - n /\ Sequence(From(n))
      /\ n \in Nat /\ n <= Len(OpenBridge) /\ Len(OpenBridge) \in Nat
  BY Placement, FromIs
<1>2. n \in 1 .. Len(OpenBridge) + 1 /\ m \in 1 .. Len(OpenBridge) + 2 - n
  BY <1>1
<1>3. SubSeq(From(n), m, Len(From(n))) = From(n + m - 1)
  BY <1>1, <1>2, RestOfRest DEF From
<1>4. m \in 1 .. Len(From(n)) + 1
  BY <1>1
<1>5. SubSeq(From(n), m, Len(From(n))) = <<>> <=> m = Len(From(n)) + 1
  BY <1>1, <1>4, RestIs
<1>6. m # Len(From(n)) + 1 => n + m - 1 \in DOMAIN OpenBridge
  BY <1>1
<1> QED
  BY <1>1, <1>3, <1>5, <1>6

LEMMA HarmlessRest ==
  ASSUME NEW q, Harmless(q), NEW m \in 1 .. Len(q) + 1
  PROVE  Harmless(SubSeq(q, m, Len(q)))
<1> DEFINE r == SubSeq(q, m, Len(q))
<1>1. Sequence(q) /\ Len(q) \in Nat /\ DOMAIN q = 1 .. Len(q)
  BY SeqIs DEF Harmless
<1>2. /\ Sequence(r) /\ DOMAIN r = 1 .. Len(q) + 1 - m
      /\ \A i \in 1 .. Len(q) + 1 - m : r[i] = q[m + i - 1]
  BY <1>1, RestIs
<1> HIDE DEF r
<1>3. \A i \in DOMAIN r : m + i - 1 \in DOMAIN q /\ r[i] = q[m + i - 1]
  BY <1>1, <1>2
<1>4. Harmless(r)
  BY <1>2, <1>3 DEF Harmless
<1> QED
  BY <1>4 DEF r

LEMMA HarmlessBoth ==
  ASSUME NEW p, NEW q, Harmless(p), Harmless(q)
  PROVE  Harmless(p \o q)
<1>1. Joined(p \o q, p, q)
  BY JoinedIs DEF Harmless
<1>2. DOMAIN p = 1 .. Len(p) /\ DOMAIN q = 1 .. Len(q) /\ Len(p) \in Nat /\ Len(q) \in Nat
  BY SeqIs DEF Harmless
<1>3. \A i \in DOMAIN (p \o q) : \/ i \in DOMAIN p /\ (p \o q)[i] = p[i]
                                 \/ i - Len(p) \in DOMAIN q /\ (p \o q)[i] = q[i - Len(p)]
  BY <1>1, <1>2 DEF Joined
<1> QED
  BY <1>1, <1>3 DEF Harmless, Joined

\* As open_bridge or another procedure goes on, or ends.
LEMMA GoesOn ==
  ASSUME Progress, todo # <<>>, NEW rest, NEW res, GoOn(rest, res),
         waiting' = FALSE, blocks' = blocks,
         \/ rest = <<>>
         \/ phase = "ready" /\ Harmless(rest)
         \/ phase = "opening" /\ \E k \in DOMAIN OpenBridge : rest = From(k) /\ BlocksBefore(k)
  PROVE  Progress'
<1>1. phase \in {"opening", "ready"}
  BY DEF Progress
<1>2. \/ todo' = <<>> /\ phase' \in {"closed", "ready"}
      \/ rest # <<>> /\ todo' = rest /\ phase' = phase
  BY <1>1 DEF GoOn
<1>3. CASE todo' = <<>> /\ phase' \in {"closed", "ready"}
  <2>1. Harmless(todo')
    BY <1>3, EmptyIs DEF Harmless
  <2>2. Harmless(todo)'
    BY <2>1 DEF Harmless, Sequence
  <2> QED
    BY <2>2, <1>3 DEF Progress
<1>4. CASE rest # <<>> /\ todo' = rest /\ phase' = phase
  <2>1. CASE phase = "ready" /\ Harmless(rest)
    <3>1. Harmless(todo)'
      BY <2>1, <1>4 DEF Harmless, Sequence
    <3> QED
      BY <3>1, <2>1, <1>4 DEF Progress
  <2>2. CASE phase = "opening" /\ \E k \in DOMAIN OpenBridge : rest = From(k) /\ BlocksBefore(k)
    <3>1. PICK k \in DOMAIN OpenBridge : rest = From(k) /\ BlocksBefore(k)
      BY <2>2
    <3>2. BlocksBefore(k)'
      BY <3>1 DEF BlocksBefore
    <3>3. Opening'
      BY <3>1, <3>2, <1>4 DEF Opening
    <3> QED
      BY <3>3, <2>2, <1>4 DEF Progress
  <2> QED
    BY <2>1, <2>2, <1>4
<1> QED
  BY <1>2, <1>3, <1>4

LEMMA AtHead ==
  ASSUME Progress, todo # <<>>
  PROVE  /\ phase \in {"opening", "ready"} /\ Sequence(todo) /\ Len(todo) \in Nat \ {0}
         /\ todo[1].or \in Outcomes
<1>1. CASE phase = "opening"
  <2>1. PICK n \in DOMAIN OpenBridge : todo = From(n) /\ BlocksBefore(n)
    BY <1>1 DEF Progress, Opening
  <2>2. Sequence(todo) /\ Placed(n, todo[1]) /\ n \in DOMAIN OpenBridge /\ n \in Nat
    BY <2>1, FromIs
  <2>3. n \in 1 .. Len(OpenBridge)
    BY <2>2, Placement
  <2>4. todo[1].or \in Outcomes
    BY <2>2, <2>3, FaultsAssumption DEF Placed, Outcomes
  <2> QED
    BY <2>2, <2>4, <1>1, TailIsRest
<1>2. CASE phase = "ready"
  <2>1. Harmless(todo)
    BY <1>2 DEF Progress
  <2>2. Len(todo) \in Nat \ {0} /\ DOMAIN todo = 1 .. Len(todo)
    BY <2>1, TailIsRest, SeqIs DEF Harmless
  <2>3. 1 \in DOMAIN todo
    BY <2>2
  <2> QED
    BY <2>1, <2>2, <2>3, <1>2 DEF Harmless
<1> QED
  BY <1>1, <1>2 DEF Progress

\* What a failure makes of the result; "bracket" and "close" come to an end that
\* fails.
Blamed(or, res) ==
  /\ or \in {"fail", "load", "bracket", "close"} => res = "failed"
  /\ or = "retry" => res = result
  /\ or = "ignore" => res \in {"failed", "ignored"}

\* A failure ends a procedure, or what is left goes on from some command, the next
\* one if what failed is tried again, and never one that writes what was not read.
LEMMA FailureGoes ==
  ASSUME Sequence(todo), todo # <<>>, todo[1].or \in Outcomes, Failure
  PROVE  \E rest, res :
           /\ GoOn(rest, res) /\ Blamed(todo[1].or, res)
           /\ todo[1].or = "retry" => rest = SubSeq(todo, 2, Len(todo))
           /\ \/ rest = <<>>
              \/ /\ todo[1].or \notin {"fail", "load"}
                 /\ \E m \in 2 .. Len(todo) :
                      /\ rest = SubSeq(todo, m, Len(todo))
                      /\ todo[1].or = "retry" => m = 2
                      /\ Paired(todo) /\ (todo[1].or = "retry" => todo[1].cmd # "read")
                           => todo[m].cmd # "merge"
<1> DEFINE next == SkipMerge(todo[1])
           k0 == IF todo[1].cmd = "read" THEN 3 ELSE 2
<1>1. Len(todo) \in Nat \ {0} /\ Tail(todo) = SubSeq(todo, 2, Len(todo))
      /\ DOMAIN todo = 1 .. Len(todo)
  BY TailIsRest, SeqIs
<1>2. k0 \in 2 .. 3 /\ next = SubSeq(todo, k0, Len(todo))
  BY <1>1 DEF SkipMerge
<1>3. Paired(todo) =>
        \A j \in 2 .. Len(todo) :
          todo[j].cmd = "merge" => todo[j - 1].cmd = "read" /\ todo[j - 1].or = todo[j].or
  <2>1. \A j \in 2 .. Len(todo) : j \in DOMAIN todo /\ j > 1
    BY <1>1
  <2> QED
    BY <2>1 DEF Paired
<1>4. Paired(todo) => \A j \in 2 .. Len(todo) : j = k0 => todo[j].cmd # "merge"
  <2> SUFFICES ASSUME Paired(todo), k0 \in 2 .. Len(todo), todo[k0].cmd = "merge"
               PROVE  FALSE
    OBVIOUS
  <2>1. CASE todo[1].cmd = "read"
    <3>1. k0 = 3 /\ 3 - 1 = 2 /\ 1 \in DOMAIN todo /\ 3 \in 2 .. Len(todo)
      BY <2>1, <1>1
    <3>2. todo[2].cmd = "read"
      BY <3>1, <1>3
    <3>3. todo[1 + 1].cmd = "merge"
      BY <3>1, <2>1 DEF Paired
    <3> QED
      BY <3>2, <3>3
  <2>2. CASE todo[1].cmd # "read"
    <3>1. k0 = 2 /\ 2 - 1 = 1
      BY <2>2
    <3>2. todo[1].cmd = "read"
      BY <3>1, <1>3
    <3> QED
      BY <3>2, <2>2
  <2> QED
    BY <2>1, <2>2
<1>5. \/ k0 \in 2 .. Len(todo) + 1 /\ Sequence(next) /\ Len(next) = Len(todo) + 1 - k0
         /\ \A i \in 1 .. Len(todo) + 1 - k0 : next[i] = todo[k0 + i - 1]
         /\ (next = <<>> <=> k0 = Len(todo) + 1)
      \/ next = <<>>
  <2> HIDE DEF next, k0
  <2>1. CASE k0 \in 2 .. Len(todo) + 1
    <3>1. k0 \in 1 .. Len(todo) + 1
      BY <2>1, <1>1
    <3>2. Sequence(next) /\ Len(next) = Len(todo) + 1 - k0
          /\ (next = <<>> <=> k0 = Len(todo) + 1)
          /\ \A i \in 1 .. Len(todo) + 1 - k0 : next[i] = todo[k0 + i - 1]
      BY <3>1, <1>1, <1>2, RestIs
    <3> QED
      BY <3>2, <2>1
  <2>2. CASE k0 \notin 2 .. Len(todo) + 1
    <3>1. k0 \in Int /\ Len(todo) \in Int /\ Len(todo) < k0
      BY <2>2, <1>1, <1>2
    <3>2. next = <<>>
      BY <3>1, <1>2, SubSeqEmpty
    <3> QED
      BY <3>2
  <2> QED
    BY <2>1, <2>2
<1> HIDE DEF next, k0
<1>6. \A res : GoOn(next, res) /\ Blamed(todo[1].or, res) /\ todo[1].or \notin {"fail", "load", "retry"} =>
        \/ next = <<>>
        \/ /\ todo[1].or \notin {"fail", "load"}
           /\ \E m \in 2 .. Len(todo) :
                /\ next = SubSeq(todo, m, Len(todo))
                /\ todo[1].or = "retry" => m = 2
                /\ Paired(todo) /\ (todo[1].or = "retry" => todo[1].cmd # "read")
                     => todo[m].cmd # "merge"
  <2>1. next # <<>> => k0 \in 2 .. Len(todo)
    BY <1>1, <1>5
  <2> QED
    BY <2>1, <1>2, <1>4
<1>7. CASE todo[1].or \in {"fail", "load"}
  <2>1. GoOn(<<>>, "failed") /\ Blamed(todo[1].or, "failed")
    BY <1>7 DEF Failure, Blamed
  <2> QED
    BY <2>1, <1>7
<1>8. CASE todo[1].or = "retry"
  <2> DEFINE rest == Tail(todo)
  <2>1. GoOn(rest, result) /\ Blamed(todo[1].or, result) /\ rest = SubSeq(todo, 2, Len(todo))
    BY <1>1, <1>8 DEF Failure, Blamed
  <2> HIDE DEF rest
  <2>2. rest # <<>> => 2 \in 2 .. Len(todo)
    <3>1. 2 \in 1 .. Len(todo) + 1
      BY <1>1
    <3>2. rest = <<>> <=> 2 = Len(todo) + 1
      BY <3>1, <2>1, RestIs
    <3> QED
      BY <3>2, <1>1
  <2>3. Paired(todo) /\ todo[1].cmd # "read" /\ 2 \in 2 .. Len(todo) => todo[2].cmd # "merge"
    <3>1. 2 - 1 = 1
      OBVIOUS
    <3> QED
      BY <3>1, <1>3
  <2> QED
    BY <2>1, <2>2, <2>3, <1>8
<1>9. CASE todo[1].or = "bracket"
  <2>1. \E rest \in After(next, "or", "bracket") : GoOn(rest, "failed")
    BY <1>9 DEF Failure, next
  <2>2. \E k \in 1 .. Len(next) + 1 :
          /\ GoOn(SubSeq(next, k, Len(next)), "failed")
          /\ \A i \in 1 .. k - 1 : next[i].or = "bracket"
          /\ k <= Len(next) => next[k].or # "bracket"
    BY <2>1 DEF After
  <2>3. PICK k \in 1 .. Len(next) + 1 :
          /\ GoOn(SubSeq(next, k, Len(next)), "failed")
          /\ \A i \in 1 .. k - 1 : next[i].or = "bracket"
          /\ k <= Len(next) => next[k].or # "bracket"
    BY <2>2
  <2>4. Blamed(todo[1].or, "failed")
    BY <1>9 DEF Blamed
  <2>5. CASE next = <<>>
    <3>1. Len(next) = 0 /\ Len(next) \in Int /\ k \in Int /\ Len(next) < k
      BY <2>5, EmptyIs
    <3>2. SubSeq(next, k, Len(next)) = <<>>
      BY <3>1, SubSeqEmpty
    <3> QED
      BY <3>2, <2>3, <2>4, <1>9
  <2>6. CASE /\ k0 \in 2 .. Len(todo) + 1 /\ Len(next) = Len(todo) + 1 - k0
             /\ \A i \in 1 .. Len(todo) + 1 - k0 : next[i] = todo[k0 + i - 1]
    <3> DEFINE m == k0 + k - 1
               rest == SubSeq(next, k, Len(next))
    <3>1. k0 \in 1 .. Len(todo) + 1 /\ k \in 1 .. Len(todo) + 2 - k0 /\ k0 \in Nat /\ k \in Nat
      BY <2>6, <1>1
    <3>2. rest = SubSeq(todo, m, Len(todo))
      BY <3>1, <2>6, <1>2, RestOfRest
    <3>3. m \in 2 .. Len(todo) + 1
      BY <3>1, <2>6, <1>1
    <3>4. rest # <<>> => m \in 2 .. Len(todo)
      <4>1. m \in 1 .. Len(todo) + 1
        BY <3>3, <1>1
      <4> HIDE DEF rest, m
      <4>2. rest = <<>> <=> m = Len(todo) + 1
        BY <4>1, <3>2, RestIs
      <4> QED
        BY <4>2, <3>3, <1>1
    <3>5. Paired(todo) /\ m \in 2 .. Len(todo) => todo[m].cmd # "merge"
      <4> SUFFICES ASSUME Paired(todo), m \in 2 .. Len(todo), todo[m].cmd = "merge"
                   PROVE  FALSE
        OBVIOUS
      <4>1. CASE k = 1
        <5>1. m = k0
          BY <4>1, <3>1
        <5> QED
          BY <5>1, <1>4
      <4>2. CASE k > 1
        <5>1. k - 1 \in 1 .. k - 1 /\ k - 1 \in 1 .. Len(todo) + 1 - k0 /\ k0 + (k - 1) - 1 = m - 1
          BY <4>2, <3>1, <2>6
        <5>2. next[k - 1] = todo[m - 1] /\ next[k - 1].or = "bracket"
          BY <5>1, <2>3, <2>6
        <5>3. todo[m].or = "bracket"
          BY <5>2, <1>3
        <5>4. k <= Len(next) /\ k \in 1 .. Len(todo) + 1 - k0
          BY <3>1, <2>6, <1>1
        <5>5. next[k] = todo[m]
          BY <5>4, <2>6
        <5> QED
          BY <5>3, <5>4, <5>5, <2>3
      <4> QED
        BY <4>1, <4>2, <3>1
    <3>6. GoOn(rest, "failed")
      BY <2>3
    <3> HIDE DEF rest, m
    <3> QED
      BY <3>2, <3>4, <3>5, <3>6, <2>4, <1>9
  <2> QED
    BY <2>5, <2>6, <1>5
<1>10. CASE todo[1].or \in {"close", "ignore"}
  <2>1. \E res : GoOn(next, res) /\ Blamed(todo[1].or, res)
    <3>1. CASE todo[1].or = "close"
      BY <3>1 DEF Failure, next, Blamed
    <3>2. CASE todo[1].or = "ignore"
      <4>1. GoOn(next, IF result = "failed" THEN result ELSE "ignored")
        BY <3>2 DEF Failure, next
      <4>2. Blamed(todo[1].or, IF result = "failed" THEN result ELSE "ignored")
        BY <3>2 DEF Blamed
      <4> QED
        BY <4>1, <4>2
    <3> QED
      BY <3>1, <3>2, <1>10
  <2>2. PICK res : GoOn(next, res) /\ Blamed(todo[1].or, res)
    BY <2>1
  <2>3. \/ next = <<>>
        \/ /\ todo[1].or \notin {"fail", "load"}
           /\ \E m \in 2 .. Len(todo) :
                /\ next = SubSeq(todo, m, Len(todo))
                /\ todo[1].or = "retry" => m = 2
                /\ Paired(todo) /\ (todo[1].or = "retry" => todo[1].cmd # "read")
                     => todo[m].cmd # "merge"
    BY <2>2, <1>6, <1>10
  <2> QED
    BY <2>2, <2>3, <1>10
<1> QED
  BY <1>7, <1>8, <1>9, <1>10 DEF Outcomes

\* Something that is done goes on with the next command, but passes over further
\* attempts to raise the bridge and, with firmware running, what loads it.
LEMMA SuccessGoes ==
  ASSUME Sequence(todo), todo # <<>>, NEW value, Success(value)
  PROVE  \E m \in 2 .. Len(todo) + 1 :
           /\ GoOn(SubSeq(todo, m, Len(todo)), result)
           /\ todo[1].cmd = "raise" =>
                /\ \A i \in 2 .. m - 1 : todo[i].cmd = "raise"
                /\ m <= Len(todo) => todo[m].cmd # "raise"
           /\ todo[1].cmd = "query" /\ m # 2 =>
                /\ value # 0 /\ \A i \in 2 .. m - 1 : todo[i].or = "load"
           /\ todo[1].cmd = "query" =>
                m = 2 \/ (m <= Len(todo) => todo[m].or # "load")
           /\ todo[1].cmd \notin {"raise", "query"} => m = 2
<1> DEFINE next == Tail(todo)
<1>1. /\ Len(todo) \in Nat \ {0} /\ next = SubSeq(todo, 2, Len(todo))
      /\ 2 \in 2 .. Len(todo) + 1 /\ 2 \in 1 .. Len(todo) + 1
  BY TailIsRest
<1>2. /\ Sequence(next) /\ Len(next) = Len(todo) - 1
      /\ \A i \in 1 .. Len(todo) - 1 : next[i] = todo[i + 1]
  <2>1. /\ Sequence(next) /\ Len(next) = Len(todo) + 1 - 2
        /\ \A i \in 1 .. Len(todo) + 1 - 2 : next[i] = todo[2 + i - 1]
    <3> DEFINE rest == SubSeq(todo, 2, Len(todo))
    <3>1. /\ Sequence(rest) /\ Len(rest) = Len(todo) + 1 - 2
          /\ \A i \in 1 .. Len(todo) + 1 - 2 : rest[i] = todo[2 + i - 1]
      BY <1>1, RestIs
    <3> HIDE DEF rest
    <3>2. next = rest
      BY <1>1 DEF rest
    <3> HIDE DEF next
    <3> QED
      BY <3>1, <3>2
  <2>2. \A i \in 1 .. Len(todo) - 1 : i \in 1 .. Len(todo) + 1 - 2 /\ 2 + i - 1 = i + 1
    BY <1>1
  <2> QED
    BY <2>1, <2>2, <1>1
<1>3. \E rest \in CASE todo[1].cmd = "raise" -> After(next, "cmd", "raise")
                    [] todo[1].cmd = "query" /\ value # 0 -> After(next, "or", "load")
                    [] OTHER -> {next} :
        GoOn(rest, result)
  BY DEF Success
<1> HIDE DEF next
<1>4. ASSUME NEW k \in 1 .. Len(next) + 1
      PROVE  /\ k + 1 \in 2 .. Len(todo) + 1
             /\ SubSeq(next, k, Len(next)) = SubSeq(todo, k + 1, Len(todo))
             /\ k <= Len(next) => next[k] = todo[k + 1]
             /\ k + 1 <= Len(todo) => k <= Len(next)
             /\ \A i \in 2 .. k + 1 - 1 : i - 1 \in 1 .. k - 1 /\ todo[i] = next[i - 1]
  <2>1. k \in 1 .. Len(todo) + 2 - 2
    BY <1>1, <1>2
  <2>2. SubSeq(next, k, Len(next)) = SubSeq(todo, 2 + k - 1, Len(todo))
    BY <2>1, <1>1, RestOfRest
  <2>3. 2 + k - 1 = k + 1 /\ k + 1 \in 2 .. Len(todo) + 1
    BY <2>1, <1>1
  <2>4. k <= Len(next) => next[k] = todo[k + 1]
    BY <1>1, <1>2
  <2>5. k + 1 <= Len(todo) => k <= Len(next)
    BY <1>1, <1>2
  <2>6. \A i \in 2 .. k + 1 - 1 : i - 1 \in 1 .. k - 1 /\ todo[i] = next[i - 1]
    BY <1>1, <1>2
  <2> QED
    BY <2>2, <2>3, <2>4, <2>5, <2>6
<1>5. CASE todo[1].cmd = "raise"
  <2>1. \E rest \in After(next, "cmd", "raise") : GoOn(rest, result)
    BY <1>3, <1>5
  <2>2. \E k \in 1 .. Len(next) + 1 :
          /\ GoOn(SubSeq(next, k, Len(next)), result)
          /\ \A i \in 1 .. k - 1 : next[i].cmd = "raise"
          /\ k <= Len(next) => next[k].cmd # "raise"
    BY <2>1 DEF After
  <2>3. PICK k \in 1 .. Len(next) + 1 :
          /\ GoOn(SubSeq(next, k, Len(next)), result)
          /\ \A i \in 1 .. k - 1 : next[i].cmd = "raise"
          /\ k <= Len(next) => next[k].cmd # "raise"
    BY <2>2
  <2>4. GoOn(SubSeq(todo, k + 1, Len(todo)), result)
    BY <2>3, <1>4
  <2>5. \A i \in 2 .. k + 1 - 1 : todo[i].cmd = "raise"
    BY <2>3, <1>4
  <2>6. k + 1 <= Len(todo) => todo[k + 1].cmd # "raise"
    BY <2>3, <1>4
  <2>7. k + 1 \in 2 .. Len(todo) + 1
    BY <1>4
  <2> QED
    BY <2>4, <2>5, <2>6, <2>7, <1>5
<1>6. CASE todo[1].cmd = "query" /\ value # 0
  <2>1. \E rest \in After(next, "or", "load") : GoOn(rest, result)
    BY <1>3, <1>6
  <2>2. \E k \in 1 .. Len(next) + 1 :
          /\ GoOn(SubSeq(next, k, Len(next)), result)
          /\ \A i \in 1 .. k - 1 : next[i].or = "load"
          /\ k <= Len(next) => next[k].or # "load"
    BY <2>1 DEF After
  <2>3. PICK k \in 1 .. Len(next) + 1 :
          /\ GoOn(SubSeq(next, k, Len(next)), result)
          /\ \A i \in 1 .. k - 1 : next[i].or = "load"
          /\ k <= Len(next) => next[k].or # "load"
    BY <2>2
  <2>4. GoOn(SubSeq(todo, k + 1, Len(todo)), result)
    BY <2>3, <1>4
  <2>5. k + 1 <= Len(todo) => todo[k + 1].or # "load"
    BY <2>3, <1>4
  <2>6. k + 1 \in 2 .. Len(todo) + 1
    BY <1>4
  <2>7. \A i \in 2 .. k + 1 - 1 : todo[i].or = "load"
    BY <2>3, <1>4
  <2> QED
    BY <2>4, <2>5, <2>6, <2>7, <1>6
<1>7. CASE todo[1].cmd # "raise" /\ ~(todo[1].cmd = "query" /\ value # 0)
  <2>1. GoOn(next, result)
    BY <1>3, <1>7
  <2>2. GoOn(SubSeq(todo, 2, Len(todo)), result) /\ todo[1].cmd # "raise"
    BY <2>1, <1>1, <1>7
  <2> QED
    BY <2>2, <1>1
<1> QED
  BY <1>5, <1>6, <1>7

\* Neither brings a procedure past a block that is not in the bridge.
LEMMA FailureProgress ==
  ASSUME Progress, todo # <<>>, Failure, blocks' = blocks
  PROVE  Progress'
<1>1. waiting' = FALSE
  BY FailureIs
<1>2. phase \in {"opening", "ready"} /\ Sequence(todo) /\ Len(todo) \in Nat \ {0}
      /\ todo[1].or \in Outcomes
  BY AtHead
<1>3. PICK rest, res :
        /\ GoOn(rest, res)
        /\ \/ rest = <<>>
           \/ /\ todo[1].or \notin {"fail", "load"}
              /\ \E m \in 2 .. Len(todo) : /\ rest = SubSeq(todo, m, Len(todo))
                                           /\ todo[1].or = "retry" => m = 2
  BY <1>2, FailureGoes
<1>4. CASE rest = <<>>
  BY <1>1, <1>3, <1>4, GoesOn
<1>5. CASE rest # <<>>
  <2>1. PICK m \in 2 .. Len(todo) : /\ rest = SubSeq(todo, m, Len(todo))
                                    /\ todo[1].or = "retry" => m = 2
    BY <1>3, <1>5
  <2>2. CASE phase = "ready"
    <3>1. Harmless(todo) /\ m \in 1 .. Len(todo) + 1
      BY <2>2, <1>2 DEF Progress
    <3>2. Harmless(rest)
      BY <3>1, <2>1, HarmlessRest
    <3> QED
      BY <3>2, <2>2, <1>1, <1>3, GoesOn
  <2>3. CASE phase = "opening"
    <3>1. PICK n \in DOMAIN OpenBridge : todo = From(n) /\ BlocksBefore(n)
      BY <2>3 DEF Progress, Opening
    <3>2. Placed(n, todo[1]) /\ n \in 1 .. Len(OpenBridge) /\ n \in Nat /\ Len(OpenBridge) \in Nat
      BY <3>1, FromIs, Placement
    <3>3. /\ rest = From(n + m - 1) /\ n + m - 1 \in DOMAIN OpenBridge
          /\ n + m - 1 \in Nat /\ n + m - 1 > n
      <4>1. /\ SubSeq(From(n), m, Len(From(n))) = From(n + m - 1)
            /\ n + m - 1 \in Nat /\ n + m - 1 > n
            /\ SubSeq(From(n), m, Len(From(n))) = <<>> \/ n + m - 1 \in DOMAIN OpenBridge
        BY <2>1, <3>1, FromFrom
      <4> QED
        BY <4>1, <2>1, <3>1, <1>5
    <3>4. n + m - 1 \notin Loading
      <4>1. todo[1].or \notin {"fail", "load"}
        BY <1>3, <1>5
      <4>2. CASE n <= 4
        <5>1. m = 2
          BY <4>2, <3>2, <2>1 DEF Placed
        <5> QED
          BY <5>1, <4>2, <3>2, FaultsAssumption DEF Loading
      <4>3. CASE n > 4
        <5>1. n > 10 + Blocks
          BY <4>1, <4>3, <3>2, FaultsAssumption DEF Placed
        <5> QED
          BY <5>1, <3>2, <3>3, FaultsAssumption DEF Loading
      <4> QED
        BY <4>2, <4>3, <3>2
    <3>5. BlocksBefore(n + m - 1)
      BY <3>4 DEF BlocksBefore
    <3> QED
      BY <3>3, <3>5, <2>3, <1>1, <1>3, GoesOn
  <2> QED
    BY <2>2, <2>3, <1>2
<1> QED
  BY <1>4, <1>5

LEMMA SuccessProgress ==
  ASSUME Progress, todo # <<>>, NEW value, Success(value), blocks' = blocks,
         todo[1].cmd = "scatter" => todo[1].value \in blocks
  PROVE  Progress'
<1>1. waiting' = FALSE
  BY DEF Success
<1>2. phase \in {"opening", "ready"} /\ Sequence(todo) /\ Len(todo) \in Nat \ {0}
  BY AtHead
<1>3. PICK m \in 2 .. Len(todo) + 1 :
        /\ GoOn(SubSeq(todo, m, Len(todo)), result)
        /\ todo[1].cmd = "raise" =>
             /\ \A i \in 2 .. m - 1 : todo[i].cmd = "raise"
             /\ m <= Len(todo) => todo[m].cmd # "raise"
        /\ todo[1].cmd = "query" => m = 2 \/ (m <= Len(todo) => todo[m].or # "load")
        /\ todo[1].cmd \notin {"raise", "query"} => m = 2
  BY <1>2, SuccessGoes
<1> DEFINE rest == SubSeq(todo, m, Len(todo))
<1>4. GoOn(rest, result)
  BY <1>3
<1> HIDE DEF rest
<1>5. CASE rest = <<>>
  BY <1>1, <1>4, <1>5, GoesOn
<1>6. CASE phase = "ready"
  <2>1. Harmless(todo) /\ m \in 1 .. Len(todo) + 1
    BY <1>6, <1>2 DEF Progress
  <2>2. Harmless(rest)
    BY <2>1, HarmlessRest DEF rest
  <2> QED
    BY <2>2, <1>6, <1>1, <1>4, GoesOn
<1>7. CASE rest # <<>> /\ phase = "opening"
  <2>1. PICK n \in DOMAIN OpenBridge : todo = From(n) /\ BlocksBefore(n)
    BY <1>7 DEF Progress, Opening
  <2> DEFINE k == n + m - 1
  <2>2. /\ Placed(n, todo[1]) /\ n \in 1 .. Len(OpenBridge) /\ n \in Nat /\ Len(OpenBridge) \in Nat
        /\ Len(todo) = Len(OpenBridge) + 1 - n
        /\ \A i \in 1 .. Len(todo) : todo[i] = OpenBridge[n + i - 1]
    BY <2>1, FromIs, Placement
  <2>3. /\ rest = From(k) /\ k \in DOMAIN OpenBridge /\ k \in Nat /\ k > n
    <3>1. /\ SubSeq(From(n), m, Len(From(n))) = From(n + m - 1)
          /\ n + m - 1 \in Nat /\ n + m - 1 > n
          /\ SubSeq(From(n), m, Len(From(n))) = <<>> \/ n + m - 1 \in DOMAIN OpenBridge
      BY <1>3, <2>1, FromFrom
    <3> QED
      BY <3>1, <2>1, <1>7 DEF rest
  <2>4. m <= Len(todo) /\ todo[m] = OpenBridge[k] /\ Placed(k, OpenBridge[k])
    <3>1. k \in 1 .. Len(OpenBridge)
      BY <2>3, Placement
    <3>2. m \in 1 .. Len(todo)
      BY <3>1, <2>2
    <3> QED
      BY <3>2, <2>2, <2>3, Placement
  <2>5. BlocksBefore(k)
    <3>1. CASE n <= 5
      <4>1. todo[1].cmd = "raise"
        BY <3>1, <2>2 DEF Placed
      <4>2. \A i \in 2 .. m - 1 : todo[i].cmd = "raise"
        BY <4>1, <1>3
      <4>3. ~(k > 6)
        <5>1. SUFFICES ASSUME k > 6 PROVE FALSE
          OBVIOUS
        <5>2. 7 - n \in 2 .. m - 1 /\ 7 - n \in 1 .. Len(todo) /\ n + (7 - n) - 1 = 6
          <6>1. n \in Nat /\ n <= 5 /\ m \in Int /\ Len(todo) \in Nat
            <7>1. n \in Nat
              BY <2>2
            <7>2. m \in Int /\ Len(todo) \in Nat
              BY <1>2
            <7> QED
              BY <7>1, <7>2, <3>1
          <6>2. m <= Len(todo)
            BY <2>4
          <6>3. n + m - 1 > 6
            BY <5>1
          <6> HIDE DEF k
          <6> QED
            BY <6>1, <6>2, <6>3
        <5>3. OpenBridge[6].cmd = "raise"
          BY <5>2, <4>2, <2>2
        <5>4. Placed(6, OpenBridge[6])
          <6>1. 6 \in DOMAIN OpenBridge
            BY Placement, FaultsAssumption
          <6> QED
            BY <6>1, Placement
        <5> QED
          BY <5>3, <5>4 DEF Placed
      <4> QED
        BY <4>3, <2>3 DEF BlocksBefore, Loading
    <3>2. CASE n = 6
      <4>1. m = 2
        BY <3>2, <2>2, <1>3 DEF Placed
      <4> QED
        BY <4>1, <3>2 DEF BlocksBefore, Loading
    <3>3. CASE n = 7
      <4>1. todo[1].cmd = "query"
        BY <3>3, <2>2 DEF Placed
      <4>2. m = 2 \/ OpenBridge[k].or # "load"
        BY <4>1, <2>4, <1>3
      <4>3. OpenBridge[k].or # "load" => k \notin 8 .. 10 + Blocks
        BY <2>4 DEF Placed
      <4>4. k \notin Loading
        BY <4>2, <4>3, <3>3, <2>3, FaultsAssumption DEF Loading
      <4> QED
        BY <4>4 DEF BlocksBefore
    <3>4. CASE n = 8
      <4>1. m = 2
        BY <3>4, <2>2, <1>3 DEF Placed
      <4> QED
        BY <4>1, <3>4 DEF BlocksBefore
    <3>5. CASE n \in 9 .. 8 + Blocks
      <4>1. m = 2 /\ todo[1].cmd = "scatter" /\ todo[1].value = n - 8
        BY <3>5, <2>2, <1>3 DEF Placed
      <4>2. n \in Loading /\ k = n + 1
        BY <4>1, <3>5, FaultsAssumption DEF Loading
      <4>3. \A b \in 1 .. n - 9 : b \in blocks
        BY <4>2, <2>1 DEF BlocksBefore
      <4>4. n - 8 \in blocks
        BY <4>1
      <4>5. \A b \in 1 .. k - 9 : b \in 1 .. n - 9 \/ b = n - 8
        BY <4>2, <3>5, FaultsAssumption
      <4> QED
        BY <4>3, <4>4, <4>5 DEF BlocksBefore
    <3>6. CASE n > 8 + Blocks
      <4>1. k > 9 + Blocks
        BY <3>6, <2>2, <2>3, FaultsAssumption
      <4> QED
        BY <4>1, <2>3, FaultsAssumption DEF BlocksBefore, Loading
    <3>7. n <= 5 \/ n = 6 \/ n = 7 \/ n = 8 \/ n \in 9 .. 8 + Blocks \/ n > 8 + Blocks
      <4>1. n \in Nat /\ Blocks \in Nat
        BY <2>2, FaultsAssumption
      <4> QED
        BY <4>1
    <3> QED
      BY <3>1, <3>2, <3>3, <3>4, <3>5, <3>6, <3>7
  <2> QED
    BY <2>3, <2>5, <1>7, <1>1, <1>4, GoesOn
<1> QED
  BY <1>5, <1>6, <1>7, <1>2

-----------------------------------------------------------------------------
(* The steps, and what boots                                               *)

LEMMA HeadCommand ==
  ASSUME Progress, todo # <<>>
  PROVE  /\ todo[1].cmd = "scatter" => todo[1].value \in 1 .. Blocks
         /\ todo[1].cmd = "boot" => \A b \in 1 .. Blocks : b \in blocks
<1>1. CASE phase = "ready"
  <2>1. Sequence(todo) /\ Harmless(todo)
    BY <1>1 DEF Progress, Harmless
  <2>2. 1 \in DOMAIN todo
    BY <2>1, TailIs
  <2> QED
    BY <2>1, <2>2 DEF Harmless
<1>2. CASE phase = "opening"
  <2>1. PICK n \in DOMAIN OpenBridge : todo = From(n) /\ BlocksBefore(n)
    BY <1>2 DEF Progress, Opening
  <2>2. Placed(n, todo[1]) /\ n \in 1 .. Len(OpenBridge) /\ Len(OpenBridge) \in Nat
    BY <2>1, FromIs, Placement
  <2>3. n \in 9 .. 8 + Blocks => todo[1].value = n - 8
    BY <2>2 DEF Placed
  <2>4. todo[1].cmd = "scatter" => n \in 9 .. 8 + Blocks
    BY <2>2, FaultsAssumption DEF Placed
  <2>5. todo[1].cmd = "boot" => n = 9 + Blocks
    BY <2>2, FaultsAssumption DEF Placed
  <2>6. n = 9 + Blocks => \A b \in 1 .. Blocks : b \in blocks
    BY <2>1, FaultsAssumption DEF BlocksBefore, Loading
  <2> QED
    BY <2>3, <2>4, <2>5, <2>6, FaultsAssumption
<1> QED
  BY <1>1, <1>2 DEF Progress

-----------------------------------------------------------------------------
(* What holds whatever was left over                                       *)

LEMMA OrderedNext ==
  ASSUME IInv, clean', [Next]_vars
  PROVE  Ordered'
<1>1. CASE Replug
  <2>1. /\ in' = <<>> /\ out' = <<>> /\ foreign' = FALSE
        /\ UNCHANGED <<seq, waiting, faults>>
    BY <1>1 DEF Replug, driver
  <2>2. Sequence(<<>>) /\ DOMAIN in' = {} /\ DOMAIN out' = {}
    BY <2>1, EmptyIs
  <2>3. Numbered(in)' /\ Numbered(out)' /\ Sequence(in)' /\ Sequence(out)'
    BY <2>1, <2>2 DEF Numbered, Sequence
  <2>4. Types'
    BY <2>1, <2>3 DEF IInv, Types
  <2> QED
    BY <2>1, <2>2, <2>4 DEF Ordered, InOrder, OlderFirst, AllRecent
<1> SUFFICES ASSUME ~Replug PROVE Ordered'
  BY <1>1
<1>2. Ordered
  <2>1. clean
    BY DEF Next, Send, NotSent, TakeReply, TimesOut, GivenUp, Open, Close, GpioOutput, WriteGpio,
           WriteRead, PurgePsb, Begin, Drain, Obey, vars
  <2> QED
    BY <2>1 DEF IInv
<1>3. CASE Send
  BY <1>2, <1>3, SendStep
<1>4. CASE NotSent
  <2>1. /\ ~waiting /\ faults < MaxFaults /\ faults' = faults + 1 /\ Failure
        /\ (seq' = seq \/ seq' = (seq + 1) % SeqSpace) /\ in' = in /\ foreign' = foreign
    BY <1>4 DEF NotSent
  <2> QED
    BY <2>1, <1>2, FailureIs, LeftBehind
<1>5. CASE TakeReply
  BY <1>2, <1>5, TakeReplyStep
<1>6. CASE TimesOut
  <2>1. /\ faults < MaxFaults /\ faults' = faults + 1 /\ Failure
        /\ seq' = seq /\ in' = in /\ foreign' = foreign
    BY <1>6 DEF TimesOut
  <2> QED
    BY <2>1, <1>2, FailureIs, LeftBehind
<1>7. CASE GivenUp
  <2>1. /\ faults < MaxFaults /\ faults' = faults + 1 /\ waiting' = FALSE
        /\ out' = Kept(out) /\ in' = Kept(in) /\ seq' = seq /\ foreign' = foreign
    BY <1>7 DEF GivenUp, Kept
  <2> QED
    BY <2>1, <1>2, LeftBehind
<1>8. CASE Open
  BY <1>2, <1>8, OpenStep
<1>9. CASE Obey
  BY <1>2, <1>9, ObeyStep
<1>10. CASE Close \/ Drain \/ UNCHANGED vars
  <2>1. UNCHANGED <<seq, waiting, in, out, faults, foreign>>
    BY <1>10 DEF Close, Drain, vars, driver
  <2> QED
    BY <2>1, <1>2, QuietStep
<1>11. CASE WriteRead \/ PurgePsb \/ \E g \in Gpios : GpioOutput(g) \/ WriteGpio(g)
  <2>1. UNCHANGED <<seq, waiting, in, out, faults, foreign>>
    BY <1>11 DEF WriteRead, PurgePsb, GpioOutput, WriteGpio, Begin
  <2> QED
    BY <2>1, <1>2, QuietStep
<1> QED
  BY <1>3, <1>4, <1>5, <1>6, <1>7, <1>8, <1>9, <1>10, <1>11 DEF Next

\* Where a procedure goes on, the driver is not idle; where it ends, all of it.
LEMMA GoOnIdle ==
  ASSUME NEW rest, NEW res, GoOn(rest, res), phase # "closed"
  PROVE  (todo' = <<>> => result' = "ok") /\ (phase' = "closed" => todo' = <<>>)
BY DEF GoOn

LEMMA FailureIdle ==
  ASSUME Failure, phase # "closed"
  PROVE  Idle'
<1>1. \E rest, res : GoOn(rest, res)
  BY DEF Failure
<1>2. waiting' = FALSE
  BY DEF Failure
<1> QED
  BY <1>1, <1>2, GoOnIdle DEF Idle

LEMMA IdleNext ==
  ASSUME Idle, waiting \in BOOLEAN, [Next]_vars
  PROVE  Idle'
<1>1. CASE Send
  BY <1>1 DEF Send, Idle
<1>2. CASE NotSent \/ TimesOut
  BY <1>2, FailureIdle DEF NotSent, TimesOut, Idle
<1>3. CASE TakeReply
  <2>1. phase # "closed"
    BY <1>3 DEF TakeReply, Idle
  <2>2. CASE Failure
    BY <2>1, <2>2, FailureIdle
  <2>3. ASSUME NEW value, Success(value)
        PROVE  Idle'
    <3>1. (\E rest, res : GoOn(rest, res)) /\ waiting' = FALSE
      BY <2>3 DEF Success
    <3> QED
      BY <3>1, <2>1, GoOnIdle DEF Idle
  <2> QED
    BY <1>3, <2>2, <2>3 DEF TakeReply
<1>4. CASE GivenUp \/ Drain
  <2>1. (\E rest, res : GoOn(rest, res)) /\ waiting' = FALSE /\ phase # "closed"
    BY <1>4 DEF GivenUp, Drain, Idle
  <2> QED
    BY <2>1, GoOnIdle DEF Idle
<1>5. CASE Open
  <2>1. OpenBridge # <<>>
    BY Placement, EmptyIs, FaultsAssumption
  <2> QED
    BY <2>1, <1>5 DEF Open, Idle
<1>6. CASE Close \/ UNCHANGED vars \/ Replug \/ Obey
  <2>1. UNCHANGED <<waiting, todo, result>> /\ (phase' = phase \/ todo = <<>>)
    BY <1>6 DEF Close, vars, driver, Replug, Obey
  <2> QED
    BY <2>1 DEF Idle
<1>7. ASSUME NEW procedure, Begin(procedure)
      PROVE  Idle'
  BY <1>7 DEF Begin, Idle
<1>8. CASE WriteRead \/ PurgePsb \/ \E g \in Gpios : GpioOutput(g) \/ WriteGpio(g)
  BY <1>7, <1>8 DEF WriteRead, PurgePsb, GpioOutput, WriteGpio
<1> QED
  BY <1>1, <1>2, <1>3, <1>4, <1>5, <1>6, <1>8 DEF Next

\* The messages are as those of a step before, fewer or given up.
LEMMA TypesNext ==
  ASSUME Types, [Next]_vars
  PROVE  Types'
<1> USE FaultsAssumption DEF Types
<1>1. ASSUME NEW q, NEW r, Sequence(q), Numbered(q), r = q \/ r = Kept(q) \/ r = <<>>
      PROVE  Sequence(r) /\ Numbered(r)
  <2>1. Numbered(<<>>) /\ Sequence(<<>>)
    BY EmptyIs DEF Numbered
  <2>2. Sequence(Kept(q)) /\ Numbered(Kept(q))
    BY <1>1, KeptIs
  <2> QED
    BY <1>1, <2>1, <2>2
<1>2. ASSUME NEW q, Sequence(q), Numbered(q), q # <<>>
      PROVE  Sequence(Tail(q)) /\ Numbered(Tail(q)) /\ Head(q).seq \in 0 .. SeqSpace - 1
             /\ {"seq", "fresh"} \subseteq DOMAIN Head(q)
  BY <1>2, TailIs DEF Numbered
<1>3. ASSUME NEW q, Sequence(q), Numbered(q), NEW m, {"seq", "fresh"} \subseteq DOMAIN m,
             m.seq \in 0 .. SeqSpace - 1
      PROVE  Sequence(Append(q, m)) /\ Numbered(Append(q, m))
  <2>1. /\ Sequence(Append(q, m)) /\ DOMAIN Append(q, m) = 1 .. Len(q) + 1
        /\ \A i \in 1 .. Len(q) : Append(q, m)[i] = q[i]
        /\ Append(q, m)[Len(q) + 1] = m /\ DOMAIN q = 1 .. Len(q) /\ Len(q) \in Nat
    BY <1>3, AppendIs, SeqIs
  <2> QED
    BY <2>1, <1>3 DEF Numbered
<1>4. ASSUME Sequence(in') /\ Numbered(in'), Sequence(out') /\ Numbered(out'),
             seq' \in 0 .. SeqSpace - 1, faults' \in 0 .. MaxFaults,
             waiting' \in BOOLEAN, foreign' \in BOOLEAN
      PROVE  Types'
  <2>1. Sequence(in)' /\ Numbered(in)' /\ Sequence(out)' /\ Numbered(out)'
    BY <1>4 DEF Sequence, Numbered
  <2> QED
    BY <1>4, <2>1
<1>5. (seq + 1) % SeqSpace \in 0 .. SeqSpace - 1
  BY JustUsed
<1>6. CASE Send
  <2>1. \E m : out' = Append(out, m) /\ m.seq = seq /\ {"seq", "fresh"} \subseteq DOMAIN m
    BY <1>6 DEF Send
  <2>2. Sequence(out') /\ Numbered(out')
    BY <2>1, <1>3
  <2> QED
    BY <1>4, <1>5, <1>6, <2>2 DEF Send
<1>7. CASE NotSent \/ TimesOut
  <2>1. /\ waiting' = FALSE /\ out' = Kept(out) /\ in' = in /\ foreign' = foreign
        /\ seq' = seq \/ seq' = (seq + 1) % SeqSpace
        /\ faults < MaxFaults /\ faults' = faults + 1
    BY <1>7, FailureIs DEF NotSent, TimesOut
  <2>2. Sequence(in') /\ Numbered(in') /\ Sequence(out') /\ Numbered(out')
    <3>1. Sequence(in) /\ Numbered(in) /\ Sequence(out) /\ Numbered(out)
      OBVIOUS
    <3> QED
      BY <2>1, <3>1, KeptIs
  <2>3. faults' \in 0 .. MaxFaults /\ seq' \in 0 .. SeqSpace - 1 /\ foreign' \in BOOLEAN
    BY <1>5, <2>1
  <2>4. waiting' \in BOOLEAN
    BY <2>1
  <2> QED
    BY <1>4, <2>2, <2>3, <2>4
<1>8. CASE TakeReply
  <2>1. /\ in # <<>> /\ in' = Kept(Tail(in)) /\ UNCHANGED <<seq, faults>>
        /\ waiting' = FALSE /\ (out' = out \/ out' = Kept(out)) /\ foreign' \in BOOLEAN
    BY <1>8, FailureIs DEF TakeReply, Success, Kept
  <2>2. Sequence(in') /\ Numbered(in') /\ Sequence(out') /\ Numbered(out')
    BY <2>1, <1>1, <1>2
  <2> QED
    BY <1>4, <2>1, <2>2
<1>9. CASE GivenUp
  <2>1. /\ waiting' = FALSE /\ out' = Kept(out) /\ in' = Kept(in)
        /\ seq' = seq /\ foreign' = foreign /\ faults < MaxFaults /\ faults' = faults + 1
    BY <1>9 DEF GivenUp, Kept
  <2>2. Sequence(in') /\ Numbered(in') /\ Sequence(out') /\ Numbered(out')
    <3>1. Sequence(in) /\ Numbered(in) /\ Sequence(out) /\ Numbered(out)
      OBVIOUS
    <3> QED
      BY <2>1, <3>1, KeptIs
  <2>3. faults' \in 0 .. MaxFaults /\ seq' \in 0 .. SeqSpace - 1 /\ foreign' \in BOOLEAN
    BY <1>5, <2>1
  <2>4. waiting' \in BOOLEAN
    BY <2>1
  <2> QED
    BY <1>4, <2>2, <2>3, <2>4
<1>10. CASE Obey
  <2> DEFINE c == Head(out)
  <2>1. /\ out # <<>> /\ out' = Tail(out) /\ UNCHANGED <<waiting, seq, foreign>>
        /\ faults' = faults \/ (faults < MaxFaults /\ faults' = faults + 1)
    BY <1>10 DEF Obey, driver
  <2>2. \/ in' = in
        \/ \E m : /\ in' = Append(in, m) /\ {"seq", "fresh"} \subseteq DOMAIN m
                  /\ m.seq = c.seq
    BY <1>10 DEF Obey, Reply
  <2>3. c.seq \in 0 .. SeqSpace - 1
    BY <1>2, <2>1
  <2>4. Sequence(in') /\ Numbered(in')
    BY <2>2, <2>3, <1>3
  <2>5. Sequence(out') /\ Numbered(out')
    BY <1>2, <2>1
  <2> QED
    BY <1>4, <2>1, <2>4, <2>5
<1>11. CASE Open \/ Replug
  <2>1. /\ in' = in \/ in' = <<>>
        /\ out' = out \/ out' = <<>>
        /\ seq' = seq \/ seq' = 0
        /\ faults' = faults \/ faults' = 0
        /\ waiting' = waiting /\ foreign' \in BOOLEAN
    BY <1>11 DEF Open, Replug, driver
  <2> QED
    BY <1>1, <1>4, <2>1
<1>12. CASE Close \/ Drain \/ UNCHANGED vars
  BY <1>4, <1>12 DEF Close, Drain, vars, driver
<1>13. CASE WriteRead \/ PurgePsb \/ \E g \in Gpios : GpioOutput(g) \/ WriteGpio(g)
  BY <1>4, <1>13 DEF WriteRead, PurgePsb, GpioOutput, WriteGpio, Begin
<1> QED
  BY <1>6, <1>7, <1>8, <1>9, <1>10, <1>11, <1>12, <1>13 DEF Next

\* A reply that is taken as its own leaves nothing on the way to the bridge.
LEMMA OwnIsLast ==
  ASSUME IInv, ~foreign, TakeReply, ~foreign', Accepted(Head(in))
  PROVE  Head(in) = in[1] /\ 1 \in DOMAIN in /\ in[1].fresh /\ DOMAIN out = {}
<1>1. in # <<>> /\ Head(in).fresh
  BY DEF TakeReply, IInv, Types
<1>2. Head(in) = in[1] /\ 1 \in DOMAIN in
  BY <1>1, TailIs DEF IInv, Types
<1> QED
  BY <1>1, <1>2 DEF IInv, Fresh

LEMMA FreshNext ==
  ASSUME IInv, ~foreign, ~foreign', [Next]_vars
  PROVE  Fresh'
<1> USE DEF IInv, Types
<1>1. ASSUME \A j \in DOMAIN out' : out'[j].fresh = FALSE,
             \A i \in DOMAIN in' : in'[i].fresh = FALSE
      PROVE  Fresh'
  BY <1>1 DEF Fresh
<1>2. /\ \A j \in DOMAIN Kept(out) : Kept(out)[j].fresh = FALSE
      /\ \A i \in DOMAIN Kept(in) : Kept(in)[i].fresh = FALSE
  BY KeptIs
<1>3. Fresh
  OBVIOUS
<1>4. CASE Send
  <2>1. PICK m : out' = Append(out, m)
    BY <1>4 DEF Send
  <2>2. ~waiting /\ waiting' = TRUE /\ in' = in
    BY <1>4 DEF Send
  <2>3. /\ DOMAIN out' = 1 .. Len(out) + 1 /\ Len(out) \in Nat /\ DOMAIN out = 1 .. Len(out)
        /\ \A i \in 1 .. Len(out) : out'[i] = out[i]
        /\ Len(out') = Len(out) + 1
    BY <2>1, AppendIs, SeqIs
  <2>4. \A j \in DOMAIN out' : out'[j].fresh => waiting' /\ j = Len(out')
    BY <2>2, <2>3, <1>3 DEF Fresh
  <2>5. \A i \in DOMAIN in' : ~in'[i].fresh
    BY <2>2, <1>3 DEF Fresh
  <2> QED
    BY <2>4, <2>5 DEF Fresh
<1>5. CASE NotSent \/ TimesOut
  <2>1. out' = Kept(out) /\ waiting' = FALSE /\ in' = in /\ (~waiting \/ DOMAIN in = {})
    BY <1>5, FailureIs, EmptyIs DEF NotSent, TimesOut
  <2> QED
    BY <2>1, <1>2, <1>3 DEF Fresh
<1>6. CASE TakeReply
  <2>1. in # <<>> /\ in' = Kept(Tail(in)) /\ waiting' = FALSE
    BY <1>6, FailureIs DEF TakeReply, Kept, Success
  <2>2. Sequence(Tail(in)) /\ Numbered(Tail(in))
    BY <2>1, TailIs DEF Numbered
  <2>3. \A i \in DOMAIN in' : in'[i].fresh = FALSE
    BY <2>1, <2>2, KeptIs
  <2>4. CASE out' = Kept(out)
    BY <2>4, <2>3, <1>1, <1>2
  <2>5. CASE Accepted(Head(in)) /\ out' = out
    <3>1. DOMAIN out = {}
      BY <2>5, <1>6, OwnIsLast
    <3> QED
      BY <3>1, <2>5, <2>3, <1>1
  <2> QED
    BY <2>4, <2>5, <1>6, FailureIs DEF TakeReply, Success
<1>7. CASE GivenUp
  BY <1>1, <1>2, <1>7 DEF GivenUp, Kept
<1>8. CASE Obey
  <2>1. out # <<>> /\ out' = Tail(out) /\ waiting' = waiting
    BY <1>8 DEF Obey, driver
  <2>2. /\ DOMAIN out' = 1 .. Len(out) - 1 /\ \A i \in 1 .. Len(out) - 1 : out'[i] = out[i + 1]
        /\ Head(out) = out[1] /\ 1 \in DOMAIN out /\ Len(out) \in Nat \ {0}
        /\ DOMAIN out = 1 .. Len(out) /\ Len(out') = Len(out) - 1
    BY <2>1, TailIs
  <2>3. \A j \in DOMAIN out' : out'[j].fresh => waiting' /\ j = Len(out')
    <3> TAKE j \in DOMAIN out'
    <3>1. j + 1 \in DOMAIN out /\ out'[j] = out[j + 1] /\ j \in Nat
      BY <2>2
    <3>2. out[j + 1].fresh => waiting /\ j + 1 = Len(out)
      BY <3>1, <1>3 DEF Fresh
    <3> QED
      BY <3>1, <3>2, <2>1, <2>2
  <2>4. \A i \in DOMAIN in : ~in[i].fresh
    BY <2>2, <1>3 DEF Fresh
  <2>5. out[1].fresh => waiting' /\ DOMAIN out' = {}
    <3>1. out[1].fresh => waiting /\ 1 = Len(out)
      BY <2>2, <1>3 DEF Fresh
    <3> QED
      BY <3>1, <2>1, <2>2
  <2>6. in' = in \/ \E m : in' = Append(in, m) /\ m.fresh = out[1].fresh
    BY <1>8, <2>2 DEF Obey, Reply
  <2>7. \A i \in DOMAIN in' : in'[i].fresh => waiting' /\ DOMAIN out' = {}
    <3>1. CASE in' = in
      BY <3>1, <2>4
    <3>2. ASSUME NEW m, in' = Append(in, m), m.fresh = out[1].fresh
          PROVE  \A i \in DOMAIN in' : in'[i].fresh => waiting' /\ DOMAIN out' = {}
      <4>1. /\ DOMAIN in' = 1 .. Len(in) + 1 /\ \A i \in 1 .. Len(in) : in'[i] = in[i]
            /\ in'[Len(in) + 1] = m /\ DOMAIN in = 1 .. Len(in) /\ Len(in) \in Nat
        BY <3>2, AppendIs, SeqIs
      <4> QED
        BY <4>1, <3>2, <2>4, <2>5
    <3> QED
      BY <3>1, <3>2, <2>6
  <2> QED
    BY <2>3, <2>7 DEF Fresh
<1>9. CASE Replug
  <2>1. in' = <<>> /\ out' = <<>>
    BY <1>9 DEF Replug
  <2>2. DOMAIN in' = {} /\ DOMAIN out' = {}
    BY <2>1, EmptyIs
  <2> QED
    BY <2>2, <1>1
<1>10. CASE Open \/ Close \/ Drain \/ UNCHANGED vars
  <2>1. UNCHANGED <<waiting, in, out>>
    BY <1>10 DEF Open, Close, Drain, vars, driver
  <2> QED
    BY <2>1, <1>3 DEF Fresh
<1>11. CASE WriteRead \/ PurgePsb \/ \E g \in Gpios : GpioOutput(g) \/ WriteGpio(g)
  <2>1. UNCHANGED <<waiting, in, out>>
    BY <1>11 DEF WriteRead, PurgePsb, GpioOutput, WriteGpio, Begin
  <2> QED
    BY <2>1, <1>3 DEF Fresh
<1> QED
  BY <1>4, <1>5, <1>6, <1>7, <1>8, <1>9, <1>10, <1>11 DEF Next

\* Only plugging it in again makes up for a reply that was taken for another.
LEMMA ForeignStays ==
  ASSUME [Next]_vars, ~foreign'
  PROVE  ~foreign \/ Replug
BY DEF Next, Send, NotSent, TakeReply, TimesOut, GivenUp, Open, Close, GpioOutput, WriteGpio,
       WriteRead, PurgePsb, Begin, Drain, Obey, vars

LEMMA NextStep ==
  ASSUME IInv, [Next]_vars
  PROVE  IInv'
<1>1. Types' /\ Idle'
  BY TypesNext, IdleNext DEF IInv, Types
<1>2. clean' => Ordered'
  BY OrderedNext
<1>3. ~foreign' => Fresh'
  <2> HAVE ~foreign'
  <2>1. CASE Replug
    <3>1. in' = <<>> /\ out' = <<>>
      BY <2>1 DEF Replug
    <3>2. DOMAIN in' = {} /\ DOMAIN out' = {}
      BY <3>1, EmptyIs
    <3> QED
      BY <3>2 DEF Fresh
  <2>2. CASE ~foreign
    BY <2>2, FreshNext
  <2> QED
    BY <2>1, <2>2, ForeignStays
<1> QED
  BY <1>1, <1>2, <1>3 DEF IInv

-----------------------------------------------------------------------------
(* What boots, at every step                                               *)

LEMMA LoadInit == Init => LoadInv
<1> SUFFICES ASSUME Init PROVE LoadInv
  OBVIOUS
<1>1. /\ phase = "closed" /\ todo = <<>> /\ waiting = FALSE /\ blocks = {} /\ fw = "none"
      /\ in = <<>> /\ out = <<>>
  BY DEF Init
<1>2. DOMAIN in = {} /\ DOMAIN out = {}
  BY <1>1, EmptyIs
<1> QED
  BY <1>1, <1>2 DEF LoadInv, Progress

\* Where nothing is waited for any more, nothing is fresh.
LEMMA NothingFresh ==
  ASSUME LoadInv, Progress', UNCHANGED <<blocks, fw, whole>>,
         Numbered(out), out' = Kept(out) \/ DOMAIN out' = {},
         \A i \in DOMAIN in' : in'[i].fresh = FALSE
  PROVE  LoadInv'
<1>1. \A j \in DOMAIN out' : /\ out'[j].fresh = FALSE
                             /\ {"cmd", "value"} \subseteq DOMAIN out'[j]
                             /\ j \in DOMAIN out
                             /\ out'[j].cmd = out[j].cmd /\ out'[j].value = out[j].value
  BY DEF Kept, Numbered, LoadInv, Sane
<1>2. \A j \in DOMAIN out' : Sane(out[j])' /\ Current(out[j])' /\ ~out'[j].fresh
  BY <1>1 DEF LoadInv, Sane, Current
<1>3. \A i \in DOMAIN in' : Current(in[i])' /\ ~in'[i].fresh
  BY DEF Current
<1>4. (fw = "running" => whole)'
  BY DEF LoadInv
<1>5. (\A b \in blocks : b \in 1 .. Blocks)'
  BY DEF LoadInv
<1> QED
  BY <1>2, <1>3, <1>4, <1>5 DEF LoadInv

LEMMA SendLoad ==
  ASSUME IInv, LoadInv, Send
  PROVE  LoadInv'
<1> DEFINE c == todo[1]
<1>1. /\ todo # <<>> /\ ~waiting /\ waiting' = TRUE /\ c.cmd # "drain"
      /\ UNCHANGED <<phase, todo, blocks, fw, whole, in>> /\ seq' = (seq + 1) % SeqSpace
  BY DEF Send, bridge
<1>2. PICK m : /\ out' = Append(out, m) /\ {"cmd", "value"} \subseteq DOMAIN m
               /\ m.cmd = c.cmd /\ (c.cmd # "merge" => m.value = c.value) /\ m.seq = seq
  BY DEF Send
<1>3. /\ DOMAIN out' = 1 .. Len(out) + 1 /\ \A i \in 1 .. Len(out) : out'[i] = out[i]
      /\ out'[Len(out) + 1] = m /\ DOMAIN out = 1 .. Len(out) /\ Len(out) \in Nat
  BY <1>2, AppendIs, SeqIs DEF IInv, Types
<1>4. Progress'
  <2>1. Opening' = Opening /\ Harmless(todo)' = Harmless(todo)
    BY <1>1 DEF Opening, BlocksBefore, Harmless, Sequence
  <2>2. phase # "closed"
    BY <1>1 DEF LoadInv, Progress
  <2> QED
    BY <2>1, <2>2, <1>1 DEF LoadInv, Progress
<1>5. Sane(m) /\ Sane(m)'
  <2>1. /\ c.cmd = "scatter" => c.value \in 1 .. Blocks
        /\ c.cmd = "boot" => \A b \in 1 .. Blocks : b \in blocks
    BY <1>1, HeadCommand DEF LoadInv
  <2> QED
    BY <2>1, <1>1, <1>2 DEF Sane
<1>6. waiting' /\ Back(m.seq, seq') = 0
  BY <1>1, <1>2, JustUsed DEF IInv, Types
<1>7. \A j \in 1 .. Len(out) : ~out[j].fresh /\ Sane(out[j])
  BY <1>1, <1>3 DEF LoadInv, Current
<1>8. \A i \in DOMAIN in : ~in[i].fresh
  BY <1>1 DEF LoadInv, Current
<1>9. \A j \in DOMAIN out' :
        /\ Sane(out[j])' /\ Current(out[j])'
        /\ out'[j].fresh /\ c.cmd = "scatter" => out'[j].cmd = "scatter" /\ out'[j].value = c.value
  <2> TAKE j \in DOMAIN out'
  <2>1. CASE j \in 1 .. Len(out)
    <3>1. out'[j] = out[j] /\ ~out[j].fresh /\ Sane(out[j])
      BY <2>1, <1>3, <1>7
    <3> QED
      BY <3>1, <1>1 DEF Sane, Current
  <2>2. CASE j = Len(out) + 1
    <3>1. out'[j] = m
      BY <2>2, <1>3
    <3> QED
      BY <3>1, <1>2, <1>5, <1>6 DEF Sane, Current, Age
  <2> QED
    BY <2>1, <2>2, <1>3
<1>10. \A i \in DOMAIN in' : Current(in[i])' /\ ~in'[i].fresh
  BY <1>1, <1>8 DEF Current
<1> QED
  BY <1>1, <1>4, <1>9, <1>10 DEF LoadInv

LEMMA TakeReplyLoad ==
  ASSUME IInv, LoadInv, ~foreign, ~foreign', TakeReply
  PROVE  LoadInv'
<1>1. /\ waiting /\ todo # <<>> /\ in # <<>> /\ in' = Kept(Tail(in))
      /\ UNCHANGED <<blocks, fw, whole>>
  BY DEF TakeReply, Kept, LoadInv, Progress, bridge
<1>2. /\ Sequence(Tail(in)) /\ DOMAIN Tail(in) = 1 .. Len(in) - 1
      /\ \A i \in 1 .. Len(in) - 1 : Tail(in)[i] = in[i + 1]
      /\ Head(in) = in[1] /\ 1 \in DOMAIN in /\ Len(in) \in Nat \ {0}
      /\ DOMAIN in = 1 .. Len(in)
  BY <1>1, TailIs DEF IInv, Types
<1>3. \A i \in DOMAIN in' : in'[i].fresh = FALSE
  <2>1. \A i \in 1 .. Len(in) - 1 : i + 1 \in DOMAIN in
    BY <1>2
  <2>2. \A i \in 1 .. Len(in) - 1 : "fresh" \in DOMAIN Tail(in)[i]
    BY <2>1, <1>2 DEF IInv, Types, Numbered
  <2>3. \A i \in DOMAIN Kept(Tail(in)) : Kept(Tail(in))[i].fresh = FALSE
    BY <2>2, <1>2 DEF Kept
  <2> QED
    BY <2>3, <1>1
<1>4. CASE Failure
  <2>1. Progress'
    BY <1>1, <1>4, FailureProgress DEF LoadInv
  <2>2. out' = Kept(out) /\ Numbered(out)
    BY <1>4, FailureIs DEF IInv, Types
  <2> QED
    BY <2>1, <2>2, <1>1, <1>3, NothingFresh
<1>5. CASE Accepted(in[1]) /\ Success(in[1].value)
  <2>1. in[1].ok
    BY <1>5 DEF Accepted
  <2>3. in[1].fresh /\ DOMAIN out = {}
    BY <1>2, <1>5, OwnIsLast
  <2>4. todo[1].cmd = "scatter" => todo[1].value \in blocks
    BY <2>1, <2>3, <1>2 DEF LoadInv
  <2>5. Progress'
    BY <2>4, <1>1, <1>5, SuccessProgress DEF LoadInv
  <2>6. DOMAIN out' = {}
    BY <2>3, <1>5 DEF Success
  <2>7. Numbered(out)
    BY DEF IInv, Types
  <2> QED
    BY <2>5, <2>6, <2>7, <1>1, <1>3, NothingFresh
<1> QED
  BY <1>2, <1>4, <1>5 DEF TakeReply

LEMMA ObeyLoad ==
  ASSUME IInv, LoadInv, Obey
  PROVE  LoadInv'
<1> DEFINE c == Head(out)
<1>1. out # <<>> /\ out' = Tail(out) /\ UNCHANGED <<phase, todo, waiting, seq>>
  BY DEF Obey, driver
<1>2. /\ DOMAIN out' = 1 .. Len(out) - 1 /\ \A i \in 1 .. Len(out) - 1 : out'[i] = out[i + 1]
      /\ c = out[1] /\ 1 \in DOMAIN out /\ Len(out) \in Nat \ {0} /\ DOMAIN out = 1 .. Len(out)
  BY <1>1, TailIs DEF IInv, Types
<1>3. /\ Sane(c) /\ Current(c)
      /\ c.fresh /\ todo[1].cmd = "scatter" => c.cmd = "scatter" /\ c.value = todo[1].value
  BY <1>2 DEF LoadInv
<1>4. \/ Effect(c) /\ in' = Reply(c, TRUE)
      \/ (Effect(c) \/ UNCHANGED bridge) /\ (in' = Reply(c, FALSE) \/ in' = in)
  BY DEF Obey
<1>5. Effect(c) \/ UNCHANGED bridge
  BY <1>4
<1>6. /\ \A b \in blocks : b \in blocks'
      /\ \A b \in blocks' : b \in 1 .. Blocks
      /\ Effect(c) /\ c.cmd = "scatter" => c.value \in blocks'
  BY <1>3, <1>5 DEF Effect, bridge, LoadInv, Sane
<1>7. (fw = "running" => whole)'
  <2>1. CASE UNCHANGED bridge
    BY <2>1 DEF LoadInv, bridge
  <2>2. CASE Effect(c)
    <3>1. CASE c.cmd = "boot"
      <4>1. blocks = 1 .. Blocks
        BY <3>1, <1>3 DEF Sane, LoadInv
      <4> QED
        BY <4>1, <3>1, <2>2 DEF Effect
    <3>2. CASE c.cmd # "boot"
      BY <3>2, <2>2 DEF Effect, LoadInv
    <3> QED
      BY <3>1, <3>2
  <2> QED
    BY <2>1, <2>2, <1>5
<1>8. Progress'
  <2>1. Opening => Opening'
    BY <1>1, <1>6 DEF Opening, BlocksBefore
  <2>2. Harmless(todo) => Harmless(todo)'
    BY <1>1 DEF Harmless, Sequence
  <2> QED
    BY <2>1, <2>2, <1>1 DEF LoadInv, Progress
<1>9. \A m : (Sane(m) => Sane(m)') /\ (Current(m) => Current(m)')
  BY <1>1, <1>6 DEF Sane, Current, Age
<1>10. \A j \in DOMAIN out' :
         /\ Sane(out[j])' /\ Current(out[j])'
         /\ out'[j].fresh /\ todo'[1].cmd = "scatter" =>
              out'[j].cmd = "scatter" /\ out'[j].value = todo'[1].value
  <2> TAKE j \in DOMAIN out'
  <2>1. j \in 1 .. Len(out) - 1 /\ j + 1 \in DOMAIN out /\ out'[j] = out[j + 1]
    BY <1>2
  <2>2. /\ Sane(out[j + 1]) /\ Current(out[j + 1])
        /\ out[j + 1].fresh /\ todo[1].cmd = "scatter" =>
             out[j + 1].cmd = "scatter" /\ out[j + 1].value = todo[1].value
    BY <2>1 DEF LoadInv
  <2>3. Sane(out[j])' /\ Current(out[j])'
    BY <2>1, <2>2, <1>1, <1>6 DEF Sane, Current, Age
  <2> QED
    BY <2>1, <2>2, <2>3, <1>1
<1>11. \A i \in DOMAIN in :
         /\ in[i].fresh => waiting' /\ Back(in[i].seq, seq') = 0
         /\ in[i].fresh /\ in[i].ok /\ todo'[1].cmd = "scatter" => todo'[1].value \in blocks'
  BY <1>1, <1>6 DEF LoadInv, Current, Age
<1>12. \A i \in DOMAIN in' :
         /\ in'[i].fresh => waiting' /\ Back(in'[i].seq, seq') = 0
         /\ in'[i].fresh /\ in'[i].ok /\ todo'[1].cmd = "scatter" => todo'[1].value \in blocks'
  <2>1. CASE in' = in
    BY <2>1, <1>11
  <2>2. ASSUME NEW ok \in BOOLEAN, in' = Reply(c, ok), ok => Effect(c)
        PROVE  \A i \in DOMAIN in' :
                 /\ in'[i].fresh => waiting' /\ Back(in'[i].seq, seq') = 0
                 /\ in'[i].fresh /\ in'[i].ok /\ todo'[1].cmd = "scatter" => todo'[1].value \in blocks'
    <3>1. PICK m : in' = Append(in, m) /\ m.seq = c.seq /\ m.ok = ok /\ m.fresh = c.fresh
      BY <2>2 DEF Reply
    <3>2. /\ DOMAIN in' = 1 .. Len(in) + 1 /\ \A i \in 1 .. Len(in) : in'[i] = in[i]
          /\ in'[Len(in) + 1] = m /\ DOMAIN in = 1 .. Len(in) /\ Len(in) \in Nat
      BY <3>1, AppendIs, SeqIs DEF IInv, Types
    <3>3. m.fresh => waiting' /\ Back(m.seq, seq') = 0
      BY <3>1, <1>1, <1>3 DEF Current, Age
    <3>4. m.fresh /\ m.ok /\ todo'[1].cmd = "scatter" => todo'[1].value \in blocks'
      BY <3>1, <2>2, <1>1, <1>3, <1>6
    <3> TAKE i \in DOMAIN in'
    <3>5. CASE i \in 1 .. Len(in)
      BY <3>5, <3>2, <1>11
    <3>6. CASE i = Len(in) + 1
      BY <3>6, <3>2, <3>3, <3>4
    <3> QED
      BY <3>2, <3>5, <3>6
  <2>3. \/ in' = in
        \/ in' = Reply(c, TRUE) /\ Effect(c)
        \/ in' = Reply(c, FALSE)
    BY <1>4
  <2> QED
    BY <2>1, <2>2, <2>3
<1> QED
  BY <1>6, <1>7, <1>8, <1>10, <1>12 DEF LoadInv, Current, Age

\* A procedure of an open bridge loads no firmware.
LEMMA HarmlessOnes ==
  /\ \A g : /\ Harmless((IF g \in gpioOut THEN <<>> ELSE W(<<"mode", g>>, 1))
                        \o (IF g \in gpioOn THEN <<>> ELSE W(<<"on", g>>, 1)))
            /\ \A high : Harmless(W(<<"level", g>>, high))
  /\ Harmless(Ctrl("i2c_write", 0, "fail") \o Ctrl("i2c_read", 0, "fail"))
  /\ Harmless(Masked("da1d", 1, "fail") \o Ctrl("drain", 0, "ignore") \o Masked("da1d", 0, "ignore"))
<1>1. \A cmd, reg, value, or : cmd \notin {"scatter", "boot"} /\ or \in Outcomes =>
                                 Harmless(Cmd(cmd, reg, value, or))
  BY OneIs DEF Harmless, Cmd
<1>2. "fail" \in Outcomes /\ "ignore" \in Outcomes
  BY DEF Outcomes
<1>3. Harmless(<<>>)
  BY EmptyIs DEF Harmless
<1>4. \A reg, value : Harmless(W(reg, value))
  BY <1>1, <1>2 DEF W
<1>5. \A g : Harmless((IF g \in gpioOut THEN <<>> ELSE W(<<"mode", g>>, 1))
                      \o (IF g \in gpioOn THEN <<>> ELSE W(<<"on", g>>, 1)))
  <2> TAKE g
  <2>1. Harmless(IF g \in gpioOut THEN <<>> ELSE W(<<"mode", g>>, 1))
    BY <1>3, <1>4
  <2>2. Harmless(IF g \in gpioOn THEN <<>> ELSE W(<<"on", g>>, 1))
    BY <1>3, <1>4
  <2> QED
    BY <2>1, <2>2, HarmlessBoth
<1>6. Harmless(Ctrl("i2c_write", 0, "fail")) /\ Harmless(Ctrl("i2c_read", 0, "fail"))
      /\ Harmless(Ctrl("drain", 0, "ignore"))
  BY <1>1, <1>2 DEF Ctrl
<1>7. Harmless(Masked("da1d", 1, "fail")) /\ Harmless(Masked("da1d", 0, "ignore"))
  BY <1>1, <1>2, HarmlessBoth DEF Masked
<1> QED
  BY <1>4, <1>5, <1>6, <1>7, HarmlessBoth

LEMMA BeginLoad ==
  ASSUME IInv, LoadInv, NEW procedure, Harmless(procedure), Begin(procedure)
  PROVE  LoadInv'
<1>1. /\ phase = "ready" /\ todo = <<>> /\ todo' = procedure
      /\ UNCHANGED <<phase, waiting, seq, blocks, fw, whole, in, out>>
  BY DEF Begin, bridge
<1>2. ~waiting
  BY <1>1 DEF LoadInv, Progress
<1>3. Progress'
  <2>1. Harmless(todo')
    BY <1>1
  <2>2. Harmless(todo)'
    BY <2>1 DEF Harmless, Sequence
  <2> QED
    BY <2>2, <1>1, <1>2 DEF Progress
<1>4. /\ \A j \in DOMAIN out : ~out[j].fresh /\ Sane(out[j])
      /\ \A i \in DOMAIN in : ~in[i].fresh
  BY <1>2 DEF LoadInv, Current
<1>5. /\ \A j \in DOMAIN out' : ~out'[j].fresh /\ Sane(out[j])' /\ Current(out[j])'
      /\ \A i \in DOMAIN in' : ~in'[i].fresh /\ Current(in[i])'
  BY <1>1, <1>4 DEF Sane, Current
<1> QED
  BY <1>1, <1>3, <1>5 DEF LoadInv

LEMMA DrainLoad ==
  ASSUME IInv, LoadInv, Drain
  PROVE  LoadInv'
<1>1. /\ todo # <<>> /\ todo[1].cmd = "drain"
      /\ UNCHANGED <<waiting, seq, blocks, fw, whole, in, out>>
  BY DEF Drain, bridge
<1>2. \E rest, res : rest \in {Tail(todo), <<>>} /\ GoOn(rest, res)
  <2>1. (\E r \in {"ok", "failed"} : GoOn(Tail(todo), r)) \/ GoOn(<<>>, "failed")
    BY DEF Drain
  <2>2. CASE \E r \in {"ok", "failed"} : GoOn(Tail(todo), r)
    <3>1. PICK r \in {"ok", "failed"} : GoOn(Tail(todo), r)
      BY <2>2
    <3> DEFINE rest == Tail(todo)
    <3>2. rest \in {Tail(todo), <<>>} /\ GoOn(rest, r)
      BY <3>1
    <3> HIDE DEF rest
    <3> QED
      BY <3>2
  <2>3. CASE GoOn(<<>>, "failed")
    <3>1. <<>> \in {Tail(todo), <<>>} /\ GoOn(<<>>, "failed")
      BY <2>3
    <3> QED
      BY <3>1
  <2> QED
    BY <2>1, <2>2, <2>3
<1>3. ~waiting /\ waiting' = FALSE
  <2>1. waiting => todo[1].cmd # "drain"
    BY DEF LoadInv, Progress
  <2>2. waiting \in BOOLEAN
    BY DEF IInv, Types
  <2> QED
    BY <2>1, <2>2, <1>1
<1>4. phase = "ready"
  <2>1. CASE phase = "opening"
    <3>1. PICK n \in DOMAIN OpenBridge : todo = From(n) /\ BlocksBefore(n)
      BY <2>1 DEF LoadInv, Progress, Opening
    <3>2. Placed(n, todo[1]) /\ n \in 1 .. Len(OpenBridge) /\ Len(OpenBridge) \in Nat
      BY <3>1, FromIs, Placement
    <3> QED
      BY <3>2, <1>1, FaultsAssumption DEF Placed
  <2> QED
    BY <2>1, <1>1, AtHead DEF LoadInv
<1>5. Progress'
  <2>1. Harmless(todo) /\ Sequence(todo)
    BY <1>4 DEF LoadInv, Progress, Harmless
  <2>2. Tail(todo) = SubSeq(todo, 2, Len(todo)) /\ 2 \in 1 .. Len(todo) + 1
    BY <2>1, <1>1, TailIsRest
  <2>3. Harmless(Tail(todo))
    BY <2>1, <2>2, HarmlessRest
  <2> QED
    BY <2>3, <1>1, <1>2, <1>3, <1>4, GoesOn DEF LoadInv
<1>6. /\ \A j \in DOMAIN out : ~out[j].fresh /\ Sane(out[j])
      /\ \A i \in DOMAIN in : ~in[i].fresh
  BY <1>3 DEF LoadInv, Current
<1>7. /\ \A j \in DOMAIN out' : ~out'[j].fresh /\ Sane(out[j])' /\ Current(out[j])'
      /\ \A i \in DOMAIN in' : ~in'[i].fresh /\ Current(in[i])'
  BY <1>1, <1>6 DEF Sane, Current
<1> QED
  BY <1>1, <1>5, <1>7 DEF LoadInv

LEMMA OpenLoad ==
  ASSUME IInv, LoadInv, Open
  PROVE  LoadInv'
<1>1. /\ phase = "closed" /\ phase' = "opening" /\ todo' = OpenBridge
      /\ UNCHANGED <<in, out, waiting, blocks, fw, whole>>
  BY DEF Open, bridge
<1>2. ~waiting
  BY <1>1 DEF LoadInv, Progress
<1>3. Sequence(OpenBridge) /\ 1 \in DOMAIN OpenBridge
  BY Placement, FaultsAssumption
<1>4. OpenBridge = From(1)
  <2>1. OpenBridge \in Seq({OpenBridge[i] : i \in DOMAIN OpenBridge})
    BY <1>3 DEF Sequence
  <2> QED
    BY <2>1, SubSeqFull DEF From
<1>5. Opening'
  <2>1. BlocksBefore(1)'
    BY FaultsAssumption DEF BlocksBefore, Loading
  <2> QED
    BY <2>1, <1>1, <1>3, <1>4 DEF Opening
<1>6. Progress'
  BY <1>1, <1>2, <1>5 DEF Progress
<1>7. /\ \A j \in DOMAIN out' : Sane(out[j])' /\ Current(out[j])' /\ ~out'[j].fresh
      /\ \A i \in DOMAIN in' : Current(in[i])' /\ ~in'[i].fresh
  BY <1>1, <1>2 DEF LoadInv, Sane, Current
<1> QED
  BY <1>1, <1>6, <1>7 DEF LoadInv, Open

LEMMA ReplugLoad ==
  ASSUME IInv, Replug
  PROVE  LoadInv'
<1>1. /\ phase = "closed" /\ in' = <<>> /\ out' = <<>> /\ fw' = "none" /\ blocks' = {}
      /\ UNCHANGED <<phase, todo, waiting>>
  BY DEF Replug, driver
<1>2. ~waiting /\ todo = <<>>
  BY <1>1 DEF IInv, Idle
<1>3. DOMAIN out' = {} /\ DOMAIN in' = {}
  BY <1>1, EmptyIs
<1>4. Progress'
  BY <1>1, <1>2 DEF Progress
<1> QED
  BY <1>1, <1>3, <1>4 DEF LoadInv

LEMMA GivenUpLoad ==
  ASSUME IInv, LoadInv, GivenUp
  PROVE  LoadInv'
<1>1. /\ todo # <<>> /\ GoOn(<<>>, "failed") /\ waiting' = FALSE
      /\ out' = Kept(out) /\ in' = Kept(in) /\ UNCHANGED <<blocks, fw, whole>>
  BY DEF GivenUp, Kept, bridge
<1>2. Progress'
  <2>1. todo' = <<>> /\ phase' \in {"closed", "ready"}
    BY <1>1 DEF GoOn
  <2>2. Harmless(<<>>)
    BY EmptyIs DEF Harmless
  <2>3. Harmless(todo)'
    BY <2>1, <2>2 DEF Harmless, Sequence
  <2> QED
    BY <1>1, <2>1, <2>3 DEF Progress
<1>3. /\ Numbered(out) /\ \A i \in DOMAIN in' : in'[i].fresh = FALSE
  BY <1>1, KeptIs DEF IInv, Types
<1> QED
  BY <1>1, <1>2, <1>3, NothingFresh

LEMMA LoadNext ==
  ASSUME IInv, ~foreign => LoadInv, ~foreign', [Next]_vars
  PROVE  LoadInv'
<1>12. CASE Replug
  BY <1>12, ReplugLoad
<1> SUFFICES ASSUME ~Replug PROVE LoadInv'
  BY <1>12
<1>11. LoadInv /\ ~foreign
  BY ForeignStays
<1>1. CASE Send
  BY <1>1, <1>11, SendLoad
<1>2. CASE NotSent \/ TimesOut
  <2>1. /\ todo # <<>> /\ Failure /\ UNCHANGED <<blocks, fw, whole, in>>
    BY <1>2, <1>11 DEF NotSent, TimesOut, bridge, LoadInv, Progress
  <2>2. Progress'
    BY <2>1, <1>11, FailureProgress DEF LoadInv
  <2>3. \A i \in DOMAIN in : in[i].fresh = FALSE
    <3>1. CASE NotSent
      <4>1. ~waiting
        BY <3>1 DEF NotSent
      <4>2. \A i \in DOMAIN in : ~in[i].fresh
        BY <4>1, <1>11 DEF LoadInv, Current
      <4> QED
        BY <4>2
    <3>2. CASE TimesOut
      BY <3>2, EmptyIs DEF TimesOut
    <3> QED
      BY <3>1, <3>2, <1>2
  <2>4. out' = Kept(out) /\ Numbered(out)
    BY <2>1, FailureIs DEF IInv, Types
  <2> QED
    BY <2>1, <2>2, <2>3, <2>4, <1>11, NothingFresh
<1>3. CASE TakeReply
  BY <1>3, <1>11, TakeReplyLoad
<1>4. CASE Open
  BY <1>4, <1>11, OpenLoad
<1>5. CASE Close
  <2>1. /\ todo = <<>> /\ phase' = "closed"
        /\ UNCHANGED <<todo, waiting, seq, blocks, fw, whole, in, out>>
    BY <1>5 DEF Close, bridge
  <2>2. Progress'
    BY <2>1, <1>11 DEF LoadInv, Progress
  <2> QED
    BY <2>1, <2>2, <1>11 DEF LoadInv, Sane, Current, Age
<1>6. CASE WriteRead \/ PurgePsb \/ \E g \in Gpios : GpioOutput(g) \/ WriteGpio(g)
  BY <1>6, <1>11, HarmlessOnes, BeginLoad DEF WriteRead, PurgePsb, GpioOutput, WriteGpio
<1>7. CASE Drain
  BY <1>7, <1>11, DrainLoad
<1>8. CASE Obey
  BY <1>8, <1>11, ObeyLoad
<1>9. CASE GivenUp
  BY <1>9, <1>11, GivenUpLoad
<1>10. CASE UNCHANGED vars
  <2>1. UNCHANGED <<phase, todo, waiting, seq, blocks, fw, whole, in, out>>
    BY <1>10 DEF vars, driver, bridge
  <2>2. Progress'
    BY <2>1, <1>11 DEF LoadInv, Progress, Opening, BlocksBefore, Harmless, Sequence
  <2> QED
    BY <2>1, <2>2, <1>11 DEF LoadInv, Sane, Current, Age
<1> QED
  BY <1>1, <1>2, <1>3, <1>4, <1>5, <1>6, <1>7, <1>8, <1>9, <1>10 DEF Next

-----------------------------------------------------------------------------
(* What a bridge is set up as                                              *)

Writes(c) == c.cmd \in {"write", "merge"}

\* What a register holds of what a command writes to it, and whether a value is as
\* its other bits are.
Held(r) == IF r \in MaskedRegs THEN regs[r] % 2 ELSE regs[r]
RestKept(v) == v \in Int /\ v \div 2 = regs[Reg("da1d")] \div 2

Bits == DOMAIN regs = Registers /\ \A r \in MaskedRegs : RestKept(regs[r])

\* A command of the driver, and one on its way to the bridge.
Proper(c) ==
  /\ c.cmd \in {"read", "merge"} => c.reg \in MaskedRegs
  /\ c.cmd = "merge" => c.value \in 0 .. 1
  /\ c.cmd = "write" => c.reg \in PlainRegs \cup GpioRegs
  /\ c.reg[1] \in {"mode", "on"} => c.cmd = "write" /\ c.reg \in GpioRegs /\ c.value = 1

Apt(m) ==
  /\ {"cmd", "reg", "value"} \subseteq DOMAIN m
  /\ m.cmd = "read" => m.reg \in MaskedRegs
  /\ m.cmd = "merge" => m.reg \in MaskedRegs /\ RestKept(m.value)
  /\ m.cmd = "write" => /\ m.reg \in PlainRegs \cup GpioRegs
                        /\ m.reg[1] \in {"mode", "on"} => m.value = 1

\* What is left of a procedure; a merge at its head has read what it merges.
Chain(q) == Paired(q) /\ \A i \in DOMAIN q : Proper(q[i])

Course ==
  /\ Chain(todo)
  /\ todo # <<>> /\ todo[1].cmd = "merge" => RestKept(got)
  /\ todo = <<>> => result = "ok"

\* What the i-th command of open_bridge writes is still there at the n-th.
Lasts(i, n) ==
  /\ Writes(OpenBridge[i]) /\ OpenBridge[i].or # "load"
  /\ \A j \in DOMAIN OpenBridge :
       i < j /\ j <= n /\ Writes(OpenBridge[j]) /\ OpenBridge[j].reg = OpenBridge[i].reg
         => OpenBridge[j].value = OpenBridge[i].value

\* What was written before the n-th command is there, and firmware runs once it
\* was waited for.
Done(n) ==
  /\ \A i \in DOMAIN OpenBridge :
       i < n /\ Lasts(i, n) => Held(OpenBridge[i].reg) = OpenBridge[i].value
  /\ n > 10 + Blocks => fw = "running"

\* open_bridge, unless something of it failed; once a raise was answered, nothing
\* that was left over is on its way to the bridge any more.
Warming ==
  /\ result \in {"ok", "failed"}
  /\ \E n \in DOMAIN OpenBridge : todo = From(n) /\ (result = "ok" => Done(n))
  /\ result = "ok" /\ todo[1].cmd # "raise" =>
       \A j \in DOMAIN out : out[j].fresh \/ ~Writes(out[j])

\* What is left of purge_psb, and of another procedure of an open bridge.
Purging(q) ==
  /\ q # <<>> /\ q[Len(q)] = Cmd("merge", Reg("da1d"), 0, "ignore")[1]
  /\ \A i \in DOMAIN q : /\ q[i].cmd \in {"read", "merge", "drain"}
                         /\ q[i].or = "ignore" \/ (q[i].or = "fail" /\ q[i].reg = Reg("da1d"))
                         /\ Writes(q[i]) => q[i].reg = Reg("da1d")

Serving(q) ==
  \A i \in DOMAIN q : /\ q[i].or = "fail" /\ q[i].reg # Reg("da1d")
                      /\ Writes(q[i]) => q[i].reg \in GpioRegs

\* An open bridge: the registers are as open_bridge left them.
SetUp ==
  \A i \in DOMAIN OpenBridge :
    Lasts(i, Len(OpenBridge)) /\ OpenBridge[i].reg # Reg("da1d") =>
      Held(OpenBridge[i].reg) = OpenBridge[i].value

Warm ==
  /\ fw = "running" /\ SetUp
  /\ Purging(todo) \/ Serving(todo)
  /\ \A j \in DOMAIN out : Writes(out[j]) => out[j].reg \in GpioRegs \cup {Reg("da1d")}
  /\ purged = "ok" /\ Serving(todo) =>
       /\ Held(Reg("da1d")) = 0
       /\ \A j \in DOMAIN out : ~(Writes(out[j]) /\ out[j].reg = Reg("da1d"))

\* The driver's idea of its GPIOs.
Pins ==
  /\ \A g \in gpioOut : g \in Gpios /\ regs[<<"mode", g>>] = 1
  /\ \A g \in gpioOn : g \in Gpios /\ regs[<<"on", g>>] = 1

\* The command at the head, sent, and its reply.
IsHead(m) ==
  /\ m.cmd = todo[1].cmd /\ m.reg = todo[1].reg
  /\ m.value = todo[1].value \/ (m.cmd = "merge" /\ m.value % 2 = todo[1].value)

Answers(m) ==
  m.ok =>
    /\ Writes(todo[1]) => Held(todo[1].reg) = todo[1].value
    /\ todo[1].cmd = "read" => RestKept(m.value)
    /\ todo[1].cmd \in {"query", "booted"} /\ m.value # 0 => fw = "running"

Wire ==
  /\ \A j \in DOMAIN out : Apt(out[j]) /\ (out[j].fresh => j = Len(out) /\ IsHead(out[j]))
  /\ \A i \in DOMAIN in : in[i].fresh => out = <<>> /\ Answers(in[i])

WarmInv ==
  /\ Bits /\ Course /\ Wire
  /\ phase = "opening" => Warming
  /\ phase = "ready" => Warm
  /\ phase # "closed" => Pins

-----------------------------------------------------------------------------
(* What open_bridge writes                                                 *)

MaskedNames == {"f41f", "da10", "f41a", "da1d", "dd11", "dd13", "da05", "da06"}

\* What is to be in a register.
Goal(r) ==
  CASE r[1] = "addr" -> r[2]
    [] r[1] = "da78" -> Inputs[r[2]]
    [] r[1] = "da4c" -> IF r[2] \in InUse THEN 1 ELSE 0
    [] r[1] = "dd88" -> 38352
    [] r[1] = "dd0c" -> 128
    [] r[1] \in {"f103", "f6a7"} -> 7
    [] r[1] \in {"bus", "da73", "d833", "d831", "f41f", "f41a", "dd11"} -> 1
    [] OTHER -> 0

\* The registers that are written one way and then the other.
Turned == {Reg("dd11"), Reg("da1d")}

\* A register that is written whole.
Whole(r) == r[1] \notin MaskedNames \cup {"none", "4979", "mode", "on", "level"}

Fixed(c) ==
  /\ c.cmd \in {"read", "merge"} => c.reg \in MaskedRegs /\ c.value \in 0 .. 1
  /\ c.cmd = "write" => Whole(c.reg)
  /\ c.reg[1] \notin {"mode", "on", "level"}
  /\ Writes(c) => c.value = Goal(c.reg) \/ c.reg \in Turned

\* A part of open_bridge.
Piece(q) ==
  /\ Sequence(q) /\ Paired(q)
  /\ \A i \in DOMAIN q : Fixed(q[i])
  /\ 1 \in DOMAIN q => q[1].cmd # "merge"

Has(q, r) == \E i \in DOMAIN q : Writes(q[i]) /\ q[i].or # "load" /\ q[i].reg = r

Keeps(q, r, v) == \A i \in DOMAIN q : Writes(q[i]) /\ q[i].reg = r => q[i].value = v

\* The last write of a register is of a value.
Ends(q, r, v) ==
  \E i \in DOMAIN q :
    /\ Writes(q[i]) /\ q[i].or # "load" /\ q[i].reg = r /\ q[i].value = v
    /\ \A j \in DOMAIN q : i < j /\ Writes(q[j]) /\ q[j].reg = r => q[j].value = v

LEMMA PieceBoth ==
  ASSUME NEW p, NEW q, Piece(p), Piece(q)
  PROVE  /\ Piece(p \o q)
         /\ \A r : Has(p, r) \/ Has(q, r) => Has(p \o q, r)
         /\ \A r, v : Ends(p, r, v) /\ Keeps(q, r, v) => Ends(p \o q, r, v)
         /\ \A r, v : Ends(q, r, v) => Ends(p \o q, r, v)
<1> DEFINE s == p \o q
<1>1. Joined(s, p, q)
  BY JoinedIs DEF Piece
<1>2. /\ DOMAIN p = 1 .. Len(p) /\ DOMAIN q = 1 .. Len(q) /\ Len(p) \in Nat /\ Len(q) \in Nat
  BY SeqIs DEF Piece
<1> HIDE DEF s
<1>3. /\ Sequence(s) /\ DOMAIN s = 1 .. Len(p) + Len(q)
      /\ \A i \in 1 .. Len(p) : i \in DOMAIN s /\ s[i] = p[i]
      /\ \A i \in 1 .. Len(q) : Len(p) + i \in DOMAIN s /\ s[Len(p) + i] = q[i]
  <2>1. \A i \in 1 .. Len(q) : Len(p) + i \in 1 .. Len(p) + Len(q) /\ Len(p) + i > Len(p)
                               /\ (Len(p) + i) - Len(p) = i
    BY <1>2
  <2> QED
    BY <1>1, <1>2, <2>1 DEF Joined
<1>4. \A i \in DOMAIN s : i \in 1 .. Len(p) \/ \E k \in 1 .. Len(q) : i = Len(p) + k
  <2> TAKE i \in DOMAIN s
  <2>1. CASE i <= Len(p)
    BY <2>1, <1>2, <1>3
  <2>2. CASE i > Len(p)
    <3>1. i - Len(p) \in 1 .. Len(q) /\ i = Len(p) + (i - Len(p))
      BY <2>2, <1>2, <1>3
    <3> QED
      BY <3>1
  <2> QED
    BY <2>1, <2>2, <1>2, <1>3
<1>5. \A i \in DOMAIN s : Fixed(s[i])
  <2> TAKE i \in DOMAIN s
  <2>1. CASE i \in 1 .. Len(p)
    BY <2>1, <1>2, <1>3 DEF Piece
  <2>2. ASSUME NEW k \in 1 .. Len(q), i = Len(p) + k
        PROVE  Fixed(s[i])
    BY <2>2, <1>2, <1>3 DEF Piece
  <2> QED
    BY <2>1, <2>2, <1>4
<1>6. 1 \in DOMAIN s => s[1].cmd # "merge"
  <2>1. CASE Len(p) = 0
    <3>1. 1 \in DOMAIN s => 1 \in DOMAIN q /\ s[1] = q[1]
      BY <2>1, <1>2, <1>3
    <3> QED
      BY <3>1 DEF Piece
  <2>2. CASE Len(p) # 0
    <3>1. 1 \in DOMAIN p /\ s[1] = p[1]
      BY <2>2, <1>2, <1>3
    <3> QED
      BY <3>1 DEF Piece
  <2> QED
    BY <2>1, <2>2
<1>7. Paired(s)
  <2> SUFFICES ASSUME NEW i \in DOMAIN s
               PROVE  /\ s[i].cmd = "read" => i + 1 \in DOMAIN s /\ s[i + 1].cmd = "merge"
                      /\ i > 1 /\ s[i].cmd = "merge" => s[i - 1].cmd = "read" /\ s[i - 1].or = s[i].or
    BY DEF Paired
  <2>1. CASE i \in 1 .. Len(p)
    <3>1. /\ p[i].cmd = "read" => i + 1 \in DOMAIN p /\ p[i + 1].cmd = "merge"
          /\ i > 1 /\ p[i].cmd = "merge" => p[i - 1].cmd = "read" /\ p[i - 1].or = p[i].or
      BY <2>1, <1>2 DEF Piece, Paired
    <3>2. s[i] = p[i] /\ (i + 1 \in DOMAIN p => i + 1 \in DOMAIN s /\ s[i + 1] = p[i + 1])
      BY <2>1, <1>2, <1>3
    <3>3. i > 1 => s[i - 1] = p[i - 1]
      <4>1. i > 1 => i - 1 \in 1 .. Len(p)
        BY <2>1, <1>2
      <4> QED
        BY <4>1, <1>3
    <3> QED
      BY <3>1, <3>2, <3>3
  <2>2. ASSUME NEW k \in 1 .. Len(q), i = Len(p) + k
        PROVE  /\ s[i].cmd = "read" => i + 1 \in DOMAIN s /\ s[i + 1].cmd = "merge"
               /\ i > 1 /\ s[i].cmd = "merge" => s[i - 1].cmd = "read" /\ s[i - 1].or = s[i].or
    <3>1. /\ q[k].cmd = "read" => k + 1 \in 1 .. Len(q) /\ q[k + 1].cmd = "merge"
          /\ k > 1 /\ q[k].cmd = "merge" => q[k - 1].cmd = "read" /\ q[k - 1].or = q[k].or
          /\ k = 1 => q[k].cmd # "merge"
      BY <1>2 DEF Piece, Paired
    <3>2. s[i] = q[k]
      BY <2>2, <1>3
    <3>3. k + 1 \in 1 .. Len(q) => i + 1 \in DOMAIN s /\ s[i + 1] = q[k + 1]
      <4>1. i + 1 = Len(p) + (k + 1)
        BY <2>2, <1>2
      <4> QED
        BY <4>1, <1>3
    <3>4. k > 1 => s[i - 1] = q[k - 1]
      <4>1. k > 1 => k - 1 \in 1 .. Len(q) /\ i - 1 = Len(p) + (k - 1)
        BY <2>2, <1>2
      <4> QED
        BY <4>1, <1>3
    <3>5. k = 1 \/ k > 1
      OBVIOUS
    <3> QED
      BY <3>1, <3>2, <3>3, <3>4, <3>5
  <2> QED
    BY <2>1, <2>2, <1>4
<1>8. Piece(s)
  BY <1>3, <1>5, <1>6, <1>7 DEF Piece
<1>9. \A r : Has(p, r) \/ Has(q, r) => Has(s, r)
  <2> TAKE r
  <2>1. ASSUME Has(p, r) PROVE Has(s, r)
    BY <2>1, <1>2, <1>3 DEF Has
  <2>2. ASSUME Has(q, r) PROVE Has(s, r)
    <3>1. PICK k \in 1 .. Len(q) : Writes(q[k]) /\ q[k].or # "load" /\ q[k].reg = r
      BY <2>2, <1>2 DEF Has
    <3>2. Len(p) + k \in DOMAIN s /\ s[Len(p) + k] = q[k]
      BY <1>3
    <3> QED
      BY <3>1, <3>2 DEF Has
  <2> QED
    BY <2>1, <2>2
<1>10. \A r, v : Ends(p, r, v) /\ Keeps(q, r, v) => Ends(s, r, v)
  <2> TAKE r, v
  <2> HAVE Ends(p, r, v) /\ Keeps(q, r, v)
  <2>1. PICK i \in 1 .. Len(p) :
          /\ Writes(p[i]) /\ p[i].or # "load" /\ p[i].reg = r /\ p[i].value = v
          /\ \A j \in 1 .. Len(p) : i < j /\ Writes(p[j]) /\ p[j].reg = r => p[j].value = v
    BY <1>2 DEF Ends
  <2>2. \A j \in DOMAIN s : i < j /\ Writes(s[j]) /\ s[j].reg = r => s[j].value = v
    <3> TAKE j \in DOMAIN s
    <3>1. CASE j \in 1 .. Len(p)
      BY <3>1, <2>1, <1>3
    <3>2. ASSUME NEW k \in 1 .. Len(q), j = Len(p) + k
          PROVE  Writes(s[j]) /\ s[j].reg = r => s[j].value = v
      <4>1. s[j] = q[k] /\ k \in DOMAIN q
        BY <3>2, <1>2, <1>3
      <4> QED
        BY <4>1 DEF Keeps
    <3> QED
      BY <3>1, <3>2, <1>4
  <2>3. i \in DOMAIN s /\ s[i] = p[i]
    BY <1>3
  <2> QED
    BY <2>1, <2>2, <2>3 DEF Ends
<1>11. \A r, v : Ends(q, r, v) => Ends(s, r, v)
  <2> TAKE r, v
  <2> HAVE Ends(q, r, v)
  <2>1. PICK i \in 1 .. Len(q) :
          /\ Writes(q[i]) /\ q[i].or # "load" /\ q[i].reg = r /\ q[i].value = v
          /\ \A j \in 1 .. Len(q) : i < j /\ Writes(q[j]) /\ q[j].reg = r => q[j].value = v
    BY <1>2 DEF Ends
  <2>2. \A j \in DOMAIN s : Len(p) + i < j /\ Writes(s[j]) /\ s[j].reg = r => s[j].value = v
    <3> TAKE j \in DOMAIN s
    <3>1. CASE j \in 1 .. Len(p)
      <4>1. ~(Len(p) + i < j)
        BY <3>1, <1>2
      <4> QED
        BY <4>1
    <3>2. ASSUME NEW k \in 1 .. Len(q), j = Len(p) + k
          PROVE  Len(p) + i < j /\ Writes(s[j]) /\ s[j].reg = r => s[j].value = v
      <4>1. s[j] = q[k] /\ (Len(p) + i < j => i < k)
        BY <3>2, <1>2, <1>3
      <4> QED
        BY <4>1, <2>1
    <3> QED
      BY <3>1, <3>2, <1>4
  <2>3. Len(p) + i \in DOMAIN s /\ s[Len(p) + i] = q[i]
    BY <1>3
  <2> QED
    BY <2>1, <2>2, <2>3 DEF Ends
<1> QED
  BY <1>8, <1>9, <1>10, <1>11 DEF s

\* What a piece has, it ends with, and writes nothing else to, unless it turns it.
LEMMA PieceKeeps ==
  ASSUME NEW q, Piece(q), NEW r, r \notin Turned
  PROVE  Keeps(q, r, Goal(r)) /\ (Has(q, r) => Ends(q, r, Goal(r)))
<1>1. \A i \in DOMAIN q : Writes(q[i]) /\ q[i].reg = r => q[i].value = Goal(r)
  BY DEF Piece, Fixed
<1> QED
  BY <1>1 DEF Keeps, Has, Ends

LEMMA PieceOne ==
  ASSUME NEW c, Fixed(c), c.cmd \notin {"read", "merge"}
  PROVE  /\ Piece(<<c>>)
         /\ Writes(c) /\ c.or # "load" => Has(<<c>>, c.reg)
         /\ \A r : c.reg # r => \A v : Keeps(<<c>>, r, v)
<1>1. Sequence(<<c>>) /\ DOMAIN <<c>> = 1 .. 1 /\ <<c>>[1] = c
  BY OneIs
<1>2. \A i \in DOMAIN <<c>> : i = 1 /\ <<c>>[i] = c
  BY <1>1
<1> QED
  BY <1>1, <1>2 DEF Piece, Paired, Has, Keeps

LEMMA PieceMasked ==
  ASSUME NEW name \in MaskedNames, NEW bit \in 0 .. 1, NEW or,
         bit = Goal(Reg(name)) \/ Reg(name) \in Turned, or # "load"
  PROVE  /\ Piece(Masked(name, bit, or))
         /\ Has(Masked(name, bit, or), Reg(name))
         /\ Ends(Masked(name, bit, or), Reg(name), bit)
         /\ \A r : r # Reg(name) => \A v : Keeps(Masked(name, bit, or), r, v)
<1> DEFINE s == Masked(name, bit, or)
           a == [cmd |-> "read", reg |-> Reg(name), value |-> bit, or |-> or]
           b == [cmd |-> "merge", reg |-> Reg(name), value |-> bit, or |-> or]
<1>1. s = <<a>> \o <<b>>
  BY DEF Masked, Cmd
<1>2. Joined(<<a>> \o <<b>>, <<a>>, <<b>>)
  BY OneIs, JoinedIs
<1> HIDE DEF s
<1>3. Joined(s, <<a>>, <<b>>)
  BY <1>1, <1>2
<1>4. /\ Sequence(s) /\ DOMAIN s = 1 .. 2 /\ s[1] = a /\ s[2] = b
  <2>1. Len(<<a>>) = 1 /\ <<a>>[1] = a /\ Len(<<b>>) = 1 /\ <<b>>[1] = b
    BY OneIs
  <2> HIDE DEF a, b
  <2>2. /\ Sequence(s) /\ DOMAIN s = 1 .. 1 + 1
        /\ \A i \in 1 .. 1 : s[i] = <<a>>[i]
        /\ \A i \in 1 .. 1 + 1 : i > 1 => s[i] = <<b>>[i - 1]
    BY <2>1, <1>3 DEF Joined
  <2>3. s[1] = <<a>>[1] /\ s[2] = <<b>>[2 - 1]
    BY <2>2
  <2> QED
    BY <2>1, <2>2, <2>3
<1>5. /\ a.cmd = "read" /\ a.reg = Reg(name) /\ a.value = bit /\ a.or = or
      /\ b.cmd = "merge" /\ b.reg = Reg(name) /\ b.value = bit /\ b.or = or
  OBVIOUS
<1> HIDE DEF a, b
<1>6. Reg(name) \in MaskedRegs /\ Reg(name)[1] = name
  BY DEF MaskedRegs, MaskedNames, Reg
<1>7. Reg(name)[1] \notin {"mode", "on", "level"}
  BY <1>6 DEF MaskedNames
<1>8. Fixed(a) /\ Fixed(b)
  BY <1>5, <1>6, <1>7 DEF Fixed, Writes
<1>9. \A i \in DOMAIN s : (i = 1 /\ s[i] = a) \/ (i = 2 /\ s[i] = b)
  BY <1>4
<1>10. Paired(s)
  BY <1>4, <1>5, <1>9 DEF Paired
<1>11. Piece(s)
  BY <1>4, <1>5, <1>8, <1>9, <1>10 DEF Piece
<1>12. Has(s, Reg(name))
  BY <1>4, <1>5 DEF Has, Writes
<1>13. Ends(s, Reg(name), bit)
  BY <1>4, <1>5, <1>9 DEF Ends, Writes
<1>14. \A r : r # Reg(name) => \A v : Keeps(s, r, v)
  BY <1>5, <1>9 DEF Keeps
<1> QED
  BY <1>11, <1>12, <1>13, <1>14 DEF s

-----------------------------------------------------------------------------
(* The parts of open_bridge                                                *)

In(s, e) == \E i \in DOMAIN s : s[i] = e

\* A list of registers and what they are to be, each written whole.
List(s) ==
  /\ Sequence(s)
  /\ \A i \in DOMAIN s : Whole(s[i][1]) /\ s[i][2] = Goal(s[i][1])

LEMMA InBoth ==
  ASSUME NEW p, NEW q, Sequence(p), Sequence(q)
  PROVE  /\ \A e : In(p \o q, e) <=> In(p, e) \/ In(q, e)
         /\ List(p) /\ List(q) => List(p \o q)
<1> DEFINE s == p \o q
<1>1. Joined(s, p, q)
  BY JoinedIs
<1>2. /\ DOMAIN p = 1 .. Len(p) /\ DOMAIN q = 1 .. Len(q) /\ Len(p) \in Nat /\ Len(q) \in Nat
  BY SeqIs
<1> HIDE DEF s
<1>3. /\ Sequence(s) /\ DOMAIN s = 1 .. Len(p) + Len(q)
      /\ \A i \in DOMAIN p : i \in DOMAIN s /\ s[i] = p[i]
      /\ \A i \in DOMAIN q : Len(p) + i \in DOMAIN s /\ s[Len(p) + i] = q[i]
  <2>1. \A i \in 1 .. Len(q) : Len(p) + i \in 1 .. Len(p) + Len(q) /\ Len(p) + i > Len(p)
                               /\ (Len(p) + i) - Len(p) = i
    BY <1>2
  <2> QED
    BY <1>1, <1>2, <2>1 DEF Joined
<1>4. \A i \in DOMAIN s : (i \in DOMAIN p /\ s[i] = p[i]) \/ (i - Len(p) \in DOMAIN q /\ s[i] = q[i - Len(p)])
  BY <1>1, <1>2 DEF Joined
<1>5. \A e : In(s, e) <=> In(p, e) \/ In(q, e)
  <2> TAKE e
  <2>1. In(s, e) => In(p, e) \/ In(q, e)
    BY <1>4 DEF In
  <2>2. In(p, e) => In(s, e)
    BY <1>3 DEF In
  <2>3. In(q, e) => In(s, e)
    <3> HAVE In(q, e)
    <3>1. PICK k \in DOMAIN q : q[k] = e
      BY DEF In
    <3>2. Len(p) + k \in DOMAIN s /\ s[Len(p) + k] = e
      BY <3>1, <1>3
    <3> QED
      BY <3>2 DEF In
  <2> QED
    BY <2>1, <2>2, <2>3
<1>6. List(p) /\ List(q) => List(s)
  BY <1>3, <1>4 DEF List
<1> QED
  BY <1>5, <1>6 DEF s

LEMMA PieceWrites ==
  ASSUME NEW s, List(s)
  PROVE  /\ Piece(WriteAll(s))
         /\ \A e : In(s, e) => Has(WriteAll(s), e[1])
<1> DEFINE w == WriteAll(s)
<1>1. /\ DOMAIN w = DOMAIN s
      /\ \A i \in DOMAIN s : /\ w[i].cmd = "write" /\ w[i].reg = s[i][1]
                             /\ w[i].value = s[i][2] /\ w[i].or = "fail"
  BY DEF WriteAll, W, Cmd
<1>2. Sequence(w)
  BY CalmWrites DEF List, Calm
<1> HIDE DEF w
<1>3. \A i \in DOMAIN w : Fixed(w[i])
  <2> TAKE i \in DOMAIN w
  <2>1. w[i].cmd = "write" /\ Whole(w[i].reg) /\ w[i].value = Goal(w[i].reg)
    BY <1>1 DEF List
  <2>2. w[i].reg[1] \notin {"mode", "on", "level"}
    BY <2>1 DEF Whole
  <2> QED
    BY <2>1, <2>2 DEF Fixed
<1>4. Paired(w)
  BY <1>1 DEF Paired
<1>5. Piece(w)
  BY <1>1, <1>2, <1>3, <1>4 DEF Piece
<1>6. \A e : In(s, e) => Has(w, e[1])
  BY <1>1 DEF In, Has, Writes
<1> QED
  BY <1>5, <1>6 DEF w

LEMMA ListsAre ==
  /\ List(Plain1) /\ List(Plain2) /\ List(I2cSpeed)
  /\ List(Slaves)
<1>1. List(Plain1)
  <2>1. \A i \in DOMAIN Plain1 : i \in 1 .. 5
    BY DEF Plain1
  <2>2. /\ Plain1[1] = <<Reg("4976"), 0>> /\ Plain1[2] = <<Reg("4bfb"), 0>>
        /\ Plain1[3] = <<Reg("4978"), 0>> /\ Plain1[4] = <<Reg("4977"), 0>>
        /\ Plain1[5] = <<Reg("da1a"), 0>>
    BY DEF Plain1
  <2>3. \A n \in {"4976", "4bfb", "4978", "4977", "da1a"} : Whole(Reg(n)) /\ Goal(Reg(n)) = 0
    BY DEF Whole, Goal, Reg, MaskedNames
  <2>4. \A i \in 1 .. 5 : Whole(Plain1[i][1]) /\ Plain1[i][2] = Goal(Plain1[i][1])
    BY <2>2, <2>3
  <2> QED
    BY <2>1, <2>4, Lists DEF List
<1>2. List(Plain2)
  <2>1. \A i \in DOMAIN Plain2 : i \in 1 .. 4
    BY DEF Plain2
  <2>2. /\ Plain2[1] = <<Reg("d833"), 1>> /\ Plain2[2] = <<Reg("d830"), 0>>
        /\ Plain2[3] = <<Reg("d831"), 1>> /\ Plain2[4] = <<Reg("d832"), 0>>
    BY DEF Plain2
  <2>3. /\ \A n \in {"d830", "d832"} : Whole(Reg(n)) /\ Goal(Reg(n)) = 0
        /\ \A n \in {"d831", "d833"} : Whole(Reg(n)) /\ Goal(Reg(n)) = 1
    BY DEF Whole, Goal, Reg, MaskedNames
  <2>4. \A i \in 1 .. 4 : Whole(Plain2[i][1]) /\ Plain2[i][2] = Goal(Plain2[i][1])
    BY <2>2, <2>3
  <2> QED
    BY <2>1, <2>4, Lists DEF List
<1>3. List(I2cSpeed)
  <2>1. \A i \in DOMAIN I2cSpeed : i \in 1 .. 2
    BY DEF I2cSpeed
  <2>2. I2cSpeed[1] = <<Reg("f6a7"), 7>> /\ I2cSpeed[2] = <<Reg("f103"), 7>>
    BY DEF I2cSpeed
  <2>3. \A n \in {"f6a7", "f103"} : Whole(Reg(n)) /\ Goal(Reg(n)) = 7
    BY DEF Whole, Goal, Reg, MaskedNames
  <2>4. \A i \in 1 .. 2 : Whole(I2cSpeed[i][1]) /\ I2cSpeed[i][2] = Goal(I2cSpeed[i][1])
    BY <2>2, <2>3
  <2> QED
    BY <2>1, <2>4, Lists DEF List
<1>4. \A p : List(Slave(p))
  <2> TAKE p
  <2>1. CASE p \in InUse
    <3>1. Slave(p) = << <<Port("addr", p), p>>, <<Port("bus", p), 1>> >>
      BY <2>1 DEF Slave
    <3>2. /\ \A i \in DOMAIN Slave(p) : i = 1 \/ i = 2
          /\ Slave(p)[1] = <<Port("addr", p), p>> /\ Slave(p)[2] = <<Port("bus", p), 1>>
      BY <3>1
    <3>3. /\ Whole(Port("addr", p)) /\ Goal(Port("addr", p)) = p
          /\ Whole(Port("bus", p)) /\ Goal(Port("bus", p)) = 1
      BY DEF Whole, Goal, Port, MaskedNames
    <3> QED
      BY <3>2, <3>3, Lists DEF List
  <2>2. CASE p \notin InUse
    <3>1. Slave(p) = <<>>
      BY <2>2 DEF Slave
    <3> QED
      BY <3>1, EmptyIs DEF List
  <2> QED
    BY <2>1, <2>2
<1>5. \A p, q : List(p) /\ List(q) => List(p \o q)
  <2> TAKE p, q
  <2> HAVE List(p) /\ List(q)
  <2>1. Sequence(p) /\ Sequence(q)
    BY DEF List
  <2> QED
    BY <2>1, InBoth
<1>6. List(Slaves)
  BY <1>4, <1>5 DEF Slaves
<1> QED
  BY <1>1, <1>2, <1>3, <1>6

LEMMA PieceInput ==
  ASSUME NEW p
  PROVE  /\ Piece(StreamInput(p))
         /\ Has(StreamInput(p), Port("da4c", p))
         /\ p \in InUse => Has(StreamInput(p), Port("da73", p)) /\ Has(StreamInput(p), Port("da78", p))
<1>1. /\ \A name \in {"da58", "da73", "da78", "da4c"} : Whole(Port(name, p))
      /\ Goal(Port("da58", p)) = 0 /\ Goal(Port("da73", p)) = 1
      /\ Goal(Port("da78", p)) = Inputs[p]
      /\ Goal(Port("da4c", p)) = (IF p \in InUse THEN 1 ELSE 0)
  BY DEF Whole, Goal, Port, MaskedNames
<1>2. CASE p \notin InUse
  <2> DEFINE c == [cmd |-> "write", reg |-> Port("da4c", p), value |-> 0, or |-> "fail"]
  <2>1. StreamInput(p) = <<c>>
    BY <1>2 DEF StreamInput, W, Cmd
  <2>2. c.cmd = "write" /\ c.reg = Port("da4c", p) /\ c.value = 0 /\ c.or = "fail"
    OBVIOUS
  <2> HIDE DEF c
  <2>3. c.reg[1] \notin {"mode", "on", "level"}
    BY <2>2 DEF Port
  <2>4. Fixed(c) /\ Writes(c)
    BY <2>2, <2>3, <1>1, <1>2 DEF Fixed, Writes
  <2> QED
    BY <2>1, <2>2, <2>4, <1>2, PieceOne
<1>3. CASE p \in InUse
  <2> DEFINE a == IF p < 2 THEN << <<Port("da58", p), 0>> >> ELSE <<>>
             b == << <<Port("da73", p), 1>>, <<Port("da78", p), Inputs[p]>>, <<Port("da4c", p), 1>> >>
  <2>1. StreamInput(p) = WriteAll(a \o b)
    BY <1>3 DEF StreamInput
  <2>2. List(a)
    <3>1. CASE p < 2
      <4>1. a = << <<Port("da58", p), 0>> >>
        BY <3>1
      <4>2. Sequence(a) /\ \A i \in DOMAIN a : a[i] = <<Port("da58", p), 0>>
        BY <4>1, Lists
      <4> HIDE DEF a
      <4> QED
        BY <4>2, <1>1 DEF List
    <3>2. CASE ~(p < 2)
      BY <3>2, EmptyIs DEF List
    <3> QED
      BY <3>1, <3>2
  <2>3. List(b) /\ In(b, <<Port("da73", p), 1>>) /\ In(b, <<Port("da78", p), Inputs[p]>>)
        /\ In(b, <<Port("da4c", p), 1>>)
    <3>1. Sequence(b)
      BY Lists
    <3>2. /\ DOMAIN b = 1 .. 3 /\ b[1] = <<Port("da73", p), 1>>
          /\ b[2] = <<Port("da78", p), Inputs[p]>> /\ b[3] = <<Port("da4c", p), 1>>
      OBVIOUS
    <3> HIDE DEF b
    <3>3. \A i \in 1 .. 3 : Whole(b[i][1]) /\ b[i][2] = Goal(b[i][1])
      BY <3>2, <1>1, <1>3
    <3>4. List(b)
      BY <3>1, <3>2, <3>3 DEF List
    <3>5. 1 \in DOMAIN b /\ 2 \in DOMAIN b /\ 3 \in DOMAIN b
      BY <3>2
    <3> QED
      BY <3>2, <3>4, <3>5 DEF In
  <2> HIDE DEF a, b
  <2>4. /\ List(a \o b) /\ In(a \o b, <<Port("da73", p), 1>>)
        /\ In(a \o b, <<Port("da78", p), Inputs[p]>>) /\ In(a \o b, <<Port("da4c", p), 1>>)
    BY <2>2, <2>3, InBoth DEF List
  <2> DEFINE s == WriteAll(a \o b)
  <2>5. Piece(s) /\ \A e : In(a \o b, e) => Has(s, e[1])
    BY <2>4, PieceWrites
  <2> HIDE DEF s
  <2>6. Has(s, <<Port("da73", p), 1>>[1]) /\ Has(s, <<Port("da78", p), Inputs[p]>>[1])
        /\ Has(s, <<Port("da4c", p), 1>>[1])
    BY <2>4, <2>5
  <2> QED
    BY <2>1, <2>5, <2>6 DEF s
<1> QED
  BY <1>2, <1>3

\* The masked writes of stream output.
LEMMA MaskedOutput ==
  /\ Piece(Masked("da1d", 1, "fail")) /\ Has(Masked("da1d", 1, "fail"), Reg("da1d"))
  /\ Piece(Masked("dd11", 0, "bracket"))
  /\ Piece(Masked("dd13", 0, "bracket")) /\ Has(Masked("dd13", 0, "bracket"), Reg("dd13"))
  /\ Piece(Masked("dd11", 1, "bracket")) /\ Has(Masked("dd11", 1, "bracket"), Reg("dd11"))
  /\ Ends(Masked("dd11", 1, "bracket"), Reg("dd11"), 1)
  /\ Piece(Masked("da05", 0, "bracket")) /\ Has(Masked("da05", 0, "bracket"), Reg("da05"))
  /\ Keeps(Masked("da05", 0, "bracket"), Reg("dd11"), 1)
  /\ Piece(Masked("da06", 0, "bracket")) /\ Has(Masked("da06", 0, "bracket"), Reg("da06"))
  /\ Keeps(Masked("da06", 0, "bracket"), Reg("dd11"), 1)
  /\ Piece(Masked("da1d", 0, "close")) /\ Ends(Masked("da1d", 0, "close"), Reg("da1d"), 0)
  /\ Keeps(Masked("da1d", 0, "close"), Reg("dd11"), 1)
<1>1. /\ "da1d" \in MaskedNames /\ "dd11" \in MaskedNames /\ "dd13" \in MaskedNames
      /\ "da05" \in MaskedNames /\ "da06" \in MaskedNames
      /\ 0 \in 0 .. 1 /\ 1 \in 0 .. 1
  BY DEF MaskedNames
<1>2. Reg("dd11") \in Turned /\ Reg("da1d") \in Turned
  BY DEF Turned
<1>3. Goal(Reg("dd13")) = 0 /\ Goal(Reg("da05")) = 0 /\ Goal(Reg("da06")) = 0
  BY DEF Goal, Reg
<1>4. Reg("dd11") # Reg("da05") /\ Reg("dd11") # Reg("da06") /\ Reg("dd11") # Reg("da1d")
  BY DEF Reg
<1>5. Piece(Masked("da1d", 1, "fail")) /\ Has(Masked("da1d", 1, "fail"), Reg("da1d"))
  BY <1>1, <1>2, PieceMasked
<1>6. Piece(Masked("dd11", 0, "bracket"))
  BY <1>1, <1>2, PieceMasked
<1>7. Piece(Masked("dd13", 0, "bracket")) /\ Has(Masked("dd13", 0, "bracket"), Reg("dd13"))
  BY <1>1, <1>3, PieceMasked
<1>8. /\ Piece(Masked("dd11", 1, "bracket")) /\ Has(Masked("dd11", 1, "bracket"), Reg("dd11"))
      /\ Ends(Masked("dd11", 1, "bracket"), Reg("dd11"), 1)
  BY <1>1, <1>2, PieceMasked
<1>9. /\ Piece(Masked("da05", 0, "bracket")) /\ Has(Masked("da05", 0, "bracket"), Reg("da05"))
      /\ Keeps(Masked("da05", 0, "bracket"), Reg("dd11"), 1)
  BY <1>1, <1>3, <1>4, PieceMasked
<1>10. /\ Piece(Masked("da06", 0, "bracket")) /\ Has(Masked("da06", 0, "bracket"), Reg("da06"))
       /\ Keeps(Masked("da06", 0, "bracket"), Reg("dd11"), 1)
  BY <1>1, <1>3, <1>4, PieceMasked
<1>11. /\ Piece(Masked("da1d", 0, "close")) /\ Ends(Masked("da1d", 0, "close"), Reg("da1d"), 0)
       /\ Keeps(Masked("da1d", 0, "close"), Reg("dd11"), 1)
  BY <1>1, <1>2, <1>4, PieceMasked
<1> QED
  BY <1>5, <1>6, <1>7, <1>8, <1>9, <1>10, <1>11

\* What init_warm leaves in the registers.
LEMMA StreamOutputIs ==
  /\ Piece(StreamOutput)
  /\ \A r \in {"da1d", "dd11", "dd13", "dd88", "dd0c", "da05", "da06", "d920"} :
       Has(StreamOutput, Reg(r))
  /\ Ends(StreamOutput, Reg("dd11"), 1) /\ Ends(StreamOutput, Reg("da1d"), 0)
<1> DEFINE c5 == [cmd |-> "write", reg |-> Reg("dd88"), value |-> 38352, or |-> "bracket"]
           c6 == [cmd |-> "write", reg |-> Reg("dd0c"), value |-> 128, or |-> "bracket"]
           c10 == [cmd |-> "write", reg |-> Reg("d920"), value |-> 0, or |-> "close"]
           p1 == Masked("da1d", 1, "fail")
           p2 == Masked("dd11", 0, "bracket")
           p3 == Masked("dd13", 0, "bracket")
           p4 == Masked("dd11", 1, "bracket")
           p5 == <<c5>>
           p6 == <<c6>>
           p7 == Masked("da05", 0, "bracket")
           p8 == Masked("da06", 0, "bracket")
           p9 == Masked("da1d", 0, "close")
           p10 == <<c10>>
<1>1. StreamOutput = p1 \o p2 \o p3 \o p4 \o p5 \o p6 \o p7 \o p8 \o p9 \o p10
  BY DEF StreamOutput, Cmd
<1>2. \A a, b \in MaskedNames \cup {"dd88", "dd0c", "d920"} : a # b => Reg(a) # Reg(b)
  BY DEF Reg
<1>3. /\ Goal(Reg("dd13")) = 0 /\ Goal(Reg("da05")) = 0 /\ Goal(Reg("da06")) = 0
      /\ Goal(Reg("dd88")) = 38352 /\ Goal(Reg("dd0c")) = 128 /\ Goal(Reg("d920")) = 0
      /\ Reg("dd11") \in Turned /\ Reg("da1d") \in Turned
  BY DEF Goal, Reg, Turned
<1>4. /\ Piece(p1) /\ Has(p1, Reg("da1d"))
      /\ Piece(p2)
      /\ Piece(p3) /\ Has(p3, Reg("dd13"))
      /\ Piece(p4) /\ Has(p4, Reg("dd11")) /\ Ends(p4, Reg("dd11"), 1)
      /\ Piece(p7) /\ Has(p7, Reg("da05")) /\ Keeps(p7, Reg("dd11"), 1)
      /\ Piece(p8) /\ Has(p8, Reg("da06")) /\ Keeps(p8, Reg("dd11"), 1)
      /\ Piece(p9) /\ Ends(p9, Reg("da1d"), 0) /\ Keeps(p9, Reg("dd11"), 1)
  BY MaskedOutput
<1>5. /\ Piece(p5) /\ Has(p5, Reg("dd88")) /\ Keeps(p5, Reg("dd11"), 1)
      /\ Piece(p6) /\ Has(p6, Reg("dd0c")) /\ Keeps(p6, Reg("dd11"), 1)
      /\ Piece(p10) /\ Has(p10, Reg("d920")) /\ Keeps(p10, Reg("dd11"), 1)
      /\ Keeps(p10, Reg("da1d"), 0)
  <2>1. /\ c5.cmd = "write" /\ c5.reg = Reg("dd88") /\ c5.value = 38352 /\ c5.or # "load"
        /\ c6.cmd = "write" /\ c6.reg = Reg("dd0c") /\ c6.value = 128 /\ c6.or # "load"
        /\ c10.cmd = "write" /\ c10.reg = Reg("d920") /\ c10.value = 0 /\ c10.or # "load"
    OBVIOUS
  <2> HIDE DEF c5, c6, c10
  <2>2. \A n \in {"dd88", "dd0c", "d920"} : Whole(Reg(n)) /\ Reg(n)[1] \notin {"mode", "on", "level"}
    BY DEF Whole, Reg, MaskedNames
  <2>3. /\ Fixed(c5) /\ Writes(c5) /\ Fixed(c6) /\ Writes(c6) /\ Fixed(c10) /\ Writes(c10)
    BY <2>1, <2>2, <1>3 DEF Fixed, Writes
  <2>4. /\ c5.reg # Reg("dd11") /\ c6.reg # Reg("dd11") /\ c10.reg # Reg("dd11")
        /\ c10.reg # Reg("da1d")
    BY <2>1, <1>2 DEF MaskedNames
  <2>5. Piece(p5) /\ Has(p5, Reg("dd88")) /\ Keeps(p5, Reg("dd11"), 1)
    BY <2>1, <2>3, <2>4, PieceOne
  <2>6. Piece(p6) /\ Has(p6, Reg("dd0c")) /\ Keeps(p6, Reg("dd11"), 1)
    BY <2>1, <2>3, <2>4, PieceOne
  <2>7. /\ Piece(p10) /\ Has(p10, Reg("d920")) /\ Keeps(p10, Reg("dd11"), 1)
        /\ Keeps(p10, Reg("da1d"), 0)
    BY <2>1, <2>3, <2>4, PieceOne
  <2> QED
    BY <2>5, <2>6, <2>7
<1> HIDE DEF p1, p2, p3, p4, p5, p6, p7, p8, p9, p10
<1> DEFINE s4 == p1 \o p2 \o p3 \o p4
           s6 == s4 \o p5 \o p6
           s8 == s6 \o p7 \o p8
<1>6. Piece(s4) /\ Has(s4, Reg("da1d")) /\ Has(s4, Reg("dd13")) /\ Has(s4, Reg("dd11"))
      /\ Ends(s4, Reg("dd11"), 1)
  <2> DEFINE s3 == p1 \o p2 \o p3
  <2>1. Piece(p1 \o p2) /\ Has(p1 \o p2, Reg("da1d"))
    BY <1>4, PieceBoth
  <2>2. Piece(s3) /\ Has(s3, Reg("da1d")) /\ Has(s3, Reg("dd13"))
    BY <2>1, <1>4, PieceBoth
  <2>3. s4 = s3 \o p4
    OBVIOUS
  <2> HIDE DEF s3, s4
  <2> QED
    BY <2>2, <2>3, <1>4, PieceBoth
<1>7. /\ Piece(s6) /\ Has(s6, Reg("dd88")) /\ Has(s6, Reg("dd0c")) /\ Ends(s6, Reg("dd11"), 1)
      /\ \A r : Has(s4, r) => Has(s6, r)
  <2> HIDE DEF s4
  <2>1. /\ Piece(s4 \o p5) /\ Has(s4 \o p5, Reg("dd88")) /\ Ends(s4 \o p5, Reg("dd11"), 1)
        /\ \A r : Has(s4, r) => Has(s4 \o p5, r)
    BY <1>5, <1>6, PieceBoth
  <2> QED
    BY <2>1, <1>5, PieceBoth
<1>8. /\ Piece(s8) /\ Has(s8, Reg("da05")) /\ Has(s8, Reg("da06")) /\ Ends(s8, Reg("dd11"), 1)
      /\ \A r : Has(s6, r) => Has(s8, r)
  <2> HIDE DEF s6
  <2>1. /\ Piece(s6 \o p7) /\ Has(s6 \o p7, Reg("da05")) /\ Ends(s6 \o p7, Reg("dd11"), 1)
        /\ \A r : Has(s6, r) => Has(s6 \o p7, r)
    BY <1>4, <1>7, PieceBoth
  <2> QED
    BY <2>1, <1>4, PieceBoth
<1>9. StreamOutput = s8 \o p9 \o p10
  BY <1>1
<1> HIDE DEF s4, s6, s8
<1>10. /\ Piece(s8 \o p9) /\ Ends(s8 \o p9, Reg("dd11"), 1) /\ Ends(s8 \o p9, Reg("da1d"), 0)
       /\ \A r : Has(s8, r) => Has(s8 \o p9, r)
  BY <1>4, <1>8, PieceBoth
<1>11. /\ Piece(StreamOutput) /\ Ends(StreamOutput, Reg("dd11"), 1)
       /\ Ends(StreamOutput, Reg("da1d"), 0) /\ Has(StreamOutput, Reg("d920"))
       /\ \A r : Has(s8 \o p9, r) => Has(StreamOutput, r)
  BY <1>5, <1>9, <1>10, PieceBoth
<1>12. \A r : Has(s4, r) \/ Has(s6, r) \/ Has(s8, r) => Has(StreamOutput, r)
  BY <1>7, <1>8, <1>10, <1>11
<1> QED
  BY <1>6, <1>7, <1>8, <1>11, <1>12

\* A piece that turns no register keeps both.
Straight(q) == \A r \in Turned : Keeps(q, r, Goal(r))

LEMMA StraightOnes ==
  /\ \A s : List(s) => Straight(WriteAll(s))
  /\ \A p : Straight(StreamInput(p))
<1>1. \A r \in Turned : ~Whole(r)
  BY DEF Turned, Whole, MaskedNames, Reg
<1>2. \A s : List(s) => Straight(WriteAll(s))
  <2> TAKE s
  <2> HAVE List(s)
  <2>1. \A i \in DOMAIN WriteAll(s) : i \in DOMAIN s /\ WriteAll(s)[i].reg = s[i][1]
    BY DEF WriteAll, W, Cmd
  <2>2. \A i \in DOMAIN WriteAll(s) : WriteAll(s)[i].reg \notin Turned
    BY <2>1, <1>1 DEF List
  <2> QED
    BY <2>2 DEF Straight, Keeps
<1>3. \A p : Straight(StreamInput(p))
  <2> TAKE p
  <2>1. Piece(StreamInput(p))
    BY PieceInput
  <2>2. \A i \in DOMAIN StreamInput(p) : StreamInput(p)[i].cmd = "write"
    <3>1. CASE p \notin InUse
      BY <3>1, OneIs DEF StreamInput, W, Cmd
    <3>2. CASE p \in InUse
      BY <3>2 DEF StreamInput, WriteAll, W, Cmd
    <3> QED
      BY <3>1, <3>2
  <2>3. \A i \in DOMAIN StreamInput(p) : StreamInput(p)[i].reg \notin Turned
    BY <2>1, <2>2, <1>1 DEF Piece, Fixed
  <2> QED
    BY <2>3 DEF Straight, Keeps
<1> QED
  BY <1>2, <1>3

\* What open_bridge has to leave in a register.
Wanted(r) ==
  \/ r \in {Reg(n) : n \in MaskedNames \cup {"dd88", "dd0c", "d920"}}
  \/ \E i \in DOMAIN Settled : r = Settled[i][1]
  \/ \E p \in 0 .. 4 : r = Port("da4c", p)
  \/ \E p \in InUse : r = Port("da73", p) \/ r = Port("da78", p)

LEMMA InitWarmIs ==
  /\ Piece(InitWarm)
  /\ \A r : Wanted(r) => Has(InitWarm, r)
  /\ Ends(InitWarm, Reg("dd11"), 1) /\ Ends(InitWarm, Reg("da1d"), 0)
<1> DEFINE a1 == WriteAll(Plain1)
           m1 == Masked("f41f", 1, "fail")
           m2 == Masked("da10", 0, "fail")
           m3 == Masked("f41a", 1, "fail")
           a2 == WriteAll(Plain2)
           a3 == WriteAll(I2cSpeed \o Slaves)
           q1 == a1 \o m1 \o m2 \o m3
           q2 == q1 \o StreamOutput
           q3 == q2 \o a2 \o a3
           q4 == q3 \o StreamInput(0) \o StreamInput(1)
<1>1. InitWarm = q4 \o StreamInput(2) \o StreamInput(3) \o StreamInput(4)
  BY DEF InitWarm
<1>2. List(I2cSpeed \o Slaves)
  BY ListsAre, InBoth DEF List
<1>3. /\ Piece(a1) /\ \A e : In(Plain1, e) => Has(a1, e[1])
      /\ Piece(a2) /\ \A e : In(Plain2, e) => Has(a2, e[1])
      /\ Piece(a3) /\ \A e : In(I2cSpeed \o Slaves, e) => Has(a3, e[1])
      /\ Straight(a2) /\ Straight(a3)
  BY <1>2, ListsAre, PieceWrites, StraightOnes
<1>4. /\ Piece(m1) /\ Has(m1, Reg("f41f")) /\ Piece(m2) /\ Has(m2, Reg("da10"))
      /\ Piece(m3) /\ Has(m3, Reg("f41a"))
  <2>1. /\ "f41f" \in MaskedNames /\ "da10" \in MaskedNames /\ "f41a" \in MaskedNames
        /\ 0 \in 0 .. 1 /\ 1 \in 0 .. 1
    BY DEF MaskedNames
  <2>2. Goal(Reg("f41f")) = 1 /\ Goal(Reg("da10")) = 0 /\ Goal(Reg("f41a")) = 1
    BY DEF Goal, Reg
  <2>3. Piece(m1) /\ Has(m1, Reg("f41f"))
    BY <2>1, <2>2, PieceMasked
  <2>4. Piece(m2) /\ Has(m2, Reg("da10"))
    BY <2>1, <2>2, PieceMasked
  <2>5. Piece(m3) /\ Has(m3, Reg("f41a"))
    BY <2>1, <2>2, PieceMasked
  <2> QED
    BY <2>3, <2>4, <2>5
<1>5. Goal(Reg("dd11")) = 1 /\ Goal(Reg("da1d")) = 0
  BY DEF Goal, Reg
<1>6. \A q : Straight(q) => Keeps(q, Reg("dd11"), 1) /\ Keeps(q, Reg("da1d"), 0)
  BY <1>5 DEF Straight, Turned
<1> HIDE DEF a1, m1, m2, m3, a2, a3
<1>7. Piece(q1) /\ \A r : Has(a1, r) \/ Has(m1, r) \/ Has(m2, r) \/ Has(m3, r) => Has(q1, r)
  <2>1. Piece(a1 \o m1) /\ \A r : Has(a1, r) \/ Has(m1, r) => Has(a1 \o m1, r)
    BY <1>3, <1>4, PieceBoth
  <2> DEFINE q0 == a1 \o m1
  <2>2. Piece(q0 \o m2) /\ \A r : Has(q0, r) \/ Has(m2, r) => Has(q0 \o m2, r)
    <3> HIDE DEF q0
    <3>1. Piece(q0)
      BY <2>1 DEF q0
    <3> QED
      BY <3>1, <1>4, PieceBoth
  <2> DEFINE q00 == q0 \o m2
  <2>3. Piece(q00 \o m3) /\ \A r : Has(q00, r) \/ Has(m3, r) => Has(q00 \o m3, r)
    <3> HIDE DEF q00
    <3>1. Piece(q00)
      BY <2>2 DEF q00
    <3> QED
      BY <3>1, <1>4, PieceBoth
  <2>4. q1 = q00 \o m3
    OBVIOUS
  <2> QED
    BY <2>1, <2>2, <2>3
<1> HIDE DEF q1
<1>8. /\ Piece(q2) /\ \A r : Has(q1, r) \/ Has(StreamOutput, r) => Has(q2, r)
      /\ Ends(q2, Reg("dd11"), 1) /\ Ends(q2, Reg("da1d"), 0)
  BY <1>7, StreamOutputIs, PieceBoth
<1> HIDE DEF q2
<1>9. /\ Piece(q3) /\ \A r : Has(q2, r) \/ Has(a2, r) \/ Has(a3, r) => Has(q3, r)
      /\ Ends(q3, Reg("dd11"), 1) /\ Ends(q3, Reg("da1d"), 0)
  <2> DEFINE q0 == q2 \o a2
  <2>1. /\ Piece(q0) /\ \A r : Has(q2, r) \/ Has(a2, r) => Has(q0, r)
        /\ Ends(q0, Reg("dd11"), 1) /\ Ends(q0, Reg("da1d"), 0)
    BY <1>3, <1>6, <1>8, PieceBoth
  <2>2. q3 = q0 \o a3
    OBVIOUS
  <2> HIDE DEF q0, q3
  <2>3. /\ Piece(q3) /\ \A r : Has(q0, r) \/ Has(a3, r) => Has(q3, r)
        /\ Ends(q3, Reg("dd11"), 1) /\ Ends(q3, Reg("da1d"), 0)
    BY <2>1, <2>2, <1>3, <1>6, PieceBoth
  <2> QED
    BY <2>1, <2>3
<1> HIDE DEF q3
<1>10. \A q, p : /\ Piece(q) /\ Ends(q, Reg("dd11"), 1) /\ Ends(q, Reg("da1d"), 0)
                 => /\ Piece(q \o StreamInput(p))
                    /\ \A r : Has(q, r) \/ Has(StreamInput(p), r) => Has(q \o StreamInput(p), r)
                    /\ Ends(q \o StreamInput(p), Reg("dd11"), 1)
                    /\ Ends(q \o StreamInput(p), Reg("da1d"), 0)
  <2> TAKE q, p
  <2> HAVE Piece(q) /\ Ends(q, Reg("dd11"), 1) /\ Ends(q, Reg("da1d"), 0)
  <2>1. Piece(StreamInput(p)) /\ Straight(StreamInput(p))
    BY PieceInput, StraightOnes
  <2> QED
    BY <2>1, <1>6, PieceBoth
<1>11. /\ Piece(q4) /\ \A r : Has(q3, r) \/ Has(StreamInput(0), r) \/ Has(StreamInput(1), r) => Has(q4, r)
       /\ Ends(q4, Reg("dd11"), 1) /\ Ends(q4, Reg("da1d"), 0)
  BY <1>9, <1>10
<1> HIDE DEF q4
<1>12. /\ Piece(InitWarm)
       /\ Ends(InitWarm, Reg("dd11"), 1) /\ Ends(InitWarm, Reg("da1d"), 0)
       /\ \A r : Has(q4, r) \/ Has(StreamInput(2), r) \/ Has(StreamInput(3), r) \/ Has(StreamInput(4), r)
            => Has(InitWarm, r)
  BY <1>1, <1>10, <1>11
<1>13. \A r : \/ Has(a1, r) \/ Has(m1, r) \/ Has(m2, r) \/ Has(m3, r) \/ Has(StreamOutput, r)
              \/ Has(a2, r) \/ Has(a3, r)
              => Has(InitWarm, r)
  BY <1>7, <1>8, <1>9, <1>11, <1>12
<1>14. \A p \in 0 .. 4 : \A r : Has(StreamInput(p), r) => Has(InitWarm, r)
  <2> TAKE p \in 0 .. 4
  <2>1. p = 0 \/ p = 1 \/ p = 2 \/ p = 3 \/ p = 4
    OBVIOUS
  <2> QED
    BY <2>1, <1>11, <1>12
<1>15. \A n \in MaskedNames \cup {"dd88", "dd0c", "d920"} : Has(InitWarm, Reg(n))
  <2>1. \A n \in MaskedNames \cup {"dd88", "dd0c", "d920"} :
          \/ n = "f41f" \/ n = "da10" \/ n = "f41a"
          \/ n \in {"da1d", "dd11", "dd13", "dd88", "dd0c", "da05", "da06", "d920"}
    BY DEF MaskedNames
  <2> QED
    BY <2>1, <1>4, <1>13, StreamOutputIs
<1>16. \A i \in DOMAIN Settled : Has(InitWarm, Settled[i][1])
  <2> TAKE i \in DOMAIN Settled
  <2>1. In(Settled, Settled[i])
    BY DEF In
  <2>2. \A e : In(Settled, e) => In(Plain1, e) \/ In(Plain2, e) \/ In(I2cSpeed \o Slaves, e)
    <3>1. Sequence(Plain1) /\ Sequence(Plain2) /\ Sequence(I2cSpeed) /\ Sequence(Slaves)
      BY ListsAre DEF List
    <3>2. Sequence(Plain1 \o Plain2) /\ Sequence(Plain1 \o Plain2 \o I2cSpeed)
      BY <3>1, ConcatIs
    <3> QED
      BY <3>1, <3>2, InBoth DEF Settled
  <2> QED
    BY <2>1, <2>2, <1>3, <1>13
<1>17. \A r : Wanted(r) => Has(InitWarm, r)
  <2>1. \A p \in 0 .. 4 : Has(InitWarm, Port("da4c", p))
    BY <1>14, PieceInput
  <2>2. \A p \in InUse : Has(InitWarm, Port("da73", p)) /\ Has(InitWarm, Port("da78", p))
    BY <1>14, PieceInput, InputsAssumption DEF InUse
  <2> QED
    BY <2>1, <2>2, <1>15, <1>16 DEF Wanted
<1> QED
  BY <1>12, <1>17

\* All of open_bridge.
LEMMA OpenBridgeIs ==
  /\ Piece(OpenBridge)
  /\ \A r : Wanted(r) /\ r # Reg("da1d") => Ends(OpenBridge, r, Goal(r))
  /\ Ends(OpenBridge, Reg("da1d"), 0)
<1>1. \A q : /\ Sequence(q)
             /\ \A i \in DOMAIN q : /\ q[i].cmd \notin {"read", "merge", "write"}
                                    /\ q[i].reg[1] \notin {"mode", "on", "level"}
             => Piece(q)
  BY DEF Piece, Paired, Fixed, Writes
<1>2. \A cmd, n, value, or :
        cmd \in {"eeprom", "query", "boot", "booted"} /\ n \in {"none", "4979"}
          => Piece(Cmd(cmd, Reg(n), value, or))
  <2> TAKE cmd, n, value, or
  <2> HAVE cmd \in {"eeprom", "query", "boot", "booted"} /\ n \in {"none", "4979"}
  <2>1. Sequence(Cmd(cmd, Reg(n), value, or))
        /\ \A i \in DOMAIN Cmd(cmd, Reg(n), value, or) :
             /\ Cmd(cmd, Reg(n), value, or)[i].cmd = cmd
             /\ Cmd(cmd, Reg(n), value, or)[i].reg = Reg(n)
    BY OneIs DEF Cmd
  <2>2. Reg(n)[1] = n
    BY DEF Reg
  <2> QED
    BY <2>1, <2>2, <1>1
<1>3. Piece(Cmd("write", Reg("f103"), 7, "load"))
  <2> DEFINE c == [cmd |-> "write", reg |-> Reg("f103"), value |-> 7, or |-> "load"]
  <2>1. c.cmd = "write" /\ c.reg = Reg("f103") /\ c.value = 7
    OBVIOUS
  <2>2. Cmd("write", Reg("f103"), 7, "load") = <<c>>
    BY DEF Cmd
  <2> HIDE DEF c
  <2>3. Whole(Reg("f103")) /\ Goal(Reg("f103")) = 7 /\ Reg("f103")[1] \notin {"mode", "on", "level"}
    BY DEF Whole, Goal, Reg, MaskedNames
  <2>4. Fixed(c)
    BY <2>1, <2>3 DEF Fixed
  <2> QED
    BY <2>1, <2>2, <2>4, PieceOne
<1>4. Piece(Raise)
  <2>1. \A i \in DOMAIN Raise : Raise[i].cmd = "raise" /\ Raise[i].reg = Reg("none")
    BY DEF Raise, Ctrl, Cmd
  <2>2. Reg("none")[1] = "none"
    BY DEF Reg
  <2> QED
    BY <2>1, <2>2, <1>1, CommandLists
<1>5. Piece(Scatter)
  <2>1. \A i \in DOMAIN Scatter : Scatter[i].cmd = "scatter" /\ Scatter[i].reg = Reg("none")
    BY DEF Scatter, Ctrl, Cmd
  <2>2. Reg("none")[1] = "none"
    BY DEF Reg
  <2> QED
    BY <2>1, <2>2, <1>1, CommandLists
<1>6. Piece(LoadFirmware)
  <2> DEFINE l1 == Ctrl("query", 0, "fail")
             l2 == Cmd("write", Reg("f103"), 7, "load")
             l4 == Ctrl("boot", 0, "load")
             l5 == Ctrl("booted", 0, "load")
             k2 == l1 \o l2
             k3 == k2 \o Scatter
             k4 == k3 \o l4
  <2>1. Piece(l1) /\ Piece(l4) /\ Piece(l5)
    <3>1. /\ "none" \in {"none", "4979"} /\ "query" \in {"eeprom", "query", "boot", "booted"}
          /\ "boot" \in {"eeprom", "query", "boot", "booted"}
          /\ "booted" \in {"eeprom", "query", "boot", "booted"}
      OBVIOUS
    <3>2. Piece(l1)
      <4>1. Piece(Cmd("query", Reg("none"), 0, "fail"))
        BY <3>1, <1>2
      <4> QED
        BY <4>1 DEF Ctrl
    <3>3. Piece(l4)
      <4>1. Piece(Cmd("boot", Reg("none"), 0, "load"))
        BY <3>1, <1>2
      <4> QED
        BY <4>1 DEF Ctrl
    <3>4. Piece(l5)
      <4>1. Piece(Cmd("booted", Reg("none"), 0, "load"))
        BY <3>1, <1>2
      <4> QED
        BY <4>1 DEF Ctrl
    <3> QED
      BY <3>2, <3>3, <3>4
  <2>2. LoadFirmware = k4 \o l5
    BY DEF LoadFirmware
  <2>3. Piece(l2)
    BY <1>3
  <2> HIDE DEF l1, l2, l4, l5
  <2>4. Piece(k2)
    BY <2>1, <2>3, PieceBoth
  <2> HIDE DEF k2
  <2>5. Piece(k3)
    BY <2>4, <1>5, PieceBoth
  <2> HIDE DEF k3
  <2>6. Piece(k4)
    BY <2>5, <2>1, PieceBoth
  <2> HIDE DEF k4
  <2>7. Piece(k4 \o l5)
    BY <2>6, <2>1, PieceBoth
  <2> QED
    BY <2>2, <2>7
<1>7. Piece(Cmd("eeprom", Reg("4979"), 0, "fail"))
  <2>1. "4979" \in {"none", "4979"} /\ "eeprom" \in {"eeprom", "query", "boot", "booted"}
    OBVIOUS
  <2> QED
    BY <2>1, <1>2
<1> DEFINE first == Raise \o Cmd("eeprom", Reg("4979"), 0, "fail")
           warm == first \o LoadFirmware
<1>8. Piece(first)
  BY <1>4, <1>7, PieceBoth
<1>9. Piece(warm)
  <2> HIDE DEF first
  <2> QED
    BY <1>6, <1>8, PieceBoth
<1>10. OpenBridge = warm \o InitWarm
  BY DEF OpenBridge
<1> HIDE DEF warm
<1>11. /\ Piece(OpenBridge)
       /\ \A r : Has(InitWarm, r) => Has(OpenBridge, r)
       /\ Ends(OpenBridge, Reg("dd11"), 1) /\ Ends(OpenBridge, Reg("da1d"), 0)
  BY <1>9, <1>10, InitWarmIs, PieceBoth
<1>12. \A r : Wanted(r) /\ r # Reg("da1d") => Ends(OpenBridge, r, Goal(r))
  <2> TAKE r
  <2> HAVE Wanted(r) /\ r # Reg("da1d")
  <2>1. Has(OpenBridge, r)
    BY <1>11, InitWarmIs
  <2>2. CASE r = Reg("dd11")
    <3>1. Goal(r) = 1
      BY <2>2 DEF Goal, Reg
    <3> QED
      BY <3>1, <2>2, <1>11
  <2>3. CASE r # Reg("dd11")
    BY <2>1, <2>3, <1>11, PieceKeeps DEF Turned
  <2> QED
    BY <2>2, <2>3
<1> QED
  BY <1>11, <1>12

-----------------------------------------------------------------------------
(* Registers and procedures                                                *)

\* The registers that are masked, those that are written whole, and those of GPIOs.
LEMMA RegisterKinds ==
  /\ \A r \in MaskedRegs : r[1] \in MaskedNames /\ r \in Registers
  /\ \A r \in PlainRegs : r[1] \notin {"mode", "on", "level"} /\ r \notin MaskedRegs /\ r \in Registers
  /\ \A r \in GpioRegs : r[1] \in {"mode", "on", "level"} /\ r \notin MaskedRegs /\ r \in Registers
  /\ Reg("da1d") \in MaskedRegs
<1>1. \A r \in MaskedRegs : r[1] \in MaskedNames
  BY DEF MaskedRegs, MaskedNames, Reg
<1>2. \A r \in PlainRegs : r[1] \notin {"mode", "on", "level"} /\ r \notin MaskedRegs
  BY OpenBridgeIs DEF PlainRegs, Piece, Fixed
<1>3. \A r \in GpioRegs : r[1] \in {"mode", "on", "level"}
  BY DEF GpioRegs
<1>4. \A r \in GpioRegs : r \notin MaskedRegs
  BY <1>1, <1>3 DEF MaskedNames
<1>5. Reg("da1d") \in MaskedRegs
  BY DEF MaskedRegs
<1> QED
  BY <1>1, <1>2, <1>3, <1>4, <1>5 DEF Registers

\* The commands of open_bridge are proper, and each merge follows its read.
LEMMA BridgeChain == Chain(OpenBridge)
<1>1. \A i \in DOMAIN OpenBridge : Fixed(OpenBridge[i])
  BY OpenBridgeIs DEF Piece
<1>2. Reg("none")[1] = "none" /\ Reg("4979")[1] = "4979"
  BY DEF Reg
<1>3. \A i \in DOMAIN OpenBridge : Proper(OpenBridge[i])
  <2> TAKE i \in DOMAIN OpenBridge
  <2>1. Fixed(OpenBridge[i])
    BY <1>1
  <2>2. OpenBridge[i].cmd = "write" => OpenBridge[i].reg \in PlainRegs
    <3>1. OpenBridge[i].cmd = "write" => Whole(OpenBridge[i].reg)
      BY <2>1 DEF Fixed
    <3>2. Whole(OpenBridge[i].reg) =>
            OpenBridge[i].reg \notin MaskedRegs \cup {Reg("none"), Reg("4979")}
      BY <1>2, RegisterKinds DEF Whole
    <3> QED
      BY <3>1, <3>2 DEF PlainRegs
  <2> QED
    BY <2>1, <2>2 DEF Fixed, Proper
<1> QED
  BY <1>3, OpenBridgeIs DEF Chain, Piece

\* What is left of what is proper is.
LEMMA ChainRest ==
  ASSUME NEW q, Sequence(q), NEW m \in 1 .. Len(q) + 1
  PROVE  /\ Chain(q) => Chain(SubSeq(q, m, Len(q)))
         /\ Serving(q) => Serving(SubSeq(q, m, Len(q)))
         /\ Purging(q) /\ m # Len(q) + 1 => Purging(SubSeq(q, m, Len(q)))
<1> DEFINE r == SubSeq(q, m, Len(q))
<1>1. Len(q) \in Nat /\ DOMAIN q = 1 .. Len(q)
  BY SeqIs
<1>2. /\ Sequence(r) /\ Len(r) = Len(q) + 1 - m /\ DOMAIN r = 1 .. Len(q) + 1 - m
      /\ \A i \in 1 .. Len(q) + 1 - m : r[i] = q[m + i - 1]
      /\ r = <<>> <=> m = Len(q) + 1
  BY <1>1, RestIs
<1> HIDE DEF r
<1>3. \A i \in DOMAIN r :
        \E k \in DOMAIN q :
          /\ r[i] = q[k]
          /\ k + 1 \in DOMAIN q => i + 1 \in DOMAIN r /\ r[i + 1] = q[k + 1]
          /\ i > 1 => r[i - 1] = q[k - 1] /\ k > 1
  <2> TAKE i \in DOMAIN r
  <2> DEFINE k == m + i - 1
  <2>1. i \in 1 .. Len(q) + 1 - m /\ i \in Nat /\ m \in Nat
    BY <1>1, <1>2
  <2>2. k \in DOMAIN q /\ r[i] = q[k]
    BY <2>1, <1>1, <1>2
  <2>3. k + 1 \in DOMAIN q => i + 1 \in DOMAIN r /\ r[i + 1] = q[k + 1]
    <3>1. k + 1 \in DOMAIN q => i + 1 \in 1 .. Len(q) + 1 - m /\ m + (i + 1) - 1 = k + 1
      BY <2>1, <1>1
    <3> HIDE DEF k
    <3> QED
      BY <3>1, <1>2
  <2>4. i > 1 => r[i - 1] = q[k - 1] /\ k > 1
    <3>1. i > 1 => i - 1 \in 1 .. Len(q) + 1 - m /\ m + (i - 1) - 1 = k - 1 /\ k > 1
      BY <2>1, <1>1
    <3> HIDE DEF k
    <3> QED
      BY <3>1, <1>2
  <2> HIDE DEF k
  <2> QED
    BY <2>2, <2>3, <2>4
<1>4. Chain(q) => Chain(r)
  <2> SUFFICES ASSUME Chain(q) PROVE Chain(r)
    OBVIOUS
  <2>1. Paired(r)
    <3> SUFFICES ASSUME NEW i \in DOMAIN r
                 PROVE  /\ r[i].cmd = "read" => i + 1 \in DOMAIN r /\ r[i + 1].cmd = "merge"
                        /\ i > 1 /\ r[i].cmd = "merge" => r[i - 1].cmd = "read" /\ r[i - 1].or = r[i].or
      BY DEF Paired
    <3>1. PICK k \in DOMAIN q :
            /\ r[i] = q[k]
            /\ k + 1 \in DOMAIN q => i + 1 \in DOMAIN r /\ r[i + 1] = q[k + 1]
            /\ i > 1 => r[i - 1] = q[k - 1] /\ k > 1
      BY <1>3
    <3>3. /\ q[k].cmd = "read" => k + 1 \in DOMAIN q /\ q[k + 1].cmd = "merge"
          /\ k > 1 /\ q[k].cmd = "merge" => q[k - 1].cmd = "read" /\ q[k - 1].or = q[k].or
      BY DEF Chain, Paired
    <3> QED
      BY <3>1, <3>3
  <2>2. \A i \in DOMAIN r : Proper(r[i])
    BY <1>3 DEF Chain
  <2> QED
    BY <2>1, <2>2 DEF Chain
<1>5. Serving(q) => Serving(r)
  <2>1. \A i \in DOMAIN r : \E k \in DOMAIN q : r[i] = q[k]
    BY <1>3
  <2> QED
    BY <2>1 DEF Serving
<1>6. Purging(q) /\ m # Len(q) + 1 => Purging(r)
  <2> SUFFICES ASSUME Purging(q), m # Len(q) + 1 PROVE Purging(r)
    OBVIOUS
  <2>1. r # <<>> /\ Len(r) \in DOMAIN r /\ m + Len(r) - 1 = Len(q)
    BY <1>1, <1>2
  <2>2. r[Len(r)] = q[Len(q)]
    <3>1. Len(r) \in 1 .. Len(q) + 1 - m
      BY <2>1, <1>2
    <3> QED
      BY <3>1, <2>1, <1>2
  <2>3. \A i \in DOMAIN r : \E k \in DOMAIN q : r[i] = q[k]
    BY <1>3
  <2> QED
    BY <2>1, <2>2, <2>3 DEF Purging
<1> QED
  BY <1>4, <1>5, <1>6 DEF r

\* The procedures of an open bridge.
LEMMA Procedures ==
  /\ \A g \in Gpios :
       /\ LET q == (IF g \in gpioOut THEN <<>> ELSE W(<<"mode", g>>, 1))
                   \o (IF g \in gpioOn THEN <<>> ELSE W(<<"on", g>>, 1))
          IN  Chain(q) /\ Serving(q) /\ (q # <<>> => q[1].cmd # "merge")
       /\ \A high : LET q == W(<<"level", g>>, high)
                    IN  Chain(q) /\ Serving(q) /\ q[1].cmd # "merge"
  /\ LET q == Ctrl("i2c_write", 0, "fail") \o Ctrl("i2c_read", 0, "fail")
     IN  Chain(q) /\ Serving(q) /\ q[1].cmd # "merge"
  /\ LET q == Masked("da1d", 1, "fail") \o Ctrl("drain", 0, "ignore") \o Masked("da1d", 0, "ignore")
     IN  Chain(q) /\ Purging(q) /\ q[1].cmd # "merge"
<1>1. ASSUME NEW p, NEW q, Sequence(p), Sequence(q)
      PROVE  \A i \in DOMAIN (p \o q) :
               \/ i \in DOMAIN p /\ (p \o q)[i] = p[i]
               \/ i - Len(p) \in DOMAIN q /\ (p \o q)[i] = q[i - Len(p)]
  <2>1. DOMAIN p = 1 .. Len(p) /\ DOMAIN q = 1 .. Len(q) /\ Len(p) \in Nat /\ Len(q) \in Nat
    BY <1>1, SeqIs
  <2> DEFINE s == p \o q
  <2>2. Joined(s, p, q)
    BY <1>1, JoinedIs
  <2> HIDE DEF s
  <2>3. \A i \in DOMAIN s : \/ i \in DOMAIN p /\ s[i] = p[i]
                            \/ i - Len(p) \in DOMAIN q /\ s[i] = q[i - Len(p)]
    BY <2>1, <2>2 DEF Joined
  <2> QED
    BY <2>3 DEF s
<1>2. ASSUME NEW q, \A i \in DOMAIN q : q[i].cmd \notin {"read", "merge"} /\ Proper(q[i])
      PROVE  Chain(q)
  BY <1>2 DEF Chain, Paired
<1>3. ASSUME NEW g \in Gpios
      PROVE  LET q == (IF g \in gpioOut THEN <<>> ELSE W(<<"mode", g>>, 1))
                      \o (IF g \in gpioOn THEN <<>> ELSE W(<<"on", g>>, 1))
             IN  Chain(q) /\ Serving(q) /\ (q # <<>> => q[1].cmd # "merge")
  <2> DEFINE a == IF g \in gpioOut THEN <<>> ELSE W(<<"mode", g>>, 1)
             b == IF g \in gpioOn THEN <<>> ELSE W(<<"on", g>>, 1)
             q == a \o b
  <2>1. \A n \in {"mode", "on"} : <<n, g>> \in GpioRegs /\ <<n, g>>[1] = n /\ <<n, g>> # Reg("da1d")
    BY DEF GpioRegs, Reg
  <2>2. /\ Sequence(a)
        /\ \A i \in DOMAIN a : /\ a[i].cmd = "write" /\ a[i].reg = <<"mode", g>>
                               /\ a[i].value = 1 /\ a[i].or = "fail"
    <3>1. CASE g \in gpioOut
      BY <3>1, EmptyIs
    <3>2. CASE g \notin gpioOut
      BY <3>2, OneIs DEF W, Cmd
    <3> QED
      BY <3>1, <3>2
  <2>3. /\ Sequence(b)
        /\ \A i \in DOMAIN b : /\ b[i].cmd = "write" /\ b[i].reg = <<"on", g>>
                               /\ b[i].value = 1 /\ b[i].or = "fail"
    <3>1. CASE g \in gpioOn
      BY <3>1, EmptyIs
    <3>2. CASE g \notin gpioOn
      BY <3>2, OneIs DEF W, Cmd
    <3> QED
      BY <3>1, <3>2
  <2> HIDE DEF a, b
  <2>4. \A i \in DOMAIN q : (i \in DOMAIN a /\ q[i] = a[i]) \/ (i - Len(a) \in DOMAIN b /\ q[i] = b[i - Len(a)])
    BY <2>2, <2>3, <1>1
  <2>5. Sequence(q)
    BY <2>2, <2>3, ConcatIs
  <2> HIDE DEF q
  <2>6. \A i \in DOMAIN q : /\ q[i].cmd = "write" /\ q[i].reg \in GpioRegs /\ q[i].value = 1
                            /\ q[i].or = "fail" /\ q[i].reg # Reg("da1d")
    BY <2>1, <2>2, <2>3, <2>4
  <2>7. Chain(q) /\ Serving(q)
    BY <2>6, <1>2 DEF Proper, Serving
  <2>8. q # <<>> => 1 \in DOMAIN q
    BY <2>5, TailIs
  <2>9. Chain(q) /\ Serving(q) /\ (q # <<>> => q[1].cmd # "merge")
    BY <2>6, <2>7, <2>8
  <2> QED
    BY <2>9 DEF q, a, b
<1>4. ASSUME NEW g \in Gpios, NEW high
      PROVE  LET q == W(<<"level", g>>, high)
             IN  Chain(q) /\ Serving(q) /\ q[1].cmd # "merge"
  <2> DEFINE q == W(<<"level", g>>, high)
  <2>1. <<"level", g>> \in GpioRegs /\ <<"level", g>>[1] = "level" /\ <<"level", g>> # Reg("da1d")
    BY DEF GpioRegs, Reg
  <2>2. /\ 1 \in DOMAIN q
        /\ \A i \in DOMAIN q : /\ q[i].cmd = "write" /\ q[i].reg = <<"level", g>> /\ q[i].or = "fail"
    BY OneIs DEF W, Cmd
  <2> HIDE DEF q
  <2>3. \A i \in DOMAIN q : q[i].cmd \notin {"read", "merge"} /\ Proper(q[i])
    BY <2>1, <2>2 DEF Proper
  <2>4. Chain(q) /\ Serving(q)
    BY <2>1, <2>2, <2>3, <1>2 DEF Serving
  <2>5. q[1].cmd # "merge"
    BY <2>2
  <2> QED
    BY <2>4, <2>5 DEF q
<1>5. LET q == Ctrl("i2c_write", 0, "fail") \o Ctrl("i2c_read", 0, "fail")
      IN  Chain(q) /\ Serving(q) /\ q[1].cmd # "merge"
  <2> DEFINE a == Ctrl("i2c_write", 0, "fail")
             b == Ctrl("i2c_read", 0, "fail")
             q == a \o b
  <2>1. Reg("none")[1] = "none" /\ Reg("none") # Reg("da1d")
    BY DEF Reg
  <2>2. /\ Sequence(a) /\ Len(a) = 1
        /\ \A i \in DOMAIN a : a[i].cmd = "i2c_write" /\ a[i].reg = Reg("none") /\ a[i].or = "fail"
    BY OneIs DEF Ctrl, Cmd
  <2>3. /\ Sequence(b) /\ Len(b) = 1
        /\ \A i \in DOMAIN b : b[i].cmd = "i2c_read" /\ b[i].reg = Reg("none") /\ b[i].or = "fail"
    BY OneIs DEF Ctrl, Cmd
  <2> HIDE DEF a, b
  <2>4. \A i \in DOMAIN q : (i \in DOMAIN a /\ q[i] = a[i]) \/ (i - Len(a) \in DOMAIN b /\ q[i] = b[i - Len(a)])
    BY <2>2, <2>3, <1>1
  <2>5. 1 \in DOMAIN q
    BY <2>2, <2>3, ConcatIs
  <2> HIDE DEF q
  <2>6. \A i \in DOMAIN q : /\ q[i].cmd \in {"i2c_write", "i2c_read"} /\ q[i].reg = Reg("none")
                            /\ q[i].or = "fail"
    BY <2>2, <2>3, <2>4
  <2>7. \A i \in DOMAIN q : q[i].cmd \notin {"read", "merge"} /\ Proper(q[i])
    BY <2>1, <2>6 DEF Proper
  <2>8. Chain(q) /\ Serving(q) /\ q[1].cmd # "merge"
    BY <2>1, <2>5, <2>6, <2>7, <1>2 DEF Serving, Writes
  <2> QED
    BY <2>8 DEF q, a, b
<1>6. LET q == Masked("da1d", 1, "fail") \o Ctrl("drain", 0, "ignore") \o Masked("da1d", 0, "ignore")
      IN  Chain(q) /\ Purging(q) /\ q[1].cmd # "merge"
  <2> DEFINE c1 == [cmd |-> "read", reg |-> Reg("da1d"), value |-> 1, or |-> "fail"]
             c2 == [cmd |-> "merge", reg |-> Reg("da1d"), value |-> 1, or |-> "fail"]
             c3 == [cmd |-> "drain", reg |-> Reg("none"), value |-> 0, or |-> "ignore"]
             c4 == [cmd |-> "read", reg |-> Reg("da1d"), value |-> 0, or |-> "ignore"]
             c5 == [cmd |-> "merge", reg |-> Reg("da1d"), value |-> 0, or |-> "ignore"]
             q == Masked("da1d", 1, "fail") \o Ctrl("drain", 0, "ignore") \o Masked("da1d", 0, "ignore")
             a == <<c1>> \o <<c2>>
             b == <<c4>> \o <<c5>>
             ac == a \o <<c3>>
  <2>1. q = ac \o b
    BY DEF Masked, Ctrl, Cmd
  <2>2. /\ c1.cmd = "read" /\ c1.reg = Reg("da1d") /\ c1.value = 1 /\ c1.or = "fail"
        /\ c2.cmd = "merge" /\ c2.reg = Reg("da1d") /\ c2.value = 1 /\ c2.or = "fail"
        /\ c3.cmd = "drain" /\ c3.reg = Reg("none") /\ c3.value = 0 /\ c3.or = "ignore"
        /\ c4.cmd = "read" /\ c4.reg = Reg("da1d") /\ c4.value = 0 /\ c4.or = "ignore"
        /\ c5.cmd = "merge" /\ c5.reg = Reg("da1d") /\ c5.value = 0 /\ c5.or = "ignore"
    OBVIOUS
  <2>3. c5 = Cmd("merge", Reg("da1d"), 0, "ignore")[1]
    BY DEF Cmd
  <2> HIDE DEF c1, c2, c3, c4, c5, q
  <2>4. /\ Len(q) = 5 /\ DOMAIN q = 1 .. 5 /\ q # <<>>
        /\ q[1] = c1 /\ q[2] = c2 /\ q[3] = c3 /\ q[4] = c4 /\ q[5] = c5
    <3>1. ASSUME NEW x, NEW y
          PROVE  Sequence(<<x>> \o <<y>>) /\ Len(<<x>> \o <<y>>) = 2
                 /\ (<<x>> \o <<y>>)[1] = x /\ (<<x>> \o <<y>>)[2] = y
      <4> DEFINE s == <<x>> \o <<y>>
      <4>1. Joined(s, <<x>>, <<y>>)
        BY OneIs, JoinedIs
      <4> HIDE DEF s
      <4>2. Len(<<x>>) = 1 /\ <<x>>[1] = x /\ Len(<<y>>) = 1 /\ <<y>>[1] = y
        BY OneIs
      <4>3. /\ Sequence(s) /\ Len(s) = 1 + 1
            /\ \A i \in 1 .. 1 : s[i] = <<x>>[i]
            /\ \A i \in 1 .. 1 + 1 : i > 1 => s[i] = <<y>>[i - 1]
        BY <4>1, <4>2 DEF Joined
      <4>4. s[1] = <<x>>[1] /\ s[2] = <<y>>[2 - 1]
        BY <4>3
      <4> QED
        BY <4>2, <4>3, <4>4 DEF s
    <3>2. Sequence(a) /\ Len(a) = 2 /\ a[1] = c1 /\ a[2] = c2
      BY <3>1
    <3>3. Sequence(b) /\ Len(b) = 2 /\ b[1] = c4 /\ b[2] = c5
      BY <3>1
    <3>4. Sequence(<<c3>>) /\ Len(<<c3>>) = 1 /\ <<c3>>[1] = c3
      BY OneIs
    <3> HIDE DEF a, b
    <3>5. Joined(ac, a, <<c3>>)
      BY <3>2, <3>4, JoinedIs
    <3> HIDE DEF ac
    <3>6. Sequence(ac) /\ Len(ac) = 3 /\ ac[1] = c1 /\ ac[2] = c2 /\ ac[3] = c3
      <4>1. Sequence(ac) /\ Len(ac) = 3 /\ ac[1] = a[1] /\ ac[2] = a[2] /\ ac[3] = <<c3>>[3 - 2]
        BY <3>2, <3>4, <3>5 DEF Joined
      <4> QED
        BY <4>1, <3>2, <3>4
    <3>7. Joined(q, ac, b)
      BY <2>1, <3>3, <3>6, JoinedIs
    <3>8. /\ Sequence(q) /\ Len(q) = 5 /\ DOMAIN q = 1 .. 5
          /\ q[1] = ac[1] /\ q[2] = ac[2] /\ q[3] = ac[3] /\ q[4] = b[4 - 3] /\ q[5] = b[5 - 3]
      BY <3>3, <3>6, <3>7 DEF Joined
    <3>9. q # <<>>
      BY <3>8, EmptyIs
    <3> QED
      BY <3>3, <3>6, <3>8, <3>9
  <2>5. Reg("none")[1] = "none" /\ Reg("da1d")[1] = "da1d" /\ Reg("da1d") \in MaskedRegs
    BY DEF Reg, MaskedRegs
  <2>6. \A i \in 1 .. 5 : i = 1 \/ i = 2 \/ i = 3 \/ i = 4 \/ i = 5
    OBVIOUS
  <2>7. \A i \in DOMAIN q : Proper(q[i])
    <3>1. Proper(c1) /\ Proper(c2) /\ Proper(c3) /\ Proper(c4) /\ Proper(c5)
      BY <2>2, <2>5 DEF Proper
    <3> QED
      BY <3>1, <2>4, <2>6
  <2>8. Paired(q)
    <3>1. /\ q[1].cmd = "read" /\ q[2].cmd = "merge" /\ q[3].cmd = "drain" /\ q[4].cmd = "read"
          /\ q[5].cmd = "merge" /\ q[1].or = q[2].or /\ q[4].or = q[5].or
      BY <2>2, <2>4
    <3> SUFFICES ASSUME NEW i \in 1 .. 5
                 PROVE  /\ q[i].cmd = "read" => i + 1 \in 1 .. 5 /\ q[i + 1].cmd = "merge"
                        /\ i > 1 /\ q[i].cmd = "merge" => q[i - 1].cmd = "read" /\ q[i - 1].or = q[i].or
      BY <2>4 DEF Paired
    <3>2. CASE i = 1
      BY <3>1, <3>2
    <3>3. CASE i = 2
      BY <3>1, <3>3
    <3>4. CASE i = 3
      BY <3>1, <3>4
    <3>5. CASE i = 4
      BY <3>1, <3>5
    <3>6. CASE i = 5
      BY <3>1, <3>6
    <3> QED
      BY <3>2, <3>3, <3>4, <3>5, <3>6, <2>6
  <2>9. Purging(q)
    <3>1. \A c \in {c1, c2, c3, c4, c5} :
            /\ c.cmd \in {"read", "merge", "drain"}
            /\ c.or = "ignore" \/ (c.or = "fail" /\ c.reg = Reg("da1d"))
            /\ Writes(c) => c.reg = Reg("da1d")
      BY <2>2 DEF Writes
    <3>2. \A i \in DOMAIN q : q[i] \in {c1, c2, c3, c4, c5}
      BY <2>4, <2>6
    <3>3. q[Len(q)] = Cmd("merge", Reg("da1d"), 0, "ignore")[1]
      BY <2>3, <2>4
    <3> QED
      BY <3>1, <3>2, <3>3, <2>4 DEF Purging
  <2>10. Chain(q) /\ Purging(q) /\ q[1].cmd # "merge"
    BY <2>2, <2>4, <2>7, <2>8, <2>9 DEF Chain
  <2> QED
    BY <2>10 DEF q
<1> QED
  BY <1>3, <1>4, <1>5, <1>6

-----------------------------------------------------------------------------
(* What a command does to the registers, and where a procedure goes        *)

\* A command that is apt changes one register, and of a masked one the bit.
LEMMA EffectIs ==
  ASSUME Bits, NEW c, Apt(c), Effect(c)
  PROVE  /\ Bits' /\ \A v : RestKept(v) => RestKept(v)'
         /\ ~Writes(c) => regs' = regs
         /\ Writes(c) => /\ regs'[c.reg] = c.value
                         /\ \A r \in Registers : r # c.reg => regs'[r] = regs[r]
                         /\ c.reg \in Registers
         /\ fw = "running" => fw' = "running"
<1>1. /\ Reg("da1d") \in MaskedRegs /\ \A r \in MaskedRegs \cup PlainRegs \cup GpioRegs : r \in Registers
      /\ \A r \in PlainRegs \cup GpioRegs : r \notin MaskedRegs
  BY RegisterKinds
<1>2. fw = "running" => fw' = "running"
  BY DEF Effect
<1>3. CASE ~Writes(c)
  <2>1. regs' = regs
    BY <1>3 DEF Effect, Writes
  <2>2. Bits' /\ \A v : RestKept(v) => RestKept(v)'
    BY <2>1 DEF Bits, RestKept
  <2> QED
    BY <2>1, <2>2, <1>2, <1>3
<1>4. CASE Writes(c)
  <2>1. c.reg \in Registers /\ DOMAIN regs = Registers
    BY <1>1, <1>4 DEF Apt, Writes, Bits
  <2>2. regs' = [regs EXCEPT ![c.reg] = c.value]
    BY <1>4 DEF Effect, Writes
  <2>3. /\ DOMAIN regs' = Registers /\ regs'[c.reg] = c.value
        /\ \A r \in Registers : r # c.reg => regs'[r] = regs[r]
    BY <2>1, <2>2
  <2>4. c.reg \in MaskedRegs => RestKept(c.value)
    BY <1>1, <1>4 DEF Apt, Writes
  <2>5. regs'[Reg("da1d")] \div 2 = regs[Reg("da1d")] \div 2
    <3>1. CASE c.reg = Reg("da1d")
      <4>1. c.value \div 2 = regs[Reg("da1d")] \div 2
        BY <3>1, <2>4, <1>1 DEF RestKept
      <4> QED
        BY <4>1, <3>1, <2>3
    <3>2. CASE c.reg # Reg("da1d")
      BY <3>2, <2>3, <1>1
    <3> QED
      BY <3>1, <3>2
  <2>6. \A v : RestKept(v) => RestKept(v)'
    BY <2>5 DEF RestKept
  <2>7. \A r \in MaskedRegs : RestKept(regs'[r])
    <3> TAKE r \in MaskedRegs
    <3>1. CASE r = c.reg
      BY <3>1, <2>3, <2>4
    <3>2. CASE r # c.reg
      BY <3>2, <2>3, <1>1 DEF Bits
    <3> QED
      BY <3>1, <3>2
  <2>8. \A r \in MaskedRegs : RestKept(regs[r])'
    BY <2>5, <2>7 DEF RestKept
  <2>9. Bits'
    BY <2>3, <2>8 DEF Bits
  <2> QED
    BY <2>1, <2>3, <2>6, <2>9, <1>2, <1>4
<1> QED
  BY <1>3, <1>4

LEMMA SameRegs ==
  ASSUME regs' = regs
  PROVE  /\ Bits => Bits'
         /\ \A v : RestKept(v) => RestKept(v)'
         /\ \A r : Held(r)' = Held(r)
         /\ \A n : Done(n) /\ fw' = fw => Done(n)'
         /\ SetUp => SetUp'
BY DEF Bits, RestKept, Held, Done, SetUp

\* As a procedure goes on, or ends.
LEMMA GoOnIs ==
  ASSUME NEW rest, NEW res, GoOn(rest, res), phase \in {"opening", "ready"}
  PROVE  \/ /\ rest # <<>> /\ todo' = rest /\ result' = res /\ phase' = phase /\ purged' = purged
         \/ /\ rest = <<>> \/ res = "failed"
            /\ todo' = <<>> /\ result' = "ok"
            /\ phase' = IF phase = "ready" \/ res # "failed" THEN "ready" ELSE "closed"
            /\ purged' = IF \/ phase = "opening" \/ todo[1].or = "ignore"
                            \/ todo[1].reg = Reg("da1d")
                         THEN res ELSE purged
BY DEF GoOn

LEMMA CourseGoes ==
  ASSUME Course, Sequence(todo), NEW rest, NEW res, GoOn(rest, res),
         phase \in {"opening", "ready"},
         \/ rest = <<>>
         \/ \E m \in 2 .. Len(todo) :
              rest = SubSeq(todo, m, Len(todo)) /\ (todo[m].cmd = "merge" => RestKept(got)')
  PROVE  Course'
<1>1. \/ todo' = <<>> /\ result' = "ok"
      \/ todo' = rest /\ rest # <<>>
  BY GoOnIs
<1>2. CASE todo' = <<>> /\ result' = "ok"
  <2>1. Chain(todo')
    BY <1>2, EmptyIs DEF Chain, Paired
  <2>2. Chain(todo)'
    BY <2>1 DEF Chain, Paired, Proper
  <2> QED
    BY <1>2, <2>2 DEF Course
<1>3. CASE todo' = rest /\ rest # <<>>
  <2>1. PICK m \in 2 .. Len(todo) :
          rest = SubSeq(todo, m, Len(todo)) /\ (todo[m].cmd = "merge" => RestKept(got)')
    BY <1>3
  <2>2. Len(todo) \in Nat /\ m \in 1 .. Len(todo) + 1
    BY SeqIs
  <2>3. Chain(todo')
    BY <2>1, <2>2, <1>3, ChainRest DEF Course
  <2>4. rest[1] = todo[m]
    <3>1. 1 \in 1 .. Len(todo) + 1 - m /\ m + 1 - 1 = m
      BY <2>2
    <3>2. \A i \in 1 .. Len(todo) + 1 - m : SubSeq(todo, m, Len(todo))[i] = todo[m + i - 1]
      BY <2>2, RestIs
    <3>3. SubSeq(todo, m, Len(todo))[1] = todo[m + 1 - 1]
      BY <3>1, <3>2
    <3> QED
      BY <3>1, <3>3, <2>1
  <2>5. Chain(todo)'
    BY <2>3 DEF Chain, Paired, Proper
  <2> QED
    BY <2>1, <2>4, <2>5, <1>3 DEF Course
<1> QED
  BY <1>1, <1>2, <1>3

\* All of open_bridge is done: the bridge is set up, its buffer out of reset.
LEMMA AllDone ==
  ASSUME Done(Len(OpenBridge) + 1)
  PROVE  fw = "running" /\ SetUp /\ Held(Reg("da1d")) = 0
<1>1. Len(OpenBridge) \in Nat /\ Len(OpenBridge) >= 10 + Blocks
      /\ DOMAIN OpenBridge = 1 .. Len(OpenBridge) /\ Blocks \in Nat
  BY Placement, FaultsAssumption
<1>2. \A i \in DOMAIN OpenBridge : i < Len(OpenBridge) + 1 /\ i \in Nat
  BY <1>1
<1>3. \A i \in DOMAIN OpenBridge : Lasts(i, Len(OpenBridge)) => Lasts(i, Len(OpenBridge) + 1)
  <2>1. \A j \in DOMAIN OpenBridge : j <= Len(OpenBridge)
    BY <1>1
  <2> QED
    BY <2>1 DEF Lasts
<1>4. \A i \in DOMAIN OpenBridge :
        Lasts(i, Len(OpenBridge)) => Held(OpenBridge[i].reg) = OpenBridge[i].value
  BY <1>2, <1>3 DEF Done
<1>5. Held(Reg("da1d")) = 0
  <2>1. PICK i \in DOMAIN OpenBridge :
          /\ Writes(OpenBridge[i]) /\ OpenBridge[i].or # "load"
          /\ OpenBridge[i].reg = Reg("da1d") /\ OpenBridge[i].value = 0
          /\ \A j \in DOMAIN OpenBridge :
               i < j /\ Writes(OpenBridge[j]) /\ OpenBridge[j].reg = Reg("da1d") => OpenBridge[j].value = 0
    BY OpenBridgeIs DEF Ends
  <2>2. Lasts(i, Len(OpenBridge))
    BY <2>1 DEF Lasts
  <2> QED
    BY <2>1, <2>2, <1>4
<1>6. Len(OpenBridge) + 1 > 10 + Blocks
  BY <1>1
<1> QED
  BY <1>4, <1>5, <1>6 DEF SetUp, Done

\* open_bridge goes on from its k-th command, or ends.
LEMMA OpeningGoes ==
  ASSUME phase = "opening", regs' = regs, fw' = fw,
         NEW k \in 1 .. Len(OpenBridge) + 1, NEW res \in {"ok", "failed"}, GoOn(From(k), res),
         res = "ok" => /\ Done(k)
                       /\ k = Len(OpenBridge) + 1 => out' = <<>>
                       /\ k \in DOMAIN OpenBridge /\ OpenBridge[k].cmd # "raise" =>
                            \A j \in DOMAIN out' : out'[j].fresh \/ ~Writes(out'[j])
  PROVE  /\ phase' \in {"opening", "ready", "closed"}
         /\ phase' = "opening" => Warming'
         /\ phase' = "ready" => Warm'
<1>1. /\ Sequence(OpenBridge) /\ Len(OpenBridge) \in Nat /\ DOMAIN OpenBridge = 1 .. Len(OpenBridge)
      /\ (From(k) = <<>> <=> k = Len(OpenBridge) + 1)
  BY Placement, RestIs DEF From
<1> DEFINE rest == From(k)
<1>2. \/ /\ rest # <<>> /\ todo' = rest /\ result' = res /\ phase' = phase
      \/ /\ rest = <<>> \/ res = "failed"
         /\ todo' = <<>> /\ result' = "ok"
         /\ phase' = IF phase = "ready" \/ res # "failed" THEN "ready" ELSE "closed"
         /\ purged' = res
  <2>1. GoOn(rest, res)
    OBVIOUS
  <2> HIDE DEF rest
  <2> QED
    BY <2>1, GoOnIs
<1>3. CASE rest # <<>> /\ todo' = rest /\ result' = res /\ phase' = phase
  <2>1. k \in DOMAIN OpenBridge
    BY <1>1, <1>3
  <2>2. res = "ok" => Done(k)'
    BY SameRegs
  <2>3. \E n \in DOMAIN OpenBridge : todo' = From(n) /\ (result' = "ok" => Done(n)')
    BY <2>1, <2>2, <1>3
  <2>4. todo'[1] = OpenBridge[k]
    BY <2>1, <1>3, FromIs
  <2>5. result' = "ok" /\ todo'[1].cmd # "raise" =>
          \A j \in DOMAIN out' : (out[j].fresh \/ ~Writes(out[j]))'
    BY <2>1, <2>4, <1>3 DEF Writes
  <2>6. Warming'
    BY <2>3, <2>5, <1>3 DEF Warming
  <2> QED
    BY <2>6, <1>3
<1>4. CASE /\ rest = <<>> \/ res = "failed"
           /\ todo' = <<>> /\ result' = "ok"
           /\ phase' = IF phase = "ready" \/ res # "failed" THEN "ready" ELSE "closed"
           /\ purged' = res
  <2>1. CASE res = "failed"
    BY <2>1, <1>4
  <2>2. CASE res = "ok"
    <3>1. k = Len(OpenBridge) + 1 /\ phase' = "ready"
      BY <2>2, <1>1, <1>4
    <3>2. fw = "running" /\ SetUp /\ Held(Reg("da1d")) = 0 /\ out' = <<>>
      BY <3>1, <2>2, AllDone
    <3>3. SetUp' /\ Held(Reg("da1d"))' = 0 /\ fw' = "running"
      BY <3>2, SameRegs
    <3>4. DOMAIN out' = {} /\ DOMAIN todo' = {}
      BY <3>2, <1>4, EmptyIs
    <3>5. Warm'
      BY <3>3, <3>4 DEF Warm, Serving
    <3> QED
      BY <3>1, <3>5
  <2> QED
    BY <2>1, <2>2
<1> QED
  BY <1>2, <1>3, <1>4

\* Another procedure goes on, or ends; a purge that ends well did so with its last
\* command.
LEMMA ReadyGoes ==
  ASSUME phase = "ready", Warm, todo # <<>>, Sequence(todo), regs' = regs, fw' = fw,
         \A j \in DOMAIN out' : j \in DOMAIN out /\ out'[j].cmd = out[j].cmd /\ out'[j].reg = out[j].reg,
         NEW rest, NEW res, GoOn(rest, res),
         rest = <<>> \/ \E m \in 2 .. Len(todo) : rest = SubSeq(todo, m, Len(todo)),
         Purging(todo) /\ rest = <<>> /\ res = "ok" => Held(Reg("da1d")) = 0 /\ out' = <<>>
  PROVE  phase' = "ready" /\ Warm'
<1>1. \/ rest # <<>> /\ todo' = rest /\ phase' = "ready" /\ purged' = purged
      \/ /\ rest = <<>> \/ res = "failed"
         /\ todo' = <<>> /\ phase' = "ready"
         /\ purged' = IF todo[1].or = "ignore" \/ todo[1].reg = Reg("da1d") THEN res ELSE purged
  BY GoOnIs
<1>2. Len(todo) \in Nat \ {0} /\ 1 \in DOMAIN todo
  BY TailIs
<1>3. rest # <<>> => (Purging(todo) => Purging(rest)) /\ (Serving(todo) => Serving(rest))
  <2> HAVE rest # <<>>
  <2>1. PICK m \in 2 .. Len(todo) : rest = SubSeq(todo, m, Len(todo))
    OBVIOUS
  <2>2. m \in 1 .. Len(todo) + 1 /\ m # Len(todo) + 1
    BY <1>2
  <2> QED
    BY <2>1, <2>2, ChainRest
<1>4. Serving(<<>>)
  BY EmptyIs DEF Serving
<1>5. \A q : Purging(q) => ~Serving(q) \/ ~Sequence(q)
  <2> SUFFICES ASSUME NEW q, Purging(q), Serving(q), Sequence(q) PROVE FALSE
    OBVIOUS
  <2>1. q # <<>> /\ q[Len(q)] = Cmd("merge", Reg("da1d"), 0, "ignore")[1]
    BY DEF Purging
  <2>2. q[Len(q)].or = "ignore"
    BY <2>1 DEF Cmd
  <2>3. Len(q) \in DOMAIN q
    <3>1. Len(q) \in Nat \ {0} /\ DOMAIN q = 1 .. Len(q)
      BY <2>1, TailIs
    <3> QED
      BY <3>1
  <2> QED
    BY <2>2, <2>3 DEF Serving
<1>6. Purging(todo') \/ Serving(todo')
  BY <1>1, <1>3, <1>4 DEF Warm
<1>7. \A j \in DOMAIN out' : Writes(out'[j]) => out'[j].reg \in GpioRegs \cup {Reg("da1d")}
  BY DEF Warm, Writes
<1>8. purged' = "ok" /\ Serving(todo') =>
        /\ Held(Reg("da1d")) = 0
        /\ \A j \in DOMAIN out' : ~(Writes(out'[j]) /\ out'[j].reg = Reg("da1d"))
  <2> SUFFICES ASSUME purged' = "ok", Serving(todo')
               PROVE  /\ Held(Reg("da1d")) = 0
                      /\ \A j \in DOMAIN out' : ~(Writes(out'[j]) /\ out'[j].reg = Reg("da1d"))
    OBVIOUS
  <2>1. CASE Serving(todo)
    <3>1. todo[1].or = "fail" /\ todo[1].reg # Reg("da1d")
      BY <2>1, <1>2 DEF Serving
    <3>2. purged' = purged
      BY <3>1, <1>1
    <3> QED
      BY <3>2, <2>1 DEF Warm, Writes
  <2>2. CASE Purging(todo)
    <3>1. todo[1].or = "ignore" \/ todo[1].reg = Reg("da1d")
      BY <2>2, <1>2 DEF Purging
    <3>2. CASE rest # <<>> /\ todo' = rest
      <4>1. Purging(rest) /\ Serving(rest)
        BY <3>2, <2>2, <1>3
      <4>2. Sequence(rest)
        <5>1. PICK m \in 2 .. Len(todo) : rest = SubSeq(todo, m, Len(todo))
          BY <3>2
        <5>2. m \in 1 .. Len(todo) + 1
          BY <1>2
        <5> QED
          BY <5>1, <5>2, RestIs
      <4> QED
        BY <4>1, <4>2, <1>5
    <3>3. CASE (rest = <<>> \/ res = "failed") /\ purged' = res
      <4>1. res = "ok" /\ rest = <<>>
        BY <3>3
      <4>2. Held(Reg("da1d")) = 0 /\ out' = <<>>
        BY <4>1, <2>2
      <4> QED
        BY <4>2, EmptyIs
    <3> QED
      BY <3>1, <3>2, <3>3, <1>1
  <2> QED
    BY <2>1, <2>2 DEF Warm
<1>9. fw' = "running" /\ SetUp' /\ Held(Reg("da1d"))' = Held(Reg("da1d"))
  BY SameRegs DEF Warm
<1>10. Warm'
  <2>1. (Purging(todo) \/ Serving(todo))'
    BY <1>6 DEF Purging, Serving, Writes
  <2>2. (purged = "ok" /\ Serving(todo))' =>
          /\ Held(Reg("da1d"))' = 0
          /\ \A j \in DOMAIN out' : ~(Writes(out'[j]) /\ out'[j].reg = Reg("da1d"))
    BY <1>8, <1>9 DEF Serving, Writes
  <2>3. \A j \in DOMAIN out' : (Writes(out[j]) => out[j].reg \in GpioRegs \cup {Reg("da1d")})'
    BY <1>7 DEF Writes
  <2> QED
    BY <2>1, <2>2, <2>3, <1>9 DEF Warm, Writes
<1> QED
  BY <1>1, <1>10

-----------------------------------------------------------------------------
(* A failure and a success                                                 *)

LEMMA WireGoes ==
  ASSUME Wire, Numbered(out), regs' = regs, out' = Kept(out) \/ DOMAIN out' = {},
         \A i \in DOMAIN in' : in'[i].fresh = FALSE
  PROVE  Wire'
<1>1. \A j \in DOMAIN out' : /\ j \in DOMAIN out /\ out'[j].fresh = FALSE
                             /\ DOMAIN out'[j] = DOMAIN out[j]
  BY DEF Kept, Numbered
<1>2. \A j \in DOMAIN out' : /\ out'[j].cmd = out[j].cmd /\ out'[j].reg = out[j].reg
                             /\ out'[j].value = out[j].value
  <2> TAKE j \in DOMAIN out'
  <2>1. out' = Kept(out) /\ j \in DOMAIN out
    BY <1>1
  <2>2. out'[j] = [out[j] EXCEPT !.fresh = FALSE]
    BY <2>1 DEF Kept
  <2>3. {"cmd", "reg", "value"} \subseteq DOMAIN out[j]
    BY <2>1 DEF Wire, Apt
  <2> QED
    BY <2>2, <2>3
<1>3. \A j \in DOMAIN out' : Apt(out[j])'
  <2> TAKE j \in DOMAIN out'
  <2>1. Apt(out[j])
    BY <1>1 DEF Wire
  <2> QED
    BY <2>1, <1>1, <1>2 DEF Apt, RestKept
<1> QED
  BY <1>1, <1>3 DEF Wire

\* Until the firmware was loaded nothing is written that lasts.
LEMMA NothingLasts ==
  ASSUME NEW k \in Nat, k <= 10 + Blocks
  PROVE  \A i \in DOMAIN OpenBridge : i < k => ~Lasts(i, k)
<1> TAKE i \in DOMAIN OpenBridge
<1> HAVE i < k
<1>1. Placed(i, OpenBridge[i]) /\ i \in 1 .. Len(OpenBridge) /\ Len(OpenBridge) \in Nat
  BY Placement
<1>2. i <= 5 \/ i = 6 \/ i = 7 \/ i \in 8 .. 10 + Blocks
  BY <1>1, FaultsAssumption
<1>3. OpenBridge[i].cmd \in {"raise", "eeprom", "query"} \/ OpenBridge[i].or = "load"
  BY <1>1, <1>2 DEF Placed
<1> QED
  BY <1>3 DEF Lasts, Writes

LEMMA DoneEarly ==
  ASSUME NEW k \in Nat, k <= 10 + Blocks
  PROVE  Done(k) /\ Done(k)'
<1>1. ~(k > 10 + Blocks)
  BY FaultsAssumption
<1> QED
  BY <1>1, NothingLasts DEF Done

LEMMA FailureWarm ==
  ASSUME IInv, LoadInv, WarmInv, todo # <<>>, Failure, regs' = regs, fw' = fw,
         \A i \in DOMAIN in' : in'[i].fresh = FALSE
  PROVE  WarmInv'
<1>1. /\ phase \in {"opening", "ready"} /\ Sequence(todo) /\ Len(todo) \in Nat \ {0}
      /\ todo[1].or \in Outcomes /\ 1 \in DOMAIN todo
  BY AtHead, TailIs DEF LoadInv
<1>2. PICK rest, res :
        /\ GoOn(rest, res) /\ Blamed(todo[1].or, res)
        /\ todo[1].or = "retry" => rest = SubSeq(todo, 2, Len(todo))
        /\ \/ rest = <<>>
           \/ /\ todo[1].or \notin {"fail", "load"}
              /\ \E m \in 2 .. Len(todo) :
                   /\ rest = SubSeq(todo, m, Len(todo))
                   /\ todo[1].or = "retry" => m = 2
                   /\ Paired(todo) /\ (todo[1].or = "retry" => todo[1].cmd # "read")
                        => todo[m].cmd # "merge"
  BY <1>1, FailureGoes
<1>3. out' = Kept(out) /\ got' = got /\ gpioOut' = gpioOut /\ gpioOn' = gpioOn
  BY DEF Failure, Kept
<1>4. Numbered(out)
  BY DEF IInv, Types
<1>5. Bits' /\ Wire'
  BY <1>3, <1>4, SameRegs, WireGoes DEF WarmInv
<1>6. \A j \in DOMAIN out' : /\ j \in DOMAIN out /\ out'[j].fresh = FALSE
                             /\ out'[j].cmd = out[j].cmd /\ out'[j].reg = out[j].reg
  <2> TAKE j \in DOMAIN out'
  <2>1. j \in DOMAIN out /\ out'[j] = [out[j] EXCEPT !.fresh = FALSE]
    BY <1>3 DEF Kept
  <2>2. {"cmd", "reg", "value"} \subseteq DOMAIN out[j] /\ "fresh" \in DOMAIN out[j]
    BY <2>1, <1>4 DEF WarmInv, Wire, Apt, Numbered
  <2> QED
    BY <2>1, <2>2
<1>7. CASE phase = "ready"
  <2>1. Warm /\ Pins /\ Course
    BY <1>7 DEF WarmInv
  <2>2. todo[1].or \in {"fail", "ignore"}
    BY <2>1, <1>1 DEF Warm, Purging, Serving
  <2>3. res # "ok"
    BY <2>2, <1>2 DEF Blamed
  <2>4. rest = <<>> \/ \E m \in 2 .. Len(todo) : rest = SubSeq(todo, m, Len(todo))
    BY <1>2
  <2>5. phase' = "ready" /\ Warm'
    BY <2>1, <2>3, <2>4, <1>1, <1>2, <1>6, <1>7, ReadyGoes
  <2>6. \/ rest = <<>>
        \/ \E m \in 2 .. Len(todo) :
             rest = SubSeq(todo, m, Len(todo)) /\ (todo[m].cmd = "merge" => RestKept(got)')
    BY <2>1, <2>2, <1>2 DEF Course, Chain
  <2>7. Course'
    BY <2>1, <2>6, <1>1, <1>2, CourseGoes
  <2>8. Pins'
    BY <2>1, <1>3 DEF Pins
  <2> QED
    BY <2>5, <2>7, <2>8, <1>5 DEF WarmInv
<1>8. CASE phase = "opening"
  <2>1. Warming /\ Pins /\ Course
    BY <1>8 DEF WarmInv
  <2>2. PICK n \in DOMAIN OpenBridge : todo = From(n) /\ (result = "ok" => Done(n))
    BY <2>1 DEF Warming
  <2>3. /\ Placed(n, todo[1]) /\ n \in 1 .. Len(OpenBridge) /\ n \in Nat
        /\ Len(OpenBridge) \in Nat /\ Len(OpenBridge) >= 10 + Blocks
        /\ Len(todo) = Len(OpenBridge) + 1 - n /\ Sequence(OpenBridge)
        /\ DOMAIN OpenBridge = 1 .. Len(OpenBridge)
    BY <2>2, FromIs, Placement
  <2>4. /\ todo[1].or \in {"fail", "load", "retry", "bracket", "close"}
        /\ todo[1].or = "retry" => n <= 4 /\ todo[1].cmd = "raise"
    <3>1. n <= 4 \/ n \in {5, 6, 7} \/ n \in 8 .. 10 + Blocks \/ n > 10 + Blocks
      BY <2>3, FaultsAssumption
    <3>2. /\ n <= 4 => todo[1].or = "retry" /\ todo[1].cmd = "raise"
          /\ n \in {5, 6, 7} => todo[1].or = "fail"
          /\ n \in 8 .. 10 + Blocks => todo[1].or = "load"
          /\ n > 10 + Blocks => todo[1].or \in {"fail", "bracket", "close"}
      <4>1. n <= 4 => n <= 5
        BY <2>3
      <4> QED
        BY <4>1, <2>3 DEF Placed
    <3> QED
      BY <3>1, <3>2
  <2>5. \/ rest = <<>>
        \/ \E m \in 2 .. Len(todo) :
             rest = SubSeq(todo, m, Len(todo)) /\ (todo[m].cmd = "merge" => RestKept(got)')
    BY <2>1, <2>4, <1>2 DEF Course, Chain
  <2>6. Course'
    BY <2>1, <2>5, <1>1, <1>2, CourseGoes
  <2>7. Pins'
    BY <2>1, <1>3 DEF Pins
  <2>8. res \in {"ok", "failed"} /\ (res = "ok" => todo[1].or = "retry" /\ result = "ok")
    BY <2>1, <2>4, <1>2 DEF Blamed, Warming
  <2>9. \A m \in 2 .. Len(todo) + 1 :
          SubSeq(todo, m, Len(todo)) = From(n + m - 1) /\ n + m - 1 \in 1 .. Len(OpenBridge) + 1
    <3> TAKE m \in 2 .. Len(todo) + 1
    <3>1. SubSeq(From(n), m, Len(From(n))) = From(n + m - 1)
      BY <2>2, FromFrom
    <3>2. n + m - 1 \in 1 .. Len(OpenBridge) + 1
      BY <2>3
    <3> QED
      BY <3>1, <3>2, <2>2
  <2>10. \E k \in 1 .. Len(OpenBridge) + 1 :
           rest = From(k) /\ (todo[1].or = "retry" => k = n + 1)
    <3>1. CASE todo[1].or = "retry"
      <4>1. rest = SubSeq(todo, 2, Len(todo)) /\ 2 \in 2 .. Len(todo) + 1 /\ n + 2 - 1 = n + 1
        BY <3>1, <2>3, <1>1, <1>2
      <4>2. rest = From(n + 2 - 1) /\ n + 2 - 1 \in 1 .. Len(OpenBridge) + 1
        BY <4>1, <2>9
      <4> QED
        BY <4>1, <4>2
    <3>2. CASE todo[1].or # "retry" /\ rest = <<>>
      <4>1. Len(OpenBridge) + 1 \in 1 .. Len(OpenBridge) + 1
        BY <2>3
      <4>2. From(Len(OpenBridge) + 1) = <<>>
        BY <4>1, <2>3, RestIs DEF From
      <4> QED
        BY <4>1, <4>2, <3>2
    <3>3. CASE todo[1].or # "retry" /\ \E m \in 2 .. Len(todo) : rest = SubSeq(todo, m, Len(todo))
      <4>1. PICK m \in 2 .. Len(todo) : rest = SubSeq(todo, m, Len(todo))
        BY <3>3
      <4>2. m \in 2 .. Len(todo) + 1
        BY <1>1
      <4>3. rest = From(n + m - 1) /\ n + m - 1 \in 1 .. Len(OpenBridge) + 1
        BY <4>1, <4>2, <2>9
      <4> QED
        BY <4>3, <3>3
    <3> QED
      BY <3>1, <3>2, <3>3, <1>2
  <2>11. PICK k \in 1 .. Len(OpenBridge) + 1 : rest = From(k) /\ (todo[1].or = "retry" => k = n + 1)
    BY <2>10
  <2>12. res = "ok" => Done(k) /\ k # Len(OpenBridge) + 1 /\ OpenBridge[k].cmd = "raise"
    <3> HAVE res = "ok"
    <3>1. k = n + 1 /\ n <= 4 /\ todo[1].cmd = "raise" /\ result = "ok"
      BY <2>4, <2>8, <2>11
    <3>2. k \in Nat /\ k <= 10 + Blocks /\ k # Len(OpenBridge) + 1
      BY <3>1, <2>3, FaultsAssumption
    <3>3. OpenBridge[k].cmd = "raise"
      <4>1. k \in DOMAIN OpenBridge /\ k <= 5
        BY <3>1, <3>2, <2>3
      <4> QED
        BY <4>1, Placement DEF Placed
    <3> QED
      BY <3>2, <3>3, DoneEarly
  <2>13. GoOn(From(k), res)
    BY <2>11, <1>2
  <2>14. /\ phase' \in {"opening", "ready", "closed"}
         /\ phase' = "opening" => Warming'
         /\ phase' = "ready" => Warm'
    BY <2>8, <2>12, <2>13, <1>8, OpeningGoes
  <2> QED
    BY <2>6, <2>7, <2>14, <1>5 DEF WarmInv
<1> QED
  BY <1>1, <1>7, <1>8

LEMMA SuccessWarm ==
  ASSUME IInv, LoadInv, WarmInv, todo # <<>>, NEW value, Success(value), regs' = regs, fw' = fw,
         out = <<>>, \A i \in DOMAIN in' : in'[i].fresh = FALSE,
         Writes(todo[1]) => Held(todo[1].reg) = todo[1].value,
         todo[1].cmd = "read" => RestKept(value),
         todo[1].cmd \in {"query", "booted"} /\ value # 0 => fw = "running",
         todo[1].cmd = "booted" => value # 0
  PROVE  WarmInv'
<1>1. /\ phase \in {"opening", "ready"} /\ Sequence(todo) /\ Len(todo) \in Nat \ {0}
      /\ DOMAIN todo = 1 .. Len(todo) /\ 1 \in DOMAIN todo
  BY AtHead, TailIs DEF LoadInv
<1>2. PICK m \in 2 .. Len(todo) + 1 :
        /\ GoOn(SubSeq(todo, m, Len(todo)), result)
        /\ todo[1].cmd = "raise" =>
             /\ \A i \in 2 .. m - 1 : todo[i].cmd = "raise"
             /\ m <= Len(todo) => todo[m].cmd # "raise"
        /\ todo[1].cmd = "query" /\ m # 2 =>
             /\ value # 0 /\ \A i \in 2 .. m - 1 : todo[i].or = "load"
        /\ todo[1].cmd = "query" =>
             m = 2 \/ (m <= Len(todo) => todo[m].or # "load")
        /\ todo[1].cmd \notin {"raise", "query"} => m = 2
  BY <1>1, SuccessGoes
<1> DEFINE rest == SubSeq(todo, m, Len(todo))
<1>3. GoOn(rest, result) /\ rest = SubSeq(todo, m, Len(todo))
  BY <1>2
<1>4. m \in 1 .. Len(todo) + 1 /\ m \in Nat /\ m >= 2
  BY <1>1
<1>5. rest = <<>> <=> m = Len(todo) + 1
  BY <1>1, <1>4, RestIs
<1> HIDE DEF rest
<1>6. /\ out' = <<>> /\ (todo[1].cmd = "read" => got' = value)
      /\ gpioOut' = IF todo[1].reg[1] = "mode" THEN gpioOut \cup {todo[1].reg[2]} ELSE gpioOut
      /\ gpioOn' = IF todo[1].reg[1] = "on" THEN gpioOn \cup {todo[1].reg[2]} ELSE gpioOn
  BY DEF Success
<1>7. Bits' /\ Wire'
  <2>1. Numbered(out) /\ DOMAIN out' = {}
    BY <1>6, EmptyIs DEF IInv, Types
  <2> QED
    BY <2>1, SameRegs, WireGoes DEF WarmInv
<1>8. Course /\ Chain(todo) /\ Pins
  BY <1>1 DEF WarmInv, Course
<1>9. m <= Len(todo) /\ todo[m].cmd = "merge" => RestKept(got)'
  <2> SUFFICES ASSUME m <= Len(todo), todo[m].cmd = "merge" PROVE RestKept(got)'
    OBVIOUS
  <2>1. m \in DOMAIN todo /\ m > 1
    BY <1>1, <1>4
  <2>2. todo[m - 1].cmd = "read" /\ todo[m - 1].or = todo[m].or
    BY <2>1, <1>8 DEF Chain, Paired
  <2>3. CASE m = 2
    <3>1. m - 1 = 1
      BY <2>3
    <3>2. todo[1].cmd = "read"
      BY <3>1, <2>2
    <3>3. RestKept(value)'
      BY <3>2, SameRegs
    <3> QED
      BY <3>2, <3>3, <1>6 DEF RestKept
  <2>4. CASE m # 2
    <3>1. m - 1 \in 2 .. m - 1
      BY <2>4, <1>4
    <3>2. todo[1].cmd = "raise" \/ todo[1].cmd = "query"
      BY <2>4, <1>2
    <3>3. CASE todo[1].cmd = "raise"
      <4>1. todo[m - 1].cmd = "raise"
        BY <3>1, <3>3, <1>2
      <4> QED
        BY <4>1, <2>2
    <3>4. CASE todo[1].cmd = "query"
      <4>1. todo[m - 1].or = "load" /\ todo[m].or # "load"
        BY <3>1, <3>4, <2>4, <1>2
      <4> QED
        BY <4>1, <2>2
    <3> QED
      BY <3>2, <3>3, <3>4
  <2> QED
    BY <2>3, <2>4
<1>10. rest = <<>> \/ m \in 2 .. Len(todo)
  BY <1>1, <1>4, <1>5
<1>11. Course'
  <2>1. m \in 2 .. Len(todo) => m <= Len(todo)
    BY <1>1
  <2>2. \/ rest = <<>>
        \/ \E k \in 2 .. Len(todo) :
             rest = SubSeq(todo, k, Len(todo)) /\ (todo[k].cmd = "merge" => RestKept(got)')
    BY <2>1, <1>3, <1>9, <1>10
  <2> QED
    BY <2>2, <1>1, <1>3, <1>8, CourseGoes
<1>12. Pins'
  <2>1. Proper(todo[1])
    BY <1>1, <1>8 DEF Chain
  <2>2. todo[1].reg[1] \in {"mode", "on"} =>
          /\ todo[1].reg \in GpioRegs /\ regs[todo[1].reg] = 1
    <3> HAVE todo[1].reg[1] \in {"mode", "on"}
    <3>1. todo[1].cmd = "write" /\ todo[1].reg \in GpioRegs /\ todo[1].value = 1
      BY <2>1 DEF Proper
    <3>2. todo[1].reg \notin MaskedRegs
      BY <3>1, RegisterKinds
    <3>3. Held(todo[1].reg) = 1
      BY <3>1 DEF Writes
    <3> QED
      BY <3>1, <3>2, <3>3 DEF Held
  <2>3. \A r \in GpioRegs : r = <<r[1], r[2]>> /\ r[2] \in Gpios
    BY DEF GpioRegs
  <2>4. todo[1].reg[1] = "mode" => regs[<<"mode", todo[1].reg[2]>>] = 1 /\ todo[1].reg[2] \in Gpios
    <3> HAVE todo[1].reg[1] = "mode"
    <3>1. todo[1].reg \in GpioRegs /\ regs[todo[1].reg] = 1
      BY <2>2
    <3>2. todo[1].reg = <<"mode", todo[1].reg[2]>> /\ todo[1].reg[2] \in Gpios
      BY <3>1, <2>3
    <3> QED
      BY <3>1, <3>2
  <2>5. todo[1].reg[1] = "on" => regs[<<"on", todo[1].reg[2]>>] = 1 /\ todo[1].reg[2] \in Gpios
    <3> HAVE todo[1].reg[1] = "on"
    <3>1. todo[1].reg \in GpioRegs /\ regs[todo[1].reg] = 1
      BY <2>2
    <3>2. todo[1].reg = <<"on", todo[1].reg[2]>> /\ todo[1].reg[2] \in Gpios
      BY <3>1, <2>3
    <3> QED
      BY <3>1, <3>2
  <2>6. \A g \in gpioOut' : g \in Gpios /\ regs'[<<"mode", g>>] = 1
    BY <2>4, <1>6, <1>8 DEF Pins
  <2>7. \A g \in gpioOn' : g \in Gpios /\ regs'[<<"on", g>>] = 1
    BY <2>5, <1>6, <1>8 DEF Pins
  <2> QED
    BY <2>6, <2>7 DEF Pins
<1>13. CASE phase = "ready"
  <2>1. Warm
    BY <1>13 DEF WarmInv
  <2>2. Purging(todo) /\ rest = <<>> => Held(Reg("da1d")) = 0 /\ out' = <<>>
    <3> HAVE Purging(todo) /\ rest = <<>>
    <3>1. todo[1].cmd \in {"read", "merge", "drain"}
      BY <1>1 DEF Purging
    <3>2. m = 2 /\ m = Len(todo) + 1
      BY <3>1, <1>2, <1>5
    <3>3. Len(todo) = 1
      BY <3>2, <1>1
    <3>4. todo[1] = Cmd("merge", Reg("da1d"), 0, "ignore")[1]
      BY <3>3 DEF Purging
    <3>5. todo[1].cmd = "merge" /\ todo[1].reg = Reg("da1d") /\ todo[1].value = 0
      BY <3>4 DEF Cmd
    <3> QED
      BY <3>5, <1>6 DEF Writes
  <2>3. \A j \in DOMAIN out' : j \in DOMAIN out /\ out'[j].cmd = out[j].cmd /\ out'[j].reg = out[j].reg
    BY <1>6, EmptyIs
  <2>4. rest = <<>> \/ \E k \in 2 .. Len(todo) : rest = SubSeq(todo, k, Len(todo))
    BY <1>3, <1>10
  <2>5. phase' = "ready" /\ Warm'
    BY <2>1, <2>2, <2>3, <2>4, <1>1, <1>3, <1>13, ReadyGoes
  <2> QED
    BY <2>5, <1>7, <1>11, <1>12 DEF WarmInv
<1>14. CASE phase = "opening"
  <2>1. Warming
    BY <1>14 DEF WarmInv
  <2>2. PICK n \in DOMAIN OpenBridge : todo = From(n) /\ (result = "ok" => Done(n))
    BY <2>1 DEF Warming
  <2> DEFINE k == n + m - 1
  <2>3. /\ n \in 1 .. Len(OpenBridge) /\ n \in Nat
        /\ Len(OpenBridge) \in Nat /\ Len(OpenBridge) >= 10 + Blocks
        /\ Len(todo) = Len(OpenBridge) + 1 - n /\ Sequence(OpenBridge)
        /\ DOMAIN OpenBridge = 1 .. Len(OpenBridge)
        /\ \A i \in 1 .. Len(todo) : todo[i] = OpenBridge[n + i - 1]
        /\ todo[1] = OpenBridge[n]
        /\ \A i \in DOMAIN OpenBridge : Placed(i, OpenBridge[i])
    BY <2>2, FromIs, Placement
  <2>4. k \in 1 .. Len(OpenBridge) + 1 /\ k > n /\ k \in Nat
    BY <2>3, <1>1, <1>4
  <2>5. rest = From(k)
    <3>1. m \in 2 .. Len(From(n)) + 1
      BY <2>2
    <3>2. SubSeq(From(n), m, Len(From(n))) = From(n + m - 1)
      BY <3>1, FromFrom
    <3>3. From(k) = From(n + m - 1)
      OBVIOUS
    <3>4. rest = SubSeq(From(n), m, Len(From(n)))
      BY <2>2, <1>3
    <3> QED
      BY <3>2, <3>3, <3>4, Zenon
  <2>6. \A i \in DOMAIN OpenBridge :
          n < i /\ i < k => i - n + 1 \in 2 .. m - 1 /\ todo[i - n + 1] = OpenBridge[i]
    <3> TAKE i \in DOMAIN OpenBridge
    <3> HAVE n < i /\ i < k
    <3>1. i \in Nat /\ i - n + 1 \in 2 .. m - 1 /\ i - n + 1 \in 1 .. Len(todo) /\ n + (i - n + 1) - 1 = i
      BY <2>3, <1>1, <1>4
    <3>2. todo[i - n + 1] = OpenBridge[n + (i - n + 1) - 1]
      BY <3>1, <2>3
    <3> QED
      BY <3>1, <3>2
  \* What is passed over is no write that lasts.
  <2>7. \A i \in DOMAIN OpenBridge :
          n < i /\ i < k => /\ ~Lasts(i, k)
                            /\ OpenBridge[i].cmd = "booted" => todo[1].cmd = "query" /\ value # 0
    <3> TAKE i \in DOMAIN OpenBridge
    <3> HAVE n < i /\ i < k
    <3>1. i - n + 1 \in 2 .. m - 1 /\ todo[i - n + 1] = OpenBridge[i]
      BY <2>6
    <3>2. m # 2
      BY <3>1, <1>4
    <3>3. CASE todo[1].cmd = "raise"
      <4>1. OpenBridge[i].cmd = "raise"
        BY <3>1, <3>3, <1>2
      <4>2. ~Writes(OpenBridge[i])
        BY <4>1 DEF Writes
      <4> QED
        BY <4>1, <4>2 DEF Lasts
    <3>4. CASE todo[1].cmd = "query"
      <4>1. OpenBridge[i].or = "load" /\ value # 0
        BY <3>1, <3>2, <3>4, <1>2
      <4> QED
        BY <4>1, <3>4 DEF Lasts
    <3> QED
      BY <3>2, <3>3, <3>4, <1>2
  <2>8. result = "ok" =>
          \A i \in DOMAIN OpenBridge : i < k /\ Lasts(i, k) => Held(OpenBridge[i].reg) = OpenBridge[i].value
    <3> HAVE result = "ok"
    <3> TAKE i \in DOMAIN OpenBridge
    <3> HAVE i < k /\ Lasts(i, k)
    <3>1. i \in Nat /\ \A j \in DOMAIN OpenBridge : j \in Nat
      BY <2>3
    <3>2. CASE i < n
      <4>1. \A j \in DOMAIN OpenBridge : j <= n => j <= k
        BY <3>1, <2>3, <2>4
      <4>2. Lasts(i, n)
        BY <4>1 DEF Lasts
      <4> QED
        BY <4>2, <3>2, <2>2 DEF Done
    <3>3. CASE i = n
      BY <3>3, <2>3 DEF Lasts
    <3>4. CASE n < i
      BY <3>4, <2>7
    <3> QED
      BY <3>1, <3>2, <3>3, <3>4, <2>3
  <2>9. result = "ok" /\ k > 10 + Blocks => fw = "running"
    <3> HAVE result = "ok" /\ k > 10 + Blocks
    <3>1. CASE n > 10 + Blocks
      BY <3>1, <2>2 DEF Done
    <3>2. CASE n = 10 + Blocks
      <4>1. todo[1].cmd = "booted"
        BY <3>2, <2>3 DEF Placed
      <4> QED
        BY <4>1
    <3>3. CASE n < 10 + Blocks
      <4>1. 10 + Blocks \in DOMAIN OpenBridge /\ n < 10 + Blocks /\ 10 + Blocks < k
        BY <3>3, <2>3, FaultsAssumption
      <4>2. OpenBridge[10 + Blocks].cmd = "booted"
        BY <4>1, <2>3 DEF Placed
      <4>3. todo[1].cmd = "query" /\ value # 0
        BY <4>1, <4>2, <2>7
      <4> QED
        BY <4>3
    <3> QED
      BY <3>1, <3>2, <3>3, <2>3, FaultsAssumption
  <2> HIDE DEF k
  <2>10. result = "ok" => Done(k)
    BY <2>8, <2>9 DEF Done
  <2>11. \A j \in DOMAIN out' : out'[j].fresh \/ ~Writes(out'[j])
    BY <1>6, EmptyIs
  <2>12. result \in {"ok", "failed"}
    BY <2>1 DEF Warming
  <2>13. GoOn(From(k), result)
    BY <2>5, <1>3
  <2>14. /\ phase' \in {"opening", "ready", "closed"}
         /\ phase' = "opening" => Warming'
         /\ phase' = "ready" => Warm'
    BY <2>4, <2>10, <2>11, <2>12, <2>13, <1>6, <1>14, OpeningGoes
  <2> QED
    BY <2>14, <1>7, <1>11, <1>12 DEF WarmInv
<1> QED
  BY <1>1, <1>13, <1>14

-----------------------------------------------------------------------------
(* The steps, and what an open bridge is                                   *)

\* As it is plugged in.
LEMMA UnpluggedIs ==
  ASSUME NEW other \in 0 .. 1, NEW eeprom \in 0 .. 1
  PROVE  /\ DOMAIN Unplugged(other, eeprom) = Registers
         /\ \A r \in MaskedRegs : Unplugged(other, eeprom)[r] = other * 2 + 1
  BY RegisterKinds DEF Unplugged

\* What a masked write writes: what it read, but for the bit of the mask.
LEMMA BitIsPut ==
  ASSUME NEW g \in Int, NEW b \in 0 .. 1
  PROVE  ((g - (g % 2)) + b) \div 2 = g \div 2 /\ ((g - (g % 2)) + b) % 2 = b
<1>1. g = 2 * (g \div 2) + (g % 2) /\ g \div 2 \in Int
  OBVIOUS
<1>2. (g - (g % 2)) + b = 2 * (g \div 2) + b
  BY <1>1
<1>3. \A h \in Int : (2 * h + b) \div 2 = h /\ (2 * h + b) % 2 = b
  <2> TAKE h \in Int
  <2>1. CASE b = 0
    BY <2>1
  <2>2. CASE b = 1
    BY <2>2
  <2> QED
    BY <2>1, <2>2
<1> QED
  BY <1>1, <1>2, <1>3

LEMMA BitsOf ==
  ASSUME NEW other \in 0 .. 1, NEW eeprom \in 0 .. 1
  PROVE  /\ regs = Unplugged(other, eeprom) => Bits
         /\ regs' = Unplugged(other, eeprom) => Bits'
<1> DEFINE u == Unplugged(other, eeprom)
<1>1. /\ DOMAIN u = Registers /\ \A r \in MaskedRegs : u[r] = other * 2 + 1
      /\ Reg("da1d") \in MaskedRegs
  BY UnpluggedIs, RegisterKinds
<1> HIDE DEF u
<1>2. other * 2 + 1 \in Int
  OBVIOUS
<1>3. regs = u => Bits
  BY <1>1, <1>2 DEF Bits, RestKept
<1>4. regs' = u => Bits'
  BY <1>1, <1>2 DEF Bits, RestKept
<1> QED
  BY <1>3, <1>4 DEF u

LEMMA WarmInit == Init => WarmInv
<1> SUFFICES ASSUME Init PROVE WarmInv
  OBVIOUS
<1>1. /\ phase = "closed" /\ todo = <<>> /\ result = "ok" /\ in = <<>> /\ out = <<>>
  BY DEF Init
<1>2. Bits
  <2>1. PICK other, eeprom \in 0 .. 1 : regs = Unplugged(other, eeprom)
    BY DEF Init
  <2> QED
    BY <2>1, BitsOf
<1>3. Course
  BY <1>1, EmptyIs DEF Course, Chain, Paired
<1>4. Wire
  BY <1>1, EmptyIs DEF Wire
<1> QED
  BY <1>1, <1>2, <1>3, <1>4 DEF WarmInv

LEMMA SendWarm ==
  ASSUME IInv, LoadInv, WarmInv, Send
  PROVE  WarmInv'
<1> DEFINE c == todo[1]
           value == IF c.cmd = "merge" THEN (got - (got % 2)) + c.value ELSE c.value
           m == [cmd |-> c.cmd, reg |-> c.reg, value |-> value, seq |-> seq, fresh |-> TRUE]
<1>1. /\ todo # <<>> /\ ~waiting /\ out' = Append(out, m)
      /\ UNCHANGED <<phase, todo, got, result, purged, gpioOut, gpioOn, fw, regs, in>>
  BY DEF Send, bridge
<1>2. /\ phase \in {"opening", "ready"} /\ Sequence(todo) /\ 1 \in DOMAIN todo
  BY <1>1, AtHead, TailIs DEF LoadInv
<1>3. /\ DOMAIN m = {"cmd", "reg", "value", "seq", "fresh"} /\ m.cmd = c.cmd /\ m.reg = c.reg
      /\ m.value = value /\ m.fresh
  OBVIOUS
<1>4. Proper(c)
  BY <1>2 DEF WarmInv, Course, Chain
<1>5. c.cmd = "merge" => RestKept(value) /\ value % 2 = c.value
  <2> HAVE c.cmd = "merge"
  <2>1. RestKept(got) /\ c.value \in 0 .. 1
    BY <1>1, <1>4 DEF WarmInv, Course, Proper
  <2>2. got \in Int /\ value = (got - (got % 2)) + c.value
    BY <2>1 DEF RestKept
  <2> HIDE DEF value, c
  <2>3. value \in Int /\ value \div 2 = got \div 2 /\ value % 2 = c.value
    <3>1. (got - (got % 2)) + c.value \in Int
      BY <2>1, <2>2
    <3> QED
      BY <3>1, <2>1, <2>2, BitIsPut
  <2> QED
    BY <2>1, <2>3 DEF RestKept
<1>6. c.cmd # "merge" => value = c.value
  OBVIOUS
<1> HIDE DEF m, value
<1>7. Apt(m) /\ IsHead(m)
  <2>1. Apt(m)
    BY <1>3, <1>4, <1>5, <1>6 DEF Apt, Proper
  <2>2. IsHead(m)
    BY <1>3, <1>5, <1>6 DEF IsHead
  <2> QED
    BY <2>1, <2>2
<1>8. /\ DOMAIN out' = 1 .. Len(out) + 1 /\ Len(out') = Len(out) + 1
      /\ \A j \in 1 .. Len(out) : out'[j] = out[j]
      /\ out'[Len(out) + 1] = m /\ DOMAIN out = 1 .. Len(out) /\ Len(out) \in Nat
  <2>1. Sequence(out)
    BY DEF IInv, Types
  <2>2. /\ Sequence(out') /\ DOMAIN out' = 1 .. Len(out) + 1
        /\ \A j \in 1 .. Len(out) : out'[j] = out[j]
        /\ out'[Len(out) + 1] = m /\ DOMAIN out = 1 .. Len(out) /\ Len(out) \in Nat
    BY <2>1, <1>1, AppendIs, SeqIs
  <2>3. Len(out') \in Nat /\ DOMAIN out' = 1 .. Len(out')
    BY <2>2, SeqIs
  <2>4. Len(out') = Len(out) + 1
    BY <2>2, <2>3
  <2> QED
    BY <2>2, <2>4
<1>9. /\ \A j \in DOMAIN out : ~out[j].fresh
      /\ \A i \in DOMAIN in : ~in[i].fresh
  BY <1>1 DEF LoadInv, Current
<1>10. \A j \in DOMAIN out' : (j \in DOMAIN out /\ out'[j] = out[j]) \/ (j = Len(out') /\ out'[j] = m)
  BY <1>8
<1>11. Wire'
  <2>1. \A j \in DOMAIN out' : Apt(out'[j]) /\ (out'[j].fresh => j = Len(out') /\ IsHead(out'[j]))
    BY <1>7, <1>9, <1>10 DEF WarmInv, Wire
  <2>2. \A j \in DOMAIN out' : Apt(out[j])' /\ (out'[j].fresh => j = Len(out') /\ IsHead(out[j])')
    BY <2>1, <1>1 DEF Apt, IsHead, RestKept
  <2> QED
    BY <2>2, <1>1, <1>9 DEF Wire
<1>12. Bits' /\ Course'
  BY <1>1 DEF WarmInv, Bits, RestKept, Course, Chain, Paired, Proper
<1>13. Pins'
  BY <1>1, <1>2 DEF WarmInv, Pins
<1>14. phase = "opening" => Warming'
  <2> HAVE phase = "opening"
  <2>1. Warming
    BY DEF WarmInv
  <2>2. result = "ok" /\ todo[1].cmd # "raise" =>
          \A j \in DOMAIN out' : out'[j].fresh \/ ~Writes(out'[j])
    BY <2>1, <1>3, <1>10 DEF Warming
  <2>3. PICK n \in DOMAIN OpenBridge : todo = From(n) /\ (result = "ok" => Done(n))
    BY <2>1 DEF Warming
  <2>4. todo' = From(n) /\ (result' = "ok" => Done(n)')
    BY <2>3, <1>1, SameRegs
  <2> QED
    BY <2>1, <2>2, <2>4, <1>1 DEF Warming, Writes
<1>15. phase = "ready" => Warm'
  <2> HAVE phase = "ready"
  <2>1. Warm
    BY DEF WarmInv
  <2>2. Writes(m) => c.reg \in GpioRegs \cup {Reg("da1d")}
    BY <2>1, <1>2, <1>3 DEF Warm, Purging, Serving, Writes
  <2>3. Serving(todo) => ~(Writes(m) /\ m.reg = Reg("da1d"))
    BY <1>2, <1>3 DEF Serving
  <2>4. \A j \in DOMAIN out' : Writes(out'[j]) => out'[j].reg \in GpioRegs \cup {Reg("da1d")}
    BY <2>1, <2>2, <1>3, <1>10 DEF Warm
  <2>5. purged = "ok" /\ Serving(todo) =>
          /\ Held(Reg("da1d")) = 0
          /\ \A j \in DOMAIN out' : ~(Writes(out'[j]) /\ out'[j].reg = Reg("da1d"))
    BY <2>1, <2>3, <1>10 DEF Warm
  <2>6. SetUp' /\ fw' = "running" /\ Held(Reg("da1d"))' = Held(Reg("da1d"))
    BY <2>1, <1>1, SameRegs DEF Warm
  <2>7. (Purging(todo) \/ Serving(todo))' /\ (Serving(todo)' <=> Serving(todo))
    BY <2>1, <1>1 DEF Warm, Purging, Serving, Writes
  <2>8. \A j \in DOMAIN out' : (Writes(out[j]) => out[j].reg \in GpioRegs \cup {Reg("da1d")})'
    BY <2>4 DEF Writes
  <2>9. (purged = "ok" /\ Serving(todo))' =>
          /\ Held(Reg("da1d"))' = 0
          /\ \A j \in DOMAIN out' : ~(Writes(out[j]) /\ out[j].reg = Reg("da1d"))'
    BY <2>5, <2>6, <2>7, <1>1 DEF Writes
  <2> QED
    BY <2>6, <2>7, <2>8, <2>9 DEF Warm
<1> QED
  BY <1>1, <1>2, <1>11, <1>12, <1>13, <1>14, <1>15 DEF WarmInv

LEMMA TakeReplyWarm ==
  ASSUME IInv, LoadInv, WarmInv, TakeReply, ~foreign, ~foreign'
  PROVE  WarmInv'
<1>1. /\ waiting /\ todo # <<>> /\ in # <<>> /\ in' = Kept(Tail(in)) /\ UNCHANGED <<fw, regs>>
  BY DEF TakeReply, Kept, LoadInv, Progress, bridge
<1>2. /\ Sequence(Tail(in)) /\ DOMAIN Tail(in) = 1 .. Len(in) - 1
      /\ \A i \in 1 .. Len(in) - 1 : Tail(in)[i] = in[i + 1]
      /\ Head(in) = in[1] /\ 1 \in DOMAIN in /\ Len(in) \in Nat \ {0}
      /\ DOMAIN in = 1 .. Len(in)
  BY <1>1, TailIs DEF IInv, Types
<1>3. \A i \in DOMAIN in' : in'[i].fresh = FALSE
  <2>1. \A i \in 1 .. Len(in) - 1 : i + 1 \in DOMAIN in
    BY <1>2
  <2>2. \A i \in 1 .. Len(in) - 1 : "fresh" \in DOMAIN Tail(in)[i]
    BY <2>1, <1>2 DEF IInv, Types, Numbered
  <2>3. \A i \in DOMAIN Kept(Tail(in)) : Kept(Tail(in))[i].fresh = FALSE
    BY <2>2, <1>2 DEF Kept
  <2> QED
    BY <2>3, <1>1
<1>4. CASE Failure
  BY <1>1, <1>3, <1>4, FailureWarm
<1>5. CASE Accepted(in[1]) /\ ~Unfit(todo[1], in[1]) /\ Success(in[1].value)
  <2>1. in[1].ok
    BY <1>5 DEF Accepted
  <2>2. in[1].fresh
    BY <1>2, <1>5, OwnIsLast
  <2>4. out = <<>> /\ Answers(in[1])
    BY <2>2, <1>2 DEF WarmInv, Wire
  <2>5. /\ Writes(todo[1]) => Held(todo[1].reg) = todo[1].value
        /\ todo[1].cmd = "read" => RestKept(in[1].value)
        /\ todo[1].cmd \in {"query", "booted"} /\ in[1].value # 0 => fw = "running"
    BY <2>1, <2>4 DEF Answers
  <2>6. todo[1].cmd = "booted" => in[1].value # 0
    BY <1>5 DEF Unfit
  <2>7. Success(in[1].value) /\ todo # <<>> /\ regs' = regs /\ fw' = fw
    BY <1>1, <1>5
  <2> QED
    BY <2>4, <2>5, <2>6, <2>7, <1>3, SuccessWarm
<1> QED
  BY <1>2, <1>4, <1>5 DEF TakeReply

\* A procedure of an open bridge begins.
LEMMA BeginWarm ==
  ASSUME IInv, LoadInv, WarmInv, NEW procedure, Chain(procedure),
         Serving(procedure) \/ Purging(procedure),
         procedure # <<>> => procedure[1].cmd # "merge", Begin(procedure)
  PROVE  WarmInv'
<1>1. /\ phase = "ready" /\ todo = <<>> /\ todo' = procedure /\ procedure # <<>>
      /\ UNCHANGED <<phase, waiting, got, result, purged, gpioOut, gpioOn, fw, regs, in, out>>
  BY DEF Begin, bridge
<1>2. Warm /\ Pins /\ Bits /\ Wire
  BY <1>1 DEF WarmInv
<1>3. ~waiting
  BY <1>1 DEF LoadInv, Progress
<1>4. /\ \A j \in DOMAIN out : ~out[j].fresh
      /\ \A i \in DOMAIN in : ~in[i].fresh
  BY <1>3 DEF LoadInv, Current
<1>5. Wire'
  BY <1>1, <1>2, <1>4 DEF Wire, Apt, RestKept
<1>6. Bits' /\ Pins'
  BY <1>1, <1>2 DEF Bits, RestKept, Pins
<1>7. Chain(todo)' /\ (Serving(todo)' <=> Serving(procedure)) /\ (Purging(todo)' <=> Purging(procedure))
  BY <1>1 DEF Chain, Paired, Proper, Serving, Purging, Writes
<1>8. Course'
  BY <1>1, <1>7 DEF Course
<1>9. Serving(todo)
  BY <1>1, EmptyIs DEF Serving
<1>10. Warm'
  <2>1. SetUp' /\ fw' = "running" /\ Held(Reg("da1d"))' = Held(Reg("da1d"))
    BY <1>1, <1>2, SameRegs DEF Warm
  <2>2. \A j \in DOMAIN out' : (Writes(out[j]) => out[j].reg \in GpioRegs \cup {Reg("da1d")})'
    BY <1>1, <1>2 DEF Warm, Writes
  <2>3. (purged = "ok" /\ Serving(todo))' =>
          /\ Held(Reg("da1d"))' = 0
          /\ \A j \in DOMAIN out' : ~(Writes(out[j]) /\ out[j].reg = Reg("da1d"))'
    BY <2>1, <1>1, <1>2, <1>9 DEF Warm, Writes
  <2> QED
    BY <2>1, <2>2, <2>3, <1>7 DEF Warm
<1> QED
  BY <1>1, <1>5, <1>6, <1>8, <1>10 DEF WarmInv

LEMMA DrainWarm ==
  ASSUME IInv, LoadInv, WarmInv, Drain
  PROVE  WarmInv'
<1>1. /\ todo # <<>> /\ todo[1].cmd = "drain"
      /\ UNCHANGED <<waiting, got, gpioOut, gpioOn, fw, regs, in, out>>
  BY DEF Drain, bridge
<1>2. /\ phase \in {"opening", "ready"} /\ Sequence(todo) /\ Len(todo) \in Nat \ {0}
      /\ DOMAIN todo = 1 .. Len(todo) /\ 1 \in DOMAIN todo
  BY <1>1, AtHead, TailIs DEF LoadInv
<1>3. phase = "ready"
  <2>1. CASE phase = "opening"
    <3>1. PICK n \in DOMAIN OpenBridge : todo = From(n) /\ BlocksBefore(n)
      BY <2>1 DEF LoadInv, Progress, Opening
    <3>2. Placed(n, todo[1]) /\ n \in 1 .. Len(OpenBridge) /\ Len(OpenBridge) \in Nat
      BY <3>1, FromIs, Placement
    <3> QED
      BY <3>2, <1>1, FaultsAssumption DEF Placed
  <2> QED
    BY <2>1, <1>2
<1>4. Warm /\ Pins /\ Course /\ Bits /\ Wire
  BY <1>3 DEF WarmInv
<1>5. Tail(todo) = SubSeq(todo, 2, Len(todo)) /\ 2 \in 1 .. Len(todo) + 1
  BY <1>1, <1>2, TailIsRest
<1> DEFINE next == Tail(todo)
<1>6. next = <<>> <=> Len(todo) = 1
  <2>1. SubSeq(todo, 2, Len(todo)) = <<>> <=> 2 = Len(todo) + 1
    BY <1>2, <1>5, RestIs
  <2> QED
    BY <2>1, <1>2, <1>5
<1>7. \E rest, res : GoOn(rest, res) /\ ((rest = next /\ res \in {"ok", "failed"}) \/ (rest = <<>> /\ res = "failed"))
  <2>1. (\E r \in {"ok", "failed"} : GoOn(next, r)) \/ GoOn(<<>>, "failed")
    BY DEF Drain
  <2> HIDE DEF next
  <2>2. CASE \E r \in {"ok", "failed"} : GoOn(next, r)
    BY <2>2
  <2>3. CASE GoOn(<<>>, "failed")
    <3> DEFINE none == <<>>
    <3>1. GoOn(none, "failed") /\ none = <<>>
      BY <2>3
    <3> HIDE DEF none
    <3> QED
      BY <3>1
  <2> QED
    BY <2>1, <2>2, <2>3
<1> HIDE DEF next
<1>8. PICK rest, res :
        GoOn(rest, res) /\ ((rest = next /\ res \in {"ok", "failed"}) \/ (rest = <<>> /\ res = "failed"))
  BY <1>7
<1>9. Len(todo) # 1 => 2 \in 2 .. Len(todo) /\ todo[2].cmd # "merge"
  <2> HAVE Len(todo) # 1
  <2>1. 2 \in DOMAIN todo /\ 2 > 1 /\ 2 - 1 = 1 /\ 2 \in 2 .. Len(todo)
    BY <1>2
  <2>2. todo[2].cmd = "merge" => todo[2 - 1].cmd = "read"
    BY <2>1, <1>4 DEF Course, Chain, Paired
  <2> QED
    BY <2>1, <2>2, <1>1
<1>10. rest = <<>> \/ (2 \in 2 .. Len(todo) /\ rest = SubSeq(todo, 2, Len(todo)) /\ todo[2].cmd # "merge")
  BY <1>5, <1>6, <1>8, <1>9 DEF next
<1>11. Course'
  BY <1>2, <1>4, <1>8, <1>10, CourseGoes
<1>12. Purging(todo) => Len(todo) # 1
  <2> SUFFICES ASSUME Purging(todo), Len(todo) = 1 PROVE FALSE
    OBVIOUS
  <2>1. todo[1] = Cmd("merge", Reg("da1d"), 0, "ignore")[1]
    BY DEF Purging
  <2>2. todo[1].cmd = "merge"
    BY <2>1 DEF Cmd
  <2> QED
    BY <2>2, <1>1
<1>13. Purging(todo) /\ rest = <<>> /\ res = "ok" => Held(Reg("da1d")) = 0 /\ out' = <<>>
  BY <1>6, <1>8, <1>12
<1>14. \A j \in DOMAIN out' : j \in DOMAIN out /\ out'[j].cmd = out[j].cmd /\ out'[j].reg = out[j].reg
  BY <1>1
<1>15. phase' = "ready" /\ Warm'
  <2>1. rest = <<>> \/ \E m \in 2 .. Len(todo) : rest = SubSeq(todo, m, Len(todo))
    BY <1>10
  <2>2. regs' = regs /\ fw' = fw
    BY <1>1
  <2> QED
    BY <2>1, <2>2, <1>1, <1>2, <1>3, <1>4, <1>8, <1>13, <1>14, ReadyGoes
<1>16. ~waiting
  BY <1>1 DEF LoadInv, Progress
<1>17. /\ \A j \in DOMAIN out : ~out[j].fresh
       /\ \A i \in DOMAIN in : ~in[i].fresh
  BY <1>16 DEF LoadInv, Current
<1>18. Wire' /\ Bits' /\ Pins'
  BY <1>1, <1>4, <1>17 DEF Wire, Apt, RestKept, Bits, Pins
<1> QED
  BY <1>11, <1>15, <1>18 DEF WarmInv

LEMMA OpenWarm ==
  ASSUME IInv, LoadInv, WarmInv, Open
  PROVE  WarmInv'
<1>1. /\ phase = "closed" /\ phase' = "opening" /\ todo' = OpenBridge
      /\ gpioOut' = {} /\ gpioOn' = {}
      /\ UNCHANGED <<in, out, result, fw, regs>>
  BY DEF Open, bridge
<1>2. result = "ok" /\ ~waiting
  BY <1>1 DEF LoadInv, Progress, WarmInv, Course
<1>3. Sequence(OpenBridge) /\ 1 \in DOMAIN OpenBridge /\ Placed(1, OpenBridge[1])
  BY Placement, FaultsAssumption
<1>4. OpenBridge = From(1)
  <2>1. OpenBridge \in Seq({OpenBridge[i] : i \in DOMAIN OpenBridge})
    BY <1>3 DEF Sequence
  <2> QED
    BY <2>1, SubSeqFull DEF From
<1>5. Done(1)'
  BY <1>1, DoneEarly, SameRegs, FaultsAssumption
<1>6. /\ \A j \in DOMAIN out : ~out[j].fresh
      /\ \A i \in DOMAIN in : ~in[i].fresh
  BY <1>2 DEF LoadInv, Current
<1>7. Warming'
  <2>1. todo'[1].cmd = "raise"
    BY <1>1, <1>3 DEF Placed
  <2> QED
    BY <2>1, <1>1, <1>2, <1>3, <1>4, <1>5 DEF Warming
<1>8. Course'
  <2>1. Chain(todo')
    BY <1>1, BridgeChain
  <2>2. Chain(todo)'
    BY <2>1 DEF Chain, Paired, Proper
  <2>3. OpenBridge[1].cmd = "raise"
    BY <1>3 DEF Placed
  <2> QED
    BY <2>2, <2>3, <1>1, <1>2 DEF Course
<1>9. Bits' /\ Wire' /\ Pins'
  BY <1>1, <1>6 DEF WarmInv, Bits, RestKept, Wire, Apt, Pins
<1> QED
  BY <1>1, <1>7, <1>8, <1>9 DEF WarmInv

LEMMA GivenUpWarm ==
  ASSUME IInv, LoadInv, WarmInv, GivenUp
  PROVE  WarmInv'
<1> DEFINE none == <<>>
<1>1. /\ todo # <<>> /\ GoOn(none, "failed") /\ out' = Kept(out) /\ in' = Kept(in)
      /\ UNCHANGED <<got, gpioOut, gpioOn, fw, regs>>
  BY DEF GivenUp, Kept, bridge
<1>2. none = <<>>
  OBVIOUS
<1> HIDE DEF none
<1>3. /\ phase \in {"opening", "ready"} /\ Sequence(todo)
  BY <1>1, AtHead DEF LoadInv
<1>4. Numbered(out) /\ \A i \in DOMAIN in' : in'[i].fresh = FALSE
  BY <1>1, KeptIs DEF IInv, Types
<1>5. Bits' /\ Wire'
  BY <1>1, <1>4, SameRegs, WireGoes DEF WarmInv
<1>6. Course'
  BY <1>1, <1>2, <1>3, CourseGoes DEF WarmInv
<1>7. Pins'
  BY <1>1, <1>3 DEF WarmInv, Pins
<1>8. CASE phase = "opening"
  <2>1. phase' = "closed"
    BY <1>1, <1>2, <1>8 DEF GoOn
  <2> QED
    BY <2>1, <1>5, <1>6 DEF WarmInv
<1>9. CASE phase = "ready"
  <2>1. \A j \in DOMAIN out' : /\ j \in DOMAIN out
                               /\ out'[j].cmd = out[j].cmd /\ out'[j].reg = out[j].reg
    <3> TAKE j \in DOMAIN out'
    <3>1. j \in DOMAIN out /\ out'[j] = [out[j] EXCEPT !.fresh = FALSE]
      BY <1>1 DEF Kept
    <3>2. {"cmd", "reg", "value"} \subseteq DOMAIN out[j]
      BY <3>1 DEF WarmInv, Wire, Apt
    <3> QED
      BY <3>1, <3>2
  <2>2. phase' = "ready" /\ Warm'
    BY <2>1, <1>1, <1>2, <1>3, <1>9, ReadyGoes DEF WarmInv
  <2> QED
    BY <2>2, <1>5, <1>6, <1>7 DEF WarmInv
<1> QED
  BY <1>3, <1>8, <1>9

LEMMA ReplugWarm ==
  ASSUME IInv, Replug
  PROVE  WarmInv'
<1>1. /\ phase = "closed" /\ in' = <<>> /\ out' = <<>> /\ phase' = phase
      /\ UNCHANGED <<todo, got, result>>
  BY DEF Replug, driver
<1>2. todo = <<>> /\ result = "ok"
  BY <1>1 DEF IInv, Idle
<1>3. DOMAIN in' = {} /\ DOMAIN out' = {} /\ DOMAIN todo' = {}
  BY <1>1, <1>2, EmptyIs
<1>4. Wire'
  BY <1>3 DEF Wire
<1>5. Bits'
  <2>1. PICK other, eeprom \in 0 .. 1 : regs' = Unplugged(other, eeprom)
    BY DEF Replug
  <2> QED
    BY <2>1, BitsOf
<1>6. Course'
  <2>1. Chain(todo')
    BY <1>1, <1>2, EmptyIs DEF Chain, Paired
  <2>2. Chain(todo)'
    BY <2>1 DEF Chain, Paired, Proper
  <2> QED
    BY <2>2, <1>1, <1>2 DEF Course
<1> QED
  BY <1>1, <1>4, <1>5, <1>6 DEF WarmInv

\* A command that is done changes what is held of its own register only; of the
\* command at the head, to what was to be written.
LEMMA HeldGoes ==
  ASSUME Bits, NEW c, Apt(c), Effect(c)
  PROVE  /\ \A r \in Registers : ~(Writes(c) /\ c.reg = r) => Held(r)' = Held(r)
         /\ Writes(c) /\ IsHead(c) /\ Proper(todo[1]) => Held(c.reg)' = todo[1].value
<1>1. /\ ~Writes(c) => regs' = regs
      /\ Writes(c) => /\ regs'[c.reg] = c.value
                      /\ \A r \in Registers : r # c.reg => regs'[r] = regs[r]
  BY EffectIs
<1>2. \A r \in Registers : ~(Writes(c) /\ c.reg = r) => Held(r)' = Held(r)
  BY <1>1 DEF Held
<1>3. ASSUME Writes(c), IsHead(c), Proper(todo[1])
      PROVE  Held(c.reg)' = todo[1].value
  <2>1. regs'[c.reg] = c.value /\ c.cmd = todo[1].cmd
    BY <1>1, <1>3 DEF IsHead
  <2>2. CASE c.cmd = "write"
    <3>1. c.reg \notin MaskedRegs /\ c.value = todo[1].value
      BY <2>2, <1>3, RegisterKinds DEF Apt, IsHead
    <3> QED
      BY <3>1, <2>1 DEF Held
  <2>3. CASE c.cmd = "merge"
    <3>1. c.reg \in MaskedRegs
      BY <2>3 DEF Apt
    <3>2. todo[1].value \in 0 .. 1
      BY <2>1, <2>3, <1>3 DEF Proper
    <3>3. c.value = todo[1].value \/ c.value % 2 = todo[1].value
      BY <1>3 DEF IsHead
    <3>4. c.value % 2 = todo[1].value
      <4>1. \A b \in 0 .. 1 : b % 2 = b
        OBVIOUS
      <4> QED
        BY <4>1, <3>2, <3>3
    <3> QED
      BY <3>1, <3>4, <2>1 DEF Held
  <2> QED
    BY <2>2, <2>3, <1>3 DEF Writes
<1> QED
  BY <1>2, <1>3

\* The registers open_bridge writes are registers, and of no GPIO.
LEMMA BridgeRegs ==
  \A i \in DOMAIN OpenBridge :
    Writes(OpenBridge[i]) => OpenBridge[i].reg \in Registers /\ OpenBridge[i].reg \notin GpioRegs
<1> TAKE i \in DOMAIN OpenBridge
<1> HAVE Writes(OpenBridge[i])
<1>1. Proper(OpenBridge[i]) /\ Fixed(OpenBridge[i])
  BY BridgeChain, OpenBridgeIs DEF Chain, Piece
<1>2. OpenBridge[i].reg \in MaskedRegs \cup PlainRegs \cup GpioRegs
  BY <1>1 DEF Proper, Writes
<1>3. OpenBridge[i].reg \notin GpioRegs
  BY <1>1, RegisterKinds DEF Fixed
<1> QED
  BY <1>2, <1>3, RegisterKinds

LEMMA ObeyWarm ==
  ASSUME IInv, LoadInv, WarmInv, Obey
  PROVE  WarmInv'
<1> PICK c : c = Head(out)
  OBVIOUS
<1>1. /\ out # <<>> /\ out' = Tail(out)
      /\ UNCHANGED <<phase, todo, waiting, got, result, purged, gpioOut, gpioOn>>
  BY DEF Obey, driver
<1>2. /\ Sequence(out') /\ DOMAIN out' = 1 .. Len(out) - 1
      /\ \A j \in 1 .. Len(out) - 1 : out'[j] = out[j + 1]
      /\ c = out[1] /\ 1 \in DOMAIN out /\ Len(out) \in Nat \ {0} /\ DOMAIN out = 1 .. Len(out)
  BY <1>1, TailIs DEF IInv, Types
<1>3. Len(out') = Len(out) - 1 /\ (Len(out) = 1 => out' = <<>>)
  <2>1. Len(out') \in Nat /\ DOMAIN out' = 1 .. Len(out') /\ (out' # <<>> => 1 \in DOMAIN out')
    BY <1>2, SeqIs, TailIs
  <2>2. ASSUME NEW a \in Nat, NEW b \in Nat, 1 .. a = 1 .. b
        PROVE  a <= b
    <3>1. a # 0 => a \in 1 .. a
      OBVIOUS
    <3>2. a # 0 => a \in 1 .. b
      BY <3>1, <2>2
    <3> QED
      BY <3>2
  <2>3. Len(out) - 1 \in Nat /\ 1 .. Len(out') = 1 .. Len(out) - 1
    <3>1. ASSUME NEW n \in Nat \ {0} PROVE n - 1 \in Nat
      OBVIOUS
    <3>2. Len(out) \in Nat \ {0}
      BY <1>2
    <3>3. Len(out) - 1 \in Nat
      BY <3>1, <3>2
    <3>4. 1 .. Len(out') = DOMAIN out'
      BY <2>1
    <3>5. DOMAIN out' = 1 .. Len(out) - 1
      BY <1>2
    <3> QED
      BY <3>3, <3>4, <3>5
  <2>4. Len(out') <= Len(out) - 1 /\ Len(out) - 1 <= Len(out')
    BY <2>1, <2>2, <2>3
  <2>5. Len(out') = Len(out) - 1
    BY <2>1, <2>3, <2>4
  <2>6. Len(out) = 1 => 1 \notin DOMAIN out'
    <3>1. DOMAIN out' = 1 .. Len(out) - 1
      BY <1>2
    <3>2. 1 - 1 = 0 /\ 1 \notin 1 .. 0
      OBVIOUS
    <3>3. Len(out) = 1 => 1 .. Len(out) - 1 = 1 .. 1 - 1
      OBVIOUS
    <3>4. 1 .. 1 - 1 = 1 .. 0
      BY <3>2
    <3> QED
      BY <3>1, <3>2, <3>3, <3>4, Zenon
  <2>7. Len(out) = 1 => out' = <<>>
    <3>1. out' # <<>> => 1 \in DOMAIN out'
      BY <2>1
    <3> QED
      BY <3>1, <2>6
  <2> QED
    BY <2>5, <2>7
<1>4. \A j \in DOMAIN out' : j + 1 \in DOMAIN out /\ out'[j] = out[j + 1] /\ j \in Nat
  BY <1>2
<1>5. Bits /\ Course /\ Wire /\ Apt(c) /\ (c.fresh => Len(out) = 1 /\ IsHead(c))
  BY <1>2 DEF WarmInv, Wire
<1>6. \/ Effect(c) /\ in' = Reply(c, TRUE)
      \/ (Effect(c) \/ UNCHANGED bridge) /\ (in' = Reply(c, FALSE) \/ in' = in)
  BY DEF Obey
<1>7. /\ Bits' /\ \A v : RestKept(v) => RestKept(v)'
      /\ fw = "running" => fw' = "running"
      /\ \A r \in Registers : ~(Writes(c) /\ c.reg = r) => Held(r)' = Held(r)
      /\ \A r \in Registers : ~(Writes(c) /\ c.reg = r) => regs'[r] = regs[r]
  <2>1. CASE Effect(c)
    BY <2>1, <1>5, EffectIs, HeldGoes
  <2>2. CASE UNCHANGED bridge
    <3>1. regs' = regs /\ fw' = fw
      BY <2>2 DEF bridge
    <3> QED
      BY <3>1, <1>5, SameRegs
  <2> QED
    BY <2>1, <2>2, <1>6
<1>8. \/ regs' = regs
      \/ /\ Writes(c) /\ regs'[c.reg] = c.value
         /\ IsHead(c) /\ Proper(todo[1]) => Held(c.reg)' = todo[1].value
  <2>1. CASE Effect(c)
    <3>1. /\ ~Writes(c) => regs' = regs
          /\ Writes(c) => regs'[c.reg] = c.value
          /\ Writes(c) /\ IsHead(c) /\ Proper(todo[1]) => Held(c.reg)' = todo[1].value
      BY <2>1, <1>5, EffectIs, HeldGoes
    <3> QED
      BY <3>1
  <2>2. CASE UNCHANGED bridge
    BY <2>2 DEF bridge
  <2> QED
    BY <2>1, <2>2, <1>6
<1>9. c.fresh => phase \in {"opening", "ready"} /\ 1 \in DOMAIN todo /\ Proper(todo[1])
  <2> HAVE c.fresh
  <2>1. todo # <<>>
    BY <1>2 DEF LoadInv, Current, Progress
  <2>2. phase \in {"opening", "ready"} /\ Sequence(todo) /\ 1 \in DOMAIN todo
    BY <2>1, AtHead, TailIs DEF LoadInv
  <2> QED
    BY <2>2, <1>5 DEF Course, Chain
<1>10. Wire'
  <2>1. \A j \in DOMAIN out' : Apt(out[j])' /\ (out'[j].fresh => j = Len(out') /\ IsHead(out[j])')
    <3> TAKE j \in DOMAIN out'
    <3>1. Apt(out[j + 1]) /\ (out[j + 1].fresh => j + 1 = Len(out) /\ IsHead(out[j + 1]))
      BY <1>4, <1>5 DEF Wire
    <3>2. j + 1 = Len(out) => j = Len(out')
      BY <1>2, <1>3, <1>4
    <3>3. Apt(out[j])'
      BY <3>1, <1>4, <1>7 DEF Apt
    <3>4. IsHead(out[j + 1]) => IsHead(out[j])'
      BY <1>1, <1>4 DEF IsHead
    <3> QED
      BY <3>1, <3>2, <3>3, <3>4, <1>4
  <2>2. \A i \in DOMAIN in : ~in[i].fresh
    BY <1>1, <1>5 DEF Wire
  <2>3. ASSUME NEW ok \in BOOLEAN, in' = Reply(c, ok), ok => Effect(c)
        PROVE  \A i \in DOMAIN in' : in'[i].fresh => out' = <<>> /\ Answers(in[i])'
    <3>1. PICK m : in' = Append(in, m) /\ m.ok = ok /\ m.fresh = c.fresh /\ m.value = Answer(c)
      BY <2>3 DEF Reply
    <3>2. /\ DOMAIN in' = 1 .. Len(in) + 1 /\ \A i \in 1 .. Len(in) : in'[i] = in[i]
          /\ in'[Len(in) + 1] = m /\ DOMAIN in = 1 .. Len(in) /\ Len(in) \in Nat
      BY <3>1, AppendIs, SeqIs DEF IInv, Types
    <3>3. ASSUME m.fresh PROVE out' = <<>> /\ Answers(m)'
      <4>1. out' = <<>> /\ IsHead(c) /\ Proper(todo[1])
        BY <3>1, <3>3, <1>3, <1>5, <1>9
      <4>2. SUFFICES ASSUME m.ok PROVE Answers(m)'
        BY <4>1 DEF Answers
      <4>3. Effect(c)
        BY <4>2, <3>1, <2>3
      <4>4. Writes(c) => Held(c.reg)' = todo[1].value
        BY <4>1, <4>3, <1>5, HeldGoes
      <4>5. c.cmd = todo[1].cmd /\ c.reg = todo[1].reg
        BY <4>1 DEF IsHead
      <4>6. Writes(todo[1]) => (IF todo[1].reg \in MaskedRegs THEN regs'[todo[1].reg] % 2
                                ELSE regs'[todo[1].reg]) = todo[1].value
        BY <4>4, <4>5 DEF Held, Writes
      <4>7. c.cmd = "read" => RestKept(m.value)'
        <5> HAVE c.cmd = "read"
        <5>1. m.value = regs[c.reg] /\ c.reg \in MaskedRegs
          BY <3>1, <1>5 DEF Answer, Apt
        <5>2. RestKept(m.value)
          BY <5>1, <1>5 DEF Bits
        <5> QED
          BY <5>2, <1>7
      <4>8. c.cmd \in {"query", "booted"} /\ m.value # 0 => fw' = "running"
        BY <3>1, <1>7 DEF Answer
      <4> QED
        BY <4>5, <4>6, <4>7, <4>8, <1>1 DEF Answers, Held, Writes
    <3> TAKE i \in DOMAIN in'
    <3>4. CASE i \in 1 .. Len(in)
      BY <3>4, <3>2, <2>2
    <3>5. CASE i = Len(in) + 1
      <4>1. in'[i] = m
        BY <3>5, <3>2
      <4>2. m.fresh => Answers(in[i])'
        BY <4>1, <3>3 DEF Answers
      <4> QED
        BY <4>1, <4>2, <3>3
    <3> QED
      BY <3>2, <3>4, <3>5
  <2>4. \A i \in DOMAIN in' : in'[i].fresh => out' = <<>> /\ Answers(in[i])'
    <3>1. \/ in' = in
          \/ in' = Reply(c, TRUE) /\ Effect(c)
          \/ in' = Reply(c, FALSE)
      BY <1>6
    <3>2. CASE in' = in
      BY <3>2, <2>2
    <3>3. CASE in' = Reply(c, TRUE) /\ Effect(c)
      <4>1. TRUE \in BOOLEAN /\ in' = Reply(c, TRUE) /\ (TRUE => Effect(c))
        BY <3>3
      <4> QED
        BY <4>1, <2>3
    <3>4. CASE in' = Reply(c, FALSE)
      <4>1. FALSE \in BOOLEAN /\ in' = Reply(c, FALSE) /\ (FALSE => Effect(c))
        BY <3>4
      <4> QED
        BY <4>1, <2>3
    <3> QED
      BY <3>1, <3>2, <3>3, <3>4
  <2> QED
    BY <2>1, <2>4 DEF Wire
<1>11. Course'
  <2>1. RestKept(got) => RestKept(got)'
    BY <1>1, <1>7 DEF RestKept
  <2>2. Chain(todo)'
    BY <1>1, <1>5 DEF Course, Chain, Paired, Proper
  <2> QED
    BY <2>1, <2>2, <1>1, <1>5 DEF Course
<1>12. phase # "closed" => Pins'
  <2> HAVE phase # "closed"
  <2>1. Pins
    BY DEF WarmInv
  <2>2. \A r \in GpioRegs : r[1] \in {"mode", "on"} /\ regs[r] = 1 => regs'[r] = 1
    <3> TAKE r \in GpioRegs
    <3> HAVE r[1] \in {"mode", "on"} /\ regs[r] = 1
    <3>1. r \in Registers /\ r \notin MaskedRegs
      BY RegisterKinds
    <3>2. CASE Writes(c) /\ c.reg = r
      <4>1. c.cmd = "write" /\ c.value = 1
        BY <3>1, <3>2, <1>5 DEF Apt, Writes
      <4> QED
        BY <4>1, <3>2, <1>8
    <3>3. CASE ~(Writes(c) /\ c.reg = r)
      BY <3>1, <3>3, <1>7
    <3> QED
      BY <3>2, <3>3
  <2>3. \A g \in Gpios : \A n \in {"mode", "on"} : <<n, g>> \in GpioRegs /\ <<n, g>>[1] = n
    BY DEF GpioRegs
  <2>4. \A g \in gpioOut : g \in Gpios /\ regs'[<<"mode", g>>] = 1
    BY <2>1, <2>2, <2>3 DEF Pins
  <2>5. \A g \in gpioOn : g \in Gpios /\ regs'[<<"on", g>>] = 1
    BY <2>1, <2>2, <2>3 DEF Pins
  <2> QED
    BY <2>4, <2>5, <1>1 DEF Pins
<1>13. phase = "opening" => Warming'
  <2> HAVE phase = "opening"
  <2>1. Warming
    BY DEF WarmInv
  <2>2. PICK n \in DOMAIN OpenBridge : todo = From(n) /\ (result = "ok" => Done(n))
    BY <2>1 DEF Warming
  <2>3. todo[1] = OpenBridge[n] /\ n \in Nat /\ DOMAIN OpenBridge = 1 .. Len(OpenBridge)
        /\ Len(OpenBridge) \in Nat
    BY <2>2, FromIs, Placement
  <2>4. result = "ok" => Done(n)'
    <3> HAVE result = "ok"
    <3>4. CASE n <= 10 + Blocks
      BY <3>4, <2>3, DoneEarly
    <3> SUFFICES ASSUME ~(n <= 10 + Blocks) PROVE Done(n)'
      BY <3>4
    <3>5. todo[1].cmd # "raise"
      <4>1. n > 10 + Blocks
        BY <2>3, FaultsAssumption
      <4>2. Placed(n, OpenBridge[n])
        BY <2>2, Placement
      <4> QED
        BY <4>1, <4>2, <2>3 DEF Placed
    <3>1. Done(n)
      BY <2>2
    <3>2. \A i \in DOMAIN OpenBridge :
            i < n /\ Lasts(i, n) => Held(OpenBridge[i].reg)' = OpenBridge[i].value
      <4> TAKE i \in DOMAIN OpenBridge
      <4> HAVE i < n /\ Lasts(i, n)
      <4>1. /\ Held(OpenBridge[i].reg) = OpenBridge[i].value
            /\ Writes(OpenBridge[i]) /\ OpenBridge[i].reg \in Registers
        BY <3>1, BridgeRegs DEF Done, Lasts
      <4>2. CASE ~(Writes(c) /\ c.reg = OpenBridge[i].reg)
        BY <4>1, <4>2, <1>7
      <4>3. CASE Writes(c) /\ c.reg = OpenBridge[i].reg
        <5>1. c.fresh
          BY <4>3, <3>5, <2>1, <1>2 DEF Warming
        <5>2. IsHead(c) /\ Proper(todo[1])
          BY <5>1, <1>5, <1>9
        <5>3. Writes(OpenBridge[n]) /\ OpenBridge[n].reg = OpenBridge[i].reg
          BY <5>2, <4>3, <2>3 DEF IsHead, Writes
        <5>4. OpenBridge[n].value = OpenBridge[i].value
          <6>1. n <= n
            BY <2>3
          <6> QED
            BY <6>1, <5>3 DEF Lasts
        <5>5. CASE regs' = regs
          BY <5>5, <4>1, SameRegs
        <5>6. CASE Held(c.reg)' = todo[1].value
          BY <5>6, <5>4, <4>3, <2>3
        <5> QED
          BY <5>2, <5>5, <5>6, <1>8
      <4> QED
        BY <4>2, <4>3
    <3>3. n > 10 + Blocks => fw' = "running"
      BY <3>1, <1>7 DEF Done
    <3> QED
      BY <3>2, <3>3 DEF Done
  <2>5. result = "ok" /\ todo[1].cmd # "raise" =>
          \A j \in DOMAIN out' : out'[j].fresh \/ ~Writes(out'[j])
    BY <2>1, <1>4 DEF Warming
  <2>6. todo' = From(n) /\ (result' = "ok" => Done(n)')
    BY <2>2, <2>4, <1>1
  <2> QED
    BY <2>1, <2>5, <2>6, <1>1 DEF Warming, Writes
<1>14. phase = "ready" => Warm'
  <2> HAVE phase = "ready"
  <2>1. Warm
    BY DEF WarmInv
  <2>2. Writes(c) => c.reg \in GpioRegs \cup {Reg("da1d")}
    BY <2>1, <1>2 DEF Warm
  <2>3. SetUp'
    <3>1. \A i \in DOMAIN OpenBridge :
            Lasts(i, Len(OpenBridge)) /\ OpenBridge[i].reg # Reg("da1d") =>
              Held(OpenBridge[i].reg)' = OpenBridge[i].value
      <4> TAKE i \in DOMAIN OpenBridge
      <4> HAVE Lasts(i, Len(OpenBridge)) /\ OpenBridge[i].reg # Reg("da1d")
      <4>1. Writes(OpenBridge[i]) /\ Held(OpenBridge[i].reg) = OpenBridge[i].value
        BY <2>1 DEF Warm, SetUp, Lasts
      <4>2. OpenBridge[i].reg \in Registers /\ OpenBridge[i].reg \notin GpioRegs
        BY <4>1, BridgeRegs
      <4>3. ~(Writes(c) /\ c.reg = OpenBridge[i].reg)
        BY <4>2, <2>2
      <4> QED
        BY <4>1, <4>2, <4>3, <1>7
    <3> QED
      BY <3>1 DEF SetUp
  <2>4. fw' = "running"
    BY <2>1, <1>7 DEF Warm
  <2>5. (Purging(todo) \/ Serving(todo))' /\ (Serving(todo)' <=> Serving(todo))
    BY <2>1, <1>1 DEF Warm, Purging, Serving, Writes
  <2>6. \A j \in DOMAIN out' : (Writes(out[j]) => out[j].reg \in GpioRegs \cup {Reg("da1d")})'
    <3>1. \A j \in DOMAIN out' : Writes(out'[j]) => out'[j].reg \in GpioRegs \cup {Reg("da1d")}
      BY <2>1, <1>4 DEF Warm
    <3> QED
      BY <3>1 DEF Writes
  <2>7. (purged = "ok" /\ Serving(todo))' =>
          /\ Held(Reg("da1d"))' = 0
          /\ \A j \in DOMAIN out' : ~(Writes(out[j]) /\ out[j].reg = Reg("da1d"))'
    <3> SUFFICES ASSUME purged = "ok", Serving(todo)
                 PROVE  /\ Held(Reg("da1d"))' = 0
                        /\ \A j \in DOMAIN out' : ~(Writes(out[j]) /\ out[j].reg = Reg("da1d"))'
      BY <2>5, <1>1
    <3>1. /\ Held(Reg("da1d")) = 0
          /\ \A j \in DOMAIN out : ~(Writes(out[j]) /\ out[j].reg = Reg("da1d"))
      BY <2>1 DEF Warm
    <3>2. Held(Reg("da1d"))' = Held(Reg("da1d"))
      <4>1. ~(Writes(c) /\ c.reg = Reg("da1d")) /\ Reg("da1d") \in Registers
        BY <3>1, <1>2, RegisterKinds
      <4> QED
        BY <4>1, <1>7
    <3>3. \A j \in DOMAIN out' : ~(Writes(out'[j]) /\ out'[j].reg = Reg("da1d"))
      BY <3>1, <1>4
    <3> QED
      BY <3>1, <3>2, <3>3 DEF Writes
  <2> QED
    BY <2>3, <2>4, <2>5, <2>6, <2>7 DEF Warm
<1> QED
  BY <1>1, <1>7, <1>10, <1>11, <1>12, <1>13, <1>14 DEF WarmInv

\* Where nothing of the driver's or the bridge's changes.
LEMMA StillWarm ==
  ASSUME LoadInv, WarmInv, phase' = phase,
         UNCHANGED <<todo, got, result, purged, gpioOut, gpioOn, fw, regs, in, out>>
  PROVE  WarmInv'
<1>1. Bits' /\ Course' /\ Wire'
  BY DEF WarmInv, Bits, RestKept, Course, Chain, Paired, Proper, Wire, Apt, IsHead, Answers, Held, Writes
<1>2. phase = "opening" => Warming'
  <2> HAVE phase = "opening"
  <2>1. Warming
    BY DEF WarmInv
  <2>2. PICK n \in DOMAIN OpenBridge : todo = From(n) /\ (result = "ok" => Done(n))
    BY <2>1 DEF Warming
  <2>3. todo' = From(n) /\ (result' = "ok" => Done(n)')
    BY <2>2, SameRegs
  <2> QED
    BY <2>1, <2>3 DEF Warming, Writes
<1>3. phase = "ready" => Warm'
  <2> HAVE phase = "ready"
  <2>1. Warm
    BY DEF WarmInv
  <2>2. SetUp' /\ fw' = "running" /\ Held(Reg("da1d"))' = Held(Reg("da1d"))
    BY <2>1, SameRegs DEF Warm
  <2>3. (Purging(todo) \/ Serving(todo))' /\ (Serving(todo)' <=> Serving(todo))
    BY <2>1 DEF Warm, Purging, Serving, Writes
  <2> QED
    BY <2>1, <2>2, <2>3 DEF Warm, Writes
<1>4. phase # "closed" => Pins'
  BY DEF WarmInv, Pins
<1> QED
  BY <1>1, <1>2, <1>3, <1>4 DEF WarmInv

LEMMA CloseWarm ==
  ASSUME LoadInv, WarmInv, Close
  PROVE  WarmInv'
<1>1. /\ todo = <<>> /\ phase' = "closed"
      /\ UNCHANGED <<todo, got, result, purged, gpioOut, gpioOn, fw, regs, in, out>>
  BY DEF Close, bridge
<1>2. Bits' /\ Course' /\ Wire'
  BY <1>1 DEF WarmInv, Bits, RestKept, Course, Chain, Paired, Proper, Wire, Apt, IsHead, Answers, Held, Writes
<1> QED
  BY <1>1, <1>2 DEF WarmInv

LEMMA WarmNext ==
  ASSUME IInv, ~foreign => LoadInv /\ WarmInv, ~foreign', [Next]_vars
  PROVE  WarmInv'
<1>12. CASE Replug
  BY <1>12, ReplugWarm
<1> SUFFICES ASSUME ~Replug PROVE WarmInv'
  BY <1>12
<1>14. LoadInv /\ WarmInv /\ ~foreign
  BY ForeignStays
<1>1. CASE Send
  BY <1>1, <1>14, SendWarm
<1>2. CASE NotSent \/ TimesOut
  <2>1. /\ todo # <<>> /\ Failure /\ regs' = regs /\ fw' = fw /\ in' = in
    BY <1>2, <1>14 DEF NotSent, TimesOut, bridge, LoadInv, Progress
  <2>2. \A i \in DOMAIN in : in[i].fresh = FALSE
    <3>1. CASE NotSent
      <4>1. ~waiting
        BY <3>1 DEF NotSent
      <4>2. \A i \in DOMAIN in : ~in[i].fresh
        BY <4>1, <1>14 DEF LoadInv, Current
      <4> QED
        BY <4>2
    <3>2. CASE TimesOut
      BY <3>2, EmptyIs DEF TimesOut
    <3> QED
      BY <3>1, <3>2, <1>2
  <2> QED
    BY <2>1, <2>2, <1>14, FailureWarm
<1>3. CASE TakeReply
  BY <1>3, <1>14, TakeReplyWarm
<1>4. CASE Open
  BY <1>4, <1>14, OpenWarm
<1>5. CASE Close
  BY <1>5, <1>14, CloseWarm
<1>6. CASE WriteRead
  <2> DEFINE q == Ctrl("i2c_write", 0, "fail") \o Ctrl("i2c_read", 0, "fail")
  <2>1. Begin(q) /\ Chain(q) /\ Serving(q) /\ q[1].cmd # "merge"
    BY <1>6, Procedures DEF WriteRead
  <2> HIDE DEF q
  <2> QED
    BY <2>1, <1>14, BeginWarm
<1>7. CASE PurgePsb
  <2> DEFINE q == Masked("da1d", 1, "fail") \o Ctrl("drain", 0, "ignore") \o Masked("da1d", 0, "ignore")
  <2>1. Begin(q) /\ Chain(q) /\ Purging(q) /\ q[1].cmd # "merge"
    BY <1>7, Procedures DEF PurgePsb
  <2> HIDE DEF q
  <2> QED
    BY <2>1, <1>14, BeginWarm
<1>8. ASSUME NEW g \in Gpios, GpioOutput(g)
      PROVE  WarmInv'
  <2> DEFINE q == (IF g \in gpioOut THEN <<>> ELSE W(<<"mode", g>>, 1))
                  \o (IF g \in gpioOn THEN <<>> ELSE W(<<"on", g>>, 1))
  <2>1. Begin(q) /\ Chain(q) /\ Serving(q) /\ (q # <<>> => q[1].cmd # "merge")
    BY <1>8, Procedures DEF GpioOutput
  <2> HIDE DEF q
  <2> QED
    BY <2>1, <1>14, BeginWarm
<1>9. ASSUME NEW g \in Gpios, WriteGpio(g)
      PROVE  WarmInv'
  <2>1. PICK high \in 0 .. 1 : Begin(W(<<"level", g>>, high))
    BY <1>9 DEF WriteGpio
  <2> DEFINE q == W(<<"level", g>>, high)
  <2>2. Begin(q) /\ Chain(q) /\ Serving(q) /\ q[1].cmd # "merge"
    BY <2>1, Procedures
  <2> HIDE DEF q
  <2> QED
    BY <2>2, <1>14, BeginWarm
<1>10. CASE Drain
  BY <1>10, <1>14, DrainWarm
<1>11. CASE Obey
  BY <1>11, <1>14, ObeyWarm
<1>15. CASE GivenUp
  BY <1>15, <1>14, GivenUpWarm
<1>13. CASE UNCHANGED vars
  BY <1>13, <1>14, StillWarm DEF vars, driver, bridge
<1> QED
  BY <1>1, <1>2, <1>3, <1>4, <1>5, <1>6, <1>7, <1>8, <1>9, <1>10, <1>11, <1>13, <1>15 DEF Next

LEMMA SettledIs == List(Settled)
<1>1. Sequence(Plain1) /\ Sequence(Plain2) /\ Sequence(I2cSpeed) /\ Sequence(Slaves)
  BY ListsAre DEF List
<1>2. Sequence(Plain1 \o Plain2) /\ Sequence(Plain1 \o Plain2 \o I2cSpeed)
  BY <1>1, ConcatIs
<1>3. List(Plain1 \o Plain2)
  BY <1>1, ListsAre, InBoth
<1>4. List(Plain1 \o Plain2 \o I2cSpeed)
  BY <1>1, <1>2, <1>3, ListsAre, InBoth
<1> QED
  BY <1>1, <1>2, <1>4, ListsAre, InBoth DEF Settled

LEMMA WarmIsWarm == WarmInv => ReadyIsWarm
<1> SUFFICES ASSUME WarmInv, phase = "ready", out = <<>>
             PROVE  ReadyIsWarm
  BY DEF ReadyIsWarm
<1>1. Warm /\ Pins /\ Bits
  BY DEF WarmInv
<1>2. \A r : Wanted(r) /\ r # Reg("da1d") => Held(r) = Goal(r)
  <2> TAKE r
  <2> HAVE Wanted(r) /\ r # Reg("da1d")
  <2>1. PICK i \in DOMAIN OpenBridge :
          /\ Writes(OpenBridge[i]) /\ OpenBridge[i].or # "load"
          /\ OpenBridge[i].reg = r /\ OpenBridge[i].value = Goal(r)
          /\ \A j \in DOMAIN OpenBridge :
               i < j /\ Writes(OpenBridge[j]) /\ OpenBridge[j].reg = r => OpenBridge[j].value = Goal(r)
    BY OpenBridgeIs DEF Ends
  <2>2. Lasts(i, Len(OpenBridge))
    BY <2>1 DEF Lasts
  <2> QED
    BY <2>1, <2>2, <1>1 DEF Warm, SetUp
<1>3. \A r : r[1] \notin MaskedNames => Held(r) = regs[r] /\ r # Reg("da1d")
  BY RegisterKinds DEF Held
<1>4. \A r \in MaskedRegs : Held(r) = regs[r] % 2
  BY DEF Held
<1>5. \A i \in DOMAIN Settled : regs[Settled[i][1]] = Settled[i][2]
  <2> TAKE i \in DOMAIN Settled
  <2>1. Whole(Settled[i][1]) /\ Settled[i][2] = Goal(Settled[i][1])
    BY SettledIs DEF List
  <2>2. Settled[i][1][1] \notin MaskedNames
    BY <2>1 DEF Whole
  <2>3. Wanted(Settled[i][1])
    BY DEF Wanted
  <2> QED
    BY <2>1, <2>2, <2>3, <1>2, <1>3
<1>6. regs[Reg("dd88")] = 38352 /\ regs[Reg("dd0c")] = 128 /\ regs[Reg("d920")] = 0
  <2>1. \A n \in {"dd88", "dd0c", "d920"} : Wanted(Reg(n)) /\ Reg(n)[1] \notin MaskedNames
    BY DEF Wanted, Reg, MaskedNames
  <2>2. Goal(Reg("dd88")) = 38352 /\ Goal(Reg("dd0c")) = 128 /\ Goal(Reg("d920")) = 0
    BY DEF Goal, Reg
  <2>3. \A n \in {"dd88", "dd0c", "d920"} : regs[Reg(n)] = Goal(Reg(n))
    BY <2>1, <1>2, <1>3
  <2> QED
    BY <2>2, <2>3
<1>7. /\ \A r \in {"f41f", "f41a", "dd11"} : regs[Reg(r)] % 2 = 1
      /\ \A r \in {"da10", "dd13", "da05", "da06"} : regs[Reg(r)] % 2 = 0
  <2>1. \A n \in {"f41f", "f41a", "dd11", "da10", "dd13", "da05", "da06"} :
          Wanted(Reg(n)) /\ Reg(n) \in MaskedRegs /\ Reg(n) # Reg("da1d")
    BY DEF Wanted, Reg, MaskedNames, MaskedRegs
  <2>2. /\ \A n \in {"f41f", "f41a", "dd11"} : Goal(Reg(n)) = 1
        /\ \A n \in {"da10", "dd13", "da05", "da06"} : Goal(Reg(n)) = 0
    BY DEF Goal, Reg
  <2>3. \A n \in {"f41f", "f41a", "dd11", "da10", "dd13", "da05", "da06"} :
          regs[Reg(n)] % 2 = Goal(Reg(n))
    BY <2>1, <1>2, <1>4
  <2> QED
    BY <2>2, <2>3
<1>8. \A p \in 0 .. 4 : regs[Port("da4c", p)] = (IF p \in InUse THEN 1 ELSE 0)
  <2> TAKE p \in 0 .. 4
  <2>1. Wanted(Port("da4c", p)) /\ Port("da4c", p)[1] \notin MaskedNames
    BY DEF Wanted, Port, MaskedNames
  <2>2. Goal(Port("da4c", p)) = (IF p \in InUse THEN 1 ELSE 0)
    BY DEF Goal, Port
  <2> QED
    BY <2>1, <2>2, <1>2, <1>3
<1>9. \A p \in InUse : regs[Port("da73", p)] = 1 /\ regs[Port("da78", p)] = Inputs[p]
  <2> TAKE p \in InUse
  <2>1. /\ Wanted(Port("da73", p)) /\ Port("da73", p)[1] \notin MaskedNames
        /\ Wanted(Port("da78", p)) /\ Port("da78", p)[1] \notin MaskedNames
    BY DEF Wanted, Port, MaskedNames
  <2>2. Goal(Port("da73", p)) = 1 /\ Goal(Port("da78", p)) = Inputs[p]
    BY DEF Goal, Port
  <2> QED
    BY <2>1, <2>2, <1>2, <1>3
<1>10. todo = <<>> /\ purged = "ok" => regs[Reg("da1d")] % 2 = 0
  <2> HAVE todo = <<>> /\ purged = "ok"
  <2>1. Serving(todo)
    BY EmptyIs DEF Serving
  <2> QED
    BY <2>1, <1>1, <1>4, RegisterKinds DEF Warm
<1>11. \A r, s \in MaskedRegs : regs[r] \div 2 = regs[s] \div 2
  BY <1>1 DEF Bits, RestKept
<1> QED
  BY <1>1, <1>5, <1>6, <1>7, <1>8, <1>9, <1>10, <1>11 DEF ReadyIsWarm, Warm, Pins

-----------------------------------------------------------------------------
(* What holds of any number of sequence numbers and blocks                 *)

\* The number in a reply (it930x.rs:94) tells the reply to what was sent from
\* that to anything given up before, while fewer commands fail than there are
\* numbers and no open began with anything of the one before on its way.
THEOREM OwnReplyHolds == Spec => []OwnReply
<1>1. IInv => OwnReply
  BY DEF IInv, Ordered, OwnReply
<1> QED
  BY <1>1, InitHolds, NextStep, PTL DEF Spec

\* However the loading of the firmware is cut short, and by whom, however many
\* replies come late and whatever an open finds left over: the bridge boots only
\* the whole of it (it930x.rs:171), unless the reply to another command was taken
\* since it was plugged in.
THEOREM BootsWholeHolds == Spec => []BootsWhole
<1> DEFINE LInv == ~foreign => LoadInv
<1>1. IInv /\ LInv /\ [Next]_vars => (IInv /\ LInv)'
  BY NextStep, LoadNext
<1>2. LInv => BootsWhole
  BY DEF LoadInv, BootsWhole
<1>3. Init => LInv
  BY LoadInit
<1> HIDE DEF LInv
<1> QED
  BY <1>1, <1>2, <1>3, InitHolds, PTL DEF Spec

\* However an open before was cut short, whatever it left over, and whatever fails
\* of this one or comes late: a bridge that open_bridge returned is set up in full
\* (board.rs:327), unless the reply to another command was taken.
THEOREM ReadyIsWarmHolds == Spec => []ReadyIsWarm
<1> DEFINE WInv == ~foreign => LoadInv /\ WarmInv
<1>1. IInv /\ WInv /\ [Next]_vars => (IInv /\ WInv)'
  BY NextStep, LoadNext, WarmNext
<1>2. WInv => ReadyIsWarm
  <2>1. foreign => ReadyIsWarm
    BY DEF ReadyIsWarm
  <2> QED
    BY <2>1, WarmIsWarm
<1>3. Init => WInv
  BY LoadInit, WarmInit
<1> HIDE DEF WInv
<1> QED
  BY <1>1, <1>2, <1>3, InitHolds, PTL DEF Spec

=============================================================================
