---------------------------- MODULE BridgeProofs ----------------------------
(***************************************************************************)
(* Theorems about TransceiverBridge, for any transceivers, sizes of the    *)
(* buffer and the queues, and devices.                                     *)
(***************************************************************************)
EXTENDS BridgeProperties, SequenceLemmas

LOCAL INSTANCE SequencesExt   \* FlattenSeq, ToSet

-----------------------------------------------------------------------------
(* The life of the bridge *)

(* UsedWhileOpen with what makes it inductive: how far main() is says      *)
(* which transceivers are open and what the threads may be doing.          *)
BridgeInv ==
  /\ main \in MainLabels
  /\ status \in [Ends -> {"new", "open", "closed"}]
  /\ pump \in [Ends -> {"new", "check", "recv", "send", "ended"}]
  /\ main \in {"init 2", "signal", "start", "join"} => status[1] = "open"
  /\ main \in {"signal", "start", "join"} => status[2] = "open"
  /\ main = "join" \/ \A e \in Ends : pump[e] \in {"new", "ended"}

(* Before the program starts nothing is open and no thread runs. *)
LEMMA InitBridge == Init => BridgeInv
BY DEF Init, BridgeInv, MainLabels, Ends

(* main() opens both transceivers before it starts the threads, and closes *)
(* them once both have ended.                                              *)
LEMMA MainKeepsBridge ==
  ASSUME BridgeInv, Main
  PROVE  BridgeInv'
<1> USE DEF BridgeInv, MainLabels, Ends, MainGoes
<1>1. CASE BadArguments \/ GoodArguments \/ InitFails \/ SetHandler
  BY <1>1 DEF BadArguments, GoodArguments, InitFails, SetHandler
<1>2. CASE StartThreads
  BY <1>2 DEF StartThreads
<1>3. CASE JoinThreads
  BY <1>3 DEF JoinThreads, Joined
<1>4. ASSUME NEW e \in Ends, InitEnd(e) PROVE BridgeInv'
  BY <1>4 DEF InitEnd
<1>5. ASSUME NEW e \in Ends, DeinitEnd(e) PROVE BridgeInv'
  BY <1>5 DEF DeinitEnd
<1> QED BY <1>1, <1>2, <1>3, <1>4, <1>5 DEF Main

(* A thread that runs is one main() is to join. *)
LEMMA PumpKeepsBridge ==
  ASSUME BridgeInv, NEW e \in Ends, Pump(e)
  PROVE  BridgeInv'
<1>1. pump[e] \in {"check", "recv", "send"}
  BY DEF Pump, Check, Receive, Forward
<1>2. main = "join"
  BY <1>1 DEF BridgeInv
<1>3. /\ pump' \in [Ends -> {"new", "check", "recv", "send", "ended"}]
      /\ main' = main /\ status' = status
  BY DEF BridgeInv, Pump, Check, Receive, Forward
<1> QED BY <1>2, <1>3 DEF BridgeInv

(* A step of main(), of a thread, of the signal handler or of a device. *)
LEMMA BridgeStep == BridgeInv /\ [Next]_vars => BridgeInv'
<1> SUFFICES ASSUME BridgeInv, [Next]_vars PROVE BridgeInv'
  OBVIOUS
<1>1. CASE HandleSignal
  BY <1>1 DEF HandleSignal, BridgeInv
<1>2. ASSUME NEW e \in Ends, Device(e) PROVE BridgeInv'
  BY <1>2 DEF Device, BridgeInv
<1>3. ASSUME NEW e \in Ends, ReceiveFails(e) PROVE BridgeInv'
  BY <1>3 DEF ReceiveFails, BridgeInv
<1>4. CASE UNCHANGED vars
  BY <1>4 DEF vars, BridgeInv
<1> QED BY <1>1, <1>2, <1>3, <1>4, MainKeepsBridge, PumpKeepsBridge DEF Next

(* Whenever SIGINT comes, and whichever init() fails, no thread of the     *)
(* bridge calls recv() or send() of a transceiver that is not between its  *)
(* init() and its deinit().                                                *)
THEOREM BridgeCorrect == Spec => []UsedWhileOpen
<1>1. BridgeInv => UsedWhileOpen
  BY DEF BridgeInv, UsedWhileOpen, Ends
<1> QED BY <1>1, InitBridge, BridgeStep, PTL DEF Spec

-----------------------------------------------------------------------------
(* Concatenating packets *)

(* The concatenations of the first sequences of s, up to n of them. *)
Flattening(s, n, f) ==
  f = [i \in 1..n |-> IF i = 1 THEN s[i] ELSE f[i - 1] \o s[i]]

(* For every sequence of packets there are such concatenations. *)
LEMMA FlatteningExists ==
  ASSUME NEW S, NEW s \in Seq(Seq(S))
  PROVE  \A n \in 0..Len(s) : \E f : Flattening(s, n, f) /\ \A i \in 1..n : f[i] \in Seq(S)
<1> DEFINE Right(n) == \E f : Flattening(s, n, f) /\ \A i \in 1..n : f[i] \in Seq(S)
           T == {n \in 0..Len(s) : Right(n)}
<1>0. Len(s) \in Nat
  OBVIOUS
<1>1. 0 \in T
  <2> DEFINE f == [i \in 1..0 |-> i]
  <2>1. Flattening(s, 0, f) /\ \A i \in 1..0 : f[i] \in Seq(S)
    BY DEF Flattening
  <2> QED BY <1>0, <2>1
<1>2. ASSUME NEW n \in 0..(Len(s) - 1), n \in T PROVE n + 1 \in T
  <2>1. PICK f : Flattening(s, n, f) /\ \A i \in 1..n : f[i] \in Seq(S)
    BY <1>2
  <2>2. PICK x : x = IF n = 0 THEN s[n + 1] ELSE f[n] \o s[n + 1]
    OBVIOUS
  <2>3. x \in Seq(S)
    <3>1. s[n + 1] \in Seq(S)
      OBVIOUS
    <3>2. CASE n = 0
      BY <2>2, <3>1, <3>2
    <3>3. CASE n # 0
      BY <2>1, <2>2, <3>1, <3>3, ConcatProperties
    <3> QED BY <3>2, <3>3
  <2> DEFINE g == [i \in 1..(n + 1) |-> IF i = n + 1 THEN x ELSE f[i]]
  <2>4. \A i \in 1..(n + 1) : g[i] \in Seq(S)
    BY <2>1, <2>3
  <2>5. ASSUME NEW i \in 1..(n + 1)
        PROVE  g[i] = IF i = 1 THEN s[i] ELSE g[i - 1] \o s[i]
    <3>1. CASE i = n + 1
      BY <2>2, <3>1
    <3>2. CASE i # n + 1
      <4>1. i \in 1..n
        BY <3>2
      <4>2. f[i] = IF i = 1 THEN s[i] ELSE f[i - 1] \o s[i]
        <5> HIDE DEF g
        <5> QED BY <2>1, <4>1 DEF Flattening
      <4>3. g[i] = f[i] /\ (i # 1 => g[i - 1] = f[i - 1])
        BY <4>1
      <4> QED BY <4>2, <4>3
    <3> QED BY <3>1, <3>2
  <2>6. g = [i \in 1..(n + 1) |-> g[i]]
    OBVIOUS
  <2> HIDE DEF g
  <2>7. Flattening(s, n + 1, g)
    BY <2>5, <2>6 DEF Flattening
  <2>8. Right(n + 1)
    BY <2>4, <2>7
  <2> QED BY <1>0, <2>8
<1> HIDE DEF T
<1>3. \A n \in 0..Len(s) : n \in T
  BY <1>0, <1>1, <1>2, Induction
<1> QED BY <1>3 DEF T

(* There is only one. *)
LEMMA FlatteningUnique ==
  ASSUME NEW s, NEW n \in Nat, NEW f, NEW g, Flattening(s, n, f), Flattening(s, n, g)
  PROVE  \A i \in 1..n : f[i] = g[i]
<1> DEFINE T == {i \in 0..n : i = 0 \/ f[i] = g[i]}
<1>1. 0 \in T
  OBVIOUS
<1>2. ASSUME NEW i \in 0..(n - 1), i \in T PROVE i + 1 \in T
  <2>1. i + 1 \in 1..n /\ (i + 1) - 1 = i /\ (i + 1 = 1 <=> i = 0)
    OBVIOUS
  <2>2. f[i + 1] = IF i + 1 = 1 THEN s[i + 1] ELSE f[(i + 1) - 1] \o s[i + 1]
    BY <2>1 DEF Flattening
  <2>3. g[i + 1] = IF i + 1 = 1 THEN s[i + 1] ELSE g[(i + 1) - 1] \o s[i + 1]
    BY <2>1 DEF Flattening
  <2>4. i = 0 \/ f[i] = g[i]
    BY <1>2
  <2>5. f[i + 1] = g[i + 1]
    BY <2>1, <2>2, <2>3, <2>4
  <2> QED BY <2>1, <2>5
<1> HIDE DEF T
<1>3. \A i \in 0..n : i \in T
  BY <1>1, <1>2, Induction
<1> QED BY <1>3 DEF T

(* FlattenSeq is the last of the concatenations. *)
LEMMA FlattenIs ==
  ASSUME NEW S, NEW s \in Seq(Seq(S)), s # <<>>, NEW f, Flattening(s, Len(s), f)
  PROVE  FlattenSeq(s) = f[Len(s)] /\ FlattenSeq(s) \in Seq(S)
<1> DEFINE g == CHOOSE g : g = [i \in 1..Len(s) |-> IF i = 1 THEN s[i] ELSE g[i - 1] \o s[i]]
<1>1. Len(s) \in Nat /\ Len(s) # 0
  OBVIOUS
<1>2. FlattenSeq(s) = g[Len(s)]
  BY <1>1 DEF FlattenSeq
<1>3. PICK h : Flattening(s, Len(s), h) /\ \A i \in 1..Len(s) : h[i] \in Seq(S)
  BY <1>1, FlatteningExists
<1>4. Flattening(s, Len(s), g)
  BY <1>3 DEF Flattening
<1> HIDE DEF g
<1>5. \A i \in 1..Len(s) : g[i] = h[i]
  BY <1>1, <1>3, <1>4, FlatteningUnique
<1>6. \A i \in 1..Len(s) : g[i] = f[i]
  BY <1>1, <1>4, FlatteningUnique
<1>7. Len(s) \in 1..Len(s)
  BY <1>1
<1>8. g[Len(s)] \in Seq(S) /\ g[Len(s)] = f[Len(s)]
  BY <1>3, <1>5, <1>6, <1>7
<1> QED BY <1>2, <1>8

(* No packets hold no bytes. *)
LEMMA FlattenEmpty == FlattenSeq(<<>>) = <<>>
BY DEF FlattenSeq

(* The bytes of packets are a sequence of bytes. *)
LEMMA FlattenType ==
  ASSUME NEW S, NEW s \in Seq(Seq(S))
  PROVE  FlattenSeq(s) \in Seq(S)
<1>1. CASE s = <<>>
  <2>1. <<>> \in Seq(S)
    OBVIOUS
  <2> QED BY <1>1, <2>1, FlattenEmpty
<1>2. CASE s # <<>>
  <2>1. PICK f : Flattening(s, Len(s), f)
    BY FlatteningExists
  <2> QED BY <1>2, <2>1, FlattenIs
<1> QED BY <1>1, <1>2

(* A packet that is put behind others puts its bytes behind theirs. *)
LEMMA FlattenAppend ==
  ASSUME NEW S, NEW s \in Seq(Seq(S)), NEW x \in Seq(S)
  PROVE  FlattenSeq(Append(s, x)) = FlattenSeq(s) \o x
<1>0. Append(s, x) \in Seq(Seq(S))
  OBVIOUS
<1>1. PICK t \in Seq(Seq(S)) : t = Append(s, x)
  BY <1>0
<1>2. /\ t # <<>> /\ Len(t) = Len(s) + 1 /\ Len(s) \in Nat
      /\ \A i \in 1..Len(s) : s[i] = t[i]
      /\ t[Len(s) + 1] = x
  BY <1>1, AppendProperties
<1>3. PICK g : Flattening(t, Len(t), g)
  BY <1>2, FlatteningExists
<1>4. FlattenSeq(t) = g[Len(t)]
  BY <1>2, <1>3, FlattenIs
<1>5. \A i \in 1..Len(t) : g[i] = IF i = 1 THEN t[i] ELSE g[i - 1] \o t[i]
  BY <1>3 DEF Flattening
<1>6. Len(t) \in 1..Len(t)
  BY <1>2
<1>7. CASE s = <<>>
  <2>1. Len(t) = 1 /\ FlattenSeq(s) = <<>>
    BY <1>2, <1>7, FlattenEmpty
  <2>2. FlattenSeq(t) = x
    BY <1>2, <1>4, <1>5, <1>6, <2>1
  <2> QED BY <1>1, <2>1, <2>2, ConcatEmptySeq
<1>8. CASE s # <<>>
  <2> DEFINE f == [i \in 1..Len(s) |-> g[i]]
  <2>1. ASSUME NEW i \in 1..Len(s)
        PROVE  f[i] = IF i = 1 THEN s[i] ELSE f[i - 1] \o s[i]
    <3>1. i \in 1..Len(t) /\ (i # 1 => i - 1 \in 1..Len(s))
      BY <1>2
    <3> QED BY <1>2, <1>5, <3>1
  <2>2. f = [i \in 1..Len(s) |-> f[i]]
    OBVIOUS
  <2>3. Len(s) \in 1..Len(s) /\ Len(t) # 1 /\ Len(t) - 1 = Len(s)
    BY <1>2, <1>8
  <2>4. f[Len(s)] = g[Len(t) - 1]
    BY <2>3
  <2> HIDE DEF f
  <2>5. Flattening(s, Len(s), f)
    BY <2>1, <2>2 DEF Flattening
  <2>6. FlattenSeq(s) = f[Len(s)]
    BY <1>8, <2>5, FlattenIs
  <2>7. g[Len(t)] = g[Len(t) - 1] \o t[Len(t)]
    BY <1>5, <1>6, <2>3
  <2> QED BY <1>1, <1>2, <1>4, <2>4, <2>6, <2>7
<1> QED BY <1>7, <1>8

(* Appending to the second sequence appends to both. *)
LEMMA ConcatAppend ==
  ASSUME NEW S, NEW s \in Seq(S), NEW t \in Seq(S), NEW x \in S
  PROVE  s \o Append(t, x) = Append(s \o t, x)
<1>0. <<x>> \in Seq(S)
  OBVIOUS
<1>1. PICK v \in Seq(S) : v = <<x>>
  BY <1>0
<1>2. (s \o t) \o v = s \o (t \o v)
  BY ConcatAssociative
<1>3. s \o t \in Seq(S)
  BY ConcatProperties
<1>4. Append(t, x) = t \o v /\ Append(s \o t, x) = (s \o t) \o v
  BY <1>1, <1>3, AppendIsConcat
<1> QED BY <1>2, <1>4

(* The step of FlattenConcat: one more packet in the second sequence. *)
LEMMA FlattenStep ==
  ASSUME NEW S, NEW s \in Seq(Seq(S)), NEW t \in Seq(Seq(S)), NEW x \in Seq(S),
         FlattenSeq(s \o t) = FlattenSeq(s) \o FlattenSeq(t)
  PROVE  FlattenSeq(s \o Append(t, x)) = FlattenSeq(s) \o FlattenSeq(Append(t, x))
<1>1. s \o Append(t, x) = Append(s \o t, x)
  BY ConcatAppend
<1>2. s \o t \in Seq(Seq(S))
  BY ConcatProperties
<1>3. FlattenSeq(Append(s \o t, x)) = (FlattenSeq(s) \o FlattenSeq(t)) \o x
  BY <1>2, FlattenAppend
<1>4. FlattenSeq(Append(t, x)) = FlattenSeq(t) \o x
  BY FlattenAppend
<1>5. PICK a \in Seq(S), b \in Seq(S) : a = FlattenSeq(s) /\ b = FlattenSeq(t)
  BY FlattenType
<1>6. (a \o b) \o x = a \o (b \o x)
  BY ConcatAssociative
<1> QED BY <1>1, <1>3, <1>4, <1>5, <1>6

(* The bytes of two sequences of packets are those of the first and those  *)
(* of the second.                                                          *)
LEMMA FlattenConcat ==
  ASSUME NEW S, NEW s \in Seq(Seq(S)), NEW t \in Seq(Seq(S))
  PROVE  FlattenSeq(s \o t) = FlattenSeq(s) \o FlattenSeq(t)
<1> DEFINE P(k) == FlattenSeq(s \o SubSeq(t, 1, k)) = FlattenSeq(s) \o FlattenSeq(SubSeq(t, 1, k))
           T == {k \in 0..Len(t) : P(k)}
<1>0. FlattenSeq(s) \in Seq(S) /\ Len(t) \in Nat
  BY FlattenType
<1>1. 0 \in T
  <2>1. SubSeq(t, 1, 0) = <<>> /\ s \o <<>> = s /\ FlattenSeq(s) \o <<>> = FlattenSeq(s)
    BY <1>0, SubSeqEmpty, ConcatEmptySeq
  <2>2. P(0)
    BY <2>1, FlattenEmpty
  <2> QED BY <1>0, <2>2
<1>2. ASSUME NEW k \in 0..(Len(t) - 1), k \in T PROVE k + 1 \in T
  <2>1. SubSeq(t, 1, k) \in Seq(Seq(S)) /\ t[k + 1] \in Seq(S)
    <3>1. k + 1 \in 1..Len(t) /\ k \in Int /\ \A i \in 1..k : t[i] \in Seq(S)
      BY <1>0
    <3> QED BY <3>1, SubSeqProperties
  <2>2. SubSeq(t, 1, k + 1) = Append(SubSeq(t, 1, k), t[k + 1])
    <3>1. k + 1 \in 1..Len(t) /\ 1 \in 1..Len(t) /\ (k + 1) - 1 = k
      BY <1>0
    <3>2. SubSeq(t, 1, k + 1) = SubSeq(t, 1, (k + 1) - 1) \o <<t[k + 1]>>
      BY <3>1, SubSeqRecursiveSecond
    <3> QED BY <2>1, <3>1, <3>2, AppendIsConcat
  <2>3. P(k)
    BY <1>2
  <2>4. P(k + 1)
    BY <2>1, <2>2, <2>3, FlattenStep
  <2>5. k + 1 \in 0..Len(t)
    BY <1>0
  <2> QED BY <2>4, <2>5
<1> HIDE DEF T
<1>3. \A k \in 0..Len(t) : k \in T
  BY <1>0, <1>1, <1>2, Induction
<1>4. P(Len(t))
  <2>1. Len(t) \in 0..Len(t)
    BY <1>0
  <2>2. Len(t) \in T
    BY <1>3, <2>1
  <2> QED BY <2>2 DEF T
<1>5. SubSeq(t, 1, Len(t)) = t
  BY SubSeqFull
<1> QED BY <1>4, <1>5

(* A single packet holds its own bytes. *)
LEMMA FlattenOne ==
  ASSUME NEW S, NEW x \in Seq(S)
  PROVE  FlattenSeq(<<x>>) = x
<1>1. <<>> \in Seq(Seq(S)) /\ <<x>> = Append(<<>>, x)
  OBVIOUS
<1>2. FlattenSeq(Append(<<>>, x)) = FlattenSeq(<<>>) \o x
  BY <1>1, FlattenAppend
<1> QED BY <1>1, <1>2, FlattenEmpty, ConcatEmptySeq

(* A sequence is its first elements and the others. *)
LEMMA Halves ==
  ASSUME NEW S, NEW s \in Seq(S), NEW k \in 0..Len(s)
  PROVE  /\ SubSeq(s, 1, k) \in Seq(S) /\ SubSeq(s, k + 1, Len(s)) \in Seq(S)
         /\ Len(SubSeq(s, 1, k)) = k
         /\ SubSeq(s, 1, k) \o SubSeq(s, k + 1, Len(s)) = s
<1>1. Len(s) \in Nat /\ k \in Int /\ Len(s) \in Int /\ k + 1 \in Int
  OBVIOUS
<1>2. /\ \A i \in 1..k : s[i] \in S
      /\ \A i \in (k + 1)..Len(s) : s[i] \in S
  BY <1>1
<1>3. SubSeq(s, 1, k) \in Seq(S) /\ Len(SubSeq(s, 1, k)) = k
  BY <1>1, <1>2, SubSeqProperties
<1>4. SubSeq(s, k + 1, Len(s)) \in Seq(S)
  BY <1>1, <1>2, SubSeqProperties
<1>5. SubSeq(s, 1, k) \o SubSeq(s, k + 1, Len(s)) = SubSeq(s, 1, Len(s))
  <2>1. 1 \in 1..(Len(s) + 1) /\ k \in (1 - 1)..Len(s) /\ Len(s) \in k..Len(s)
    BY <1>1
  <2> QED BY <2>1, ConcatAdjacentSubSeq
<1> QED BY <1>3, <1>4, <1>5, SubSeqFull

(* The bytes of packets are those of the first ones and those of the       *)
(* others.                                                                 *)
LEMMA FlattenHalves ==
  ASSUME NEW S, NEW s \in Seq(Seq(S)), NEW k \in 0..Len(s)
  PROVE  FlattenSeq(s) = FlattenSeq(SubSeq(s, 1, k)) \o FlattenSeq(SubSeq(s, k + 1, Len(s)))
<1>1. /\ SubSeq(s, 1, k) \in Seq(Seq(S)) /\ SubSeq(s, k + 1, Len(s)) \in Seq(Seq(S))
      /\ SubSeq(s, 1, k) \o SubSeq(s, k + 1, Len(s)) = s
  BY Halves
<1>2. PICK t \in Seq(Seq(S)), u \in Seq(Seq(S)) :
        t = SubSeq(s, 1, k) /\ u = SubSeq(s, k + 1, Len(s))
  BY <1>1
<1>3. FlattenSeq(t \o u) = FlattenSeq(t) \o FlattenSeq(u)
  BY FlattenConcat
<1> QED BY <1>1, <1>2, <1>3

-----------------------------------------------------------------------------
(* What recv() and send() do to the bytes *)

(* recv() returns at most n bytes; what it returns and what it leaves are  *)
(* bytes that waited, in their order, and all of them if kind is a stream. *)
Takes(S, kind_, packets, n, outcome) ==
  /\ outcome.data \in Seq(S) /\ Len(outcome.data) <= n
  /\ outcome.rest \in Seq(Seq(S))
  /\ IsPart(outcome.data \o FlattenSeq(outcome.rest), FlattenSeq(packets))
  /\ kind_ \in Streams =>
       outcome.data \o FlattenSeq(outcome.rest) = FlattenSeq(packets)

(* A recv() that fails, or finds nothing, takes nothing. *)
LEMMA NothingTakes ==
  ASSUME NEW S, NEW k, NEW packets \in Seq(Seq(S)), NEW n \in Nat
  PROVE  Takes(S, k, packets, n, Nothing(packets))
<1>1. FlattenSeq(packets) \in Seq(S)
  BY FlattenType
<1>2. <<>> \in Seq(S) /\ Len(<<>>) = 0
  OBVIOUS
<1>3. <<>> \o FlattenSeq(packets) = FlattenSeq(packets)
  BY <1>1, ConcatEmptySeq
<1>4. IsPart(FlattenSeq(packets), FlattenSeq(packets))
  BY <1>1, PartOfItself
<1> QED BY <1>2, <1>3, <1>4 DEF Takes, Nothing

(* Upto is the lesser of two numbers. *)
LEMMA UptoBounds ==
  ASSUME NEW n \in Nat, NEW bound \in Nat
  PROVE  Upto(n, bound) \in 0..n /\ Upto(n, bound) <= bound
BY DEF Upto

(* A read from a stream loses nothing. *)
LEMMA StreamTakes ==
  ASSUME NEW S, NEW kind_, NEW packets \in Seq(Seq(S)), NEW n \in Nat,
         NEW outcome \in ReadStream(packets, n)
  PROVE  Takes(S, kind_, packets, n, outcome)
<1>1. PICK bytes \in Seq(S) : bytes = FlattenSeq(packets)
  BY FlattenType
<1>2. PICK k \in 1..Upto(Len(bytes), n) : outcome = Taking(bytes, k)
  BY <1>1 DEF ReadStream
<1>3. k \in 0..Len(bytes) /\ k <= n
  <2>1. PICK m \in Nat : m = Len(bytes)
    OBVIOUS
  <2>2. Upto(m, n) \in 0..m /\ Upto(m, n) <= n
    BY UptoBounds
  <2> QED BY <2>1, <2>2
<1>4. /\ SubSeq(bytes, 1, k) \in Seq(S) /\ SubSeq(bytes, k + 1, Len(bytes)) \in Seq(S)
      /\ Len(SubSeq(bytes, 1, k)) = k
      /\ SubSeq(bytes, 1, k) \o SubSeq(bytes, k + 1, Len(bytes)) = bytes
  BY <1>3, Halves
<1>5. outcome.data = SubSeq(bytes, 1, k)
  BY <1>2 DEF Taking
<1>6. outcome.rest \in Seq(Seq(S)) /\ FlattenSeq(outcome.rest) = SubSeq(bytes, k + 1, Len(bytes))
  <2>1. CASE k = Len(bytes)
    <3>1. outcome.rest = <<>> /\ <<>> \in Seq(Seq(S))
      BY <1>2, <2>1 DEF Taking
    <3>2. SubSeq(bytes, k + 1, Len(bytes)) = <<>>
      <4>1. k + 1 \in Int /\ Len(bytes) \in Int /\ Len(bytes) < k + 1
        BY <1>3, <2>1
      <4> QED BY <4>1, SubSeqEmpty
    <3> QED BY <3>1, <3>2, FlattenEmpty
  <2>2. CASE k # Len(bytes)
    <3>1. outcome.rest = <<SubSeq(bytes, k + 1, Len(bytes))>>
      BY <1>2, <2>2 DEF Taking
    <3>2. PICK x \in Seq(S) : x = SubSeq(bytes, k + 1, Len(bytes))
      BY <1>4
    <3>3. <<x>> \in Seq(Seq(S))
      OBVIOUS
    <3> QED BY <3>1, <3>2, <3>3, FlattenOne
  <2> QED BY <2>1, <2>2
<1>7. outcome.data \o FlattenSeq(outcome.rest) = bytes /\ IsPart(bytes, bytes)
  BY <1>4, <1>5, <1>6, PartOfItself
<1> QED BY <1>1, <1>3, <1>4, <1>5, <1>6, <1>7 DEF Takes

(* A read of a datagram loses no more than the end that does not fit. *)
LEMMA DatagramTakes ==
  ASSUME NEW S, NEW packets \in Seq(Seq(S)), NEW n \in Nat,
         NEW outcome \in Datagram(packets, n)
  PROVE  Takes(S, "udp", packets, n, outcome)
<1>1. packets # <<>>
  BY DEF Datagram
<1>2. /\ Head(packets) \in Seq(S) /\ Tail(packets) \in Seq(Seq(S))
      /\ packets = <<Head(packets)>> \o Tail(packets)
  BY <1>1
<1>3. PICK x \in Seq(S), t \in Seq(Seq(S)) : x = Head(packets) /\ t = Tail(packets)
  BY <1>2
<1>4. Len(x) \in Nat /\ <<x>> \in Seq(Seq(S))
  OBVIOUS
<1>5. FlattenSeq(packets) = x \o FlattenSeq(t)
  <2>1. PICK u \in Seq(Seq(S)) : u = <<x>>
    BY <1>4
  <2>2. FlattenSeq(u \o t) = FlattenSeq(u) \o FlattenSeq(t)
    BY FlattenConcat
  <2> QED BY <1>2, <1>3, <2>1, <2>2, FlattenOne
<1>6. PICK k \in 0..Len(x) : k = Upto(Len(x), n) /\ k <= n
  BY <1>4, UptoBounds
<1>7. outcome.data = SubSeq(x, 1, k) /\ outcome.rest = t
  BY <1>1, <1>3, <1>6 DEF Datagram
<1>8. /\ SubSeq(x, 1, k) \in Seq(S) /\ Len(SubSeq(x, 1, k)) = k
      /\ IsPart(SubSeq(x, 1, k), x)
  BY Halves, PrefixIsPart
<1>9. PICK y \in Seq(S) : y = FlattenSeq(t)
  BY FlattenType
<1>10. IsPart(SubSeq(x, 1, k) \o y, x \o y)
  BY <1>8, PartOfItself, PartsConcat
<1>11. "udp" \notin Streams
  BY DEF Streams
<1> QED BY <1>5, <1>6, <1>7, <1>8, <1>9, <1>10, <1>11 DEF Takes

(* The queue is the end of the messages that came. *)
LEMMA QueuedIsPart ==
  ASSUME NEW S, NEW messages \in Seq(Seq(S))
  PROVE  /\ Queued(messages) \in Seq(Seq(S))
         /\ IsPart(FlattenSeq(Queued(messages)), FlattenSeq(messages))
<1>1. PICK j \in 0..Len(messages) : Queued(messages) = SubSeq(messages, j + 1, Len(messages))
  <2>1. Len(messages) \in Nat /\ maxQueueSize \in Nat
    BY BridgeAssumption
  <2>2. CASE Len(messages) > maxQueueSize + 1
    <3>1. Queued(messages) = SubSeq(messages, Len(messages) - maxQueueSize, Len(messages))
      BY <2>2 DEF Queued
    <3>2. /\ Len(messages) - maxQueueSize - 1 \in 0..Len(messages)
          /\ (Len(messages) - maxQueueSize - 1) + 1 = Len(messages) - maxQueueSize
      BY <2>1, <2>2
    <3> QED BY <3>1, <3>2
  <2>3. CASE ~(Len(messages) > maxQueueSize + 1)
    <3>1. Queued(messages) = SubSeq(messages, 1, Len(messages))
      BY <2>3 DEF Queued
    <3>2. 0 \in 0..Len(messages) /\ 0 + 1 = 1
      BY <2>1
    <3> QED BY <3>1, <3>2
  <2> QED BY <2>2, <2>3
<1>2. /\ SubSeq(messages, 1, j) \in Seq(Seq(S))
      /\ SubSeq(messages, j + 1, Len(messages)) \in Seq(Seq(S))
  BY Halves
<1>3. PICK a \in Seq(Seq(S)), b \in Seq(Seq(S)) :
        a = SubSeq(messages, 1, j) /\ b = SubSeq(messages, j + 1, Len(messages))
  BY <1>2
<1>4. FlattenSeq(messages) = FlattenSeq(a) \o FlattenSeq(b)
  BY <1>3, FlattenHalves
<1>5. PICK x \in Seq(S), y \in Seq(S) : x = FlattenSeq(a) /\ y = FlattenSeq(b)
  BY FlattenType
<1>6. <<>> \in Seq(S) /\ <<>> \o y = y
  BY ConcatEmptySeq
<1>7. IsPart(<<>> \o y, x \o y)
  BY <1>6, EmptyPart, PartOfItself, PartsConcat
<1> QED BY <1>1, <1>3, <1>4, <1>5, <1>6, <1>7

(* A read of the queue loses no more than what does not fit. *)
LEMMA RosTakes ==
  ASSUME NEW S, NEW packets \in Seq(Seq(S)), NEW n \in Nat,
         NEW outcome \in ReadRos(packets, n)
  PROVE  Takes(S, "ros", packets, n, outcome)
<1>1. PICK k \in 0..Len(packets) :
        outcome = [data |-> Truncated(Concatenated(Queued(SubSeq(packets, 1, k))), n),
                   rest |-> SubSeq(packets, k + 1, Len(packets))]
  BY DEF ReadRos
<1>2. SubSeq(packets, 1, k) \in Seq(Seq(S)) /\ SubSeq(packets, k + 1, Len(packets)) \in Seq(Seq(S))
  BY Halves
<1>3. PICK came \in Seq(Seq(S)), left \in Seq(Seq(S)) :
        came = SubSeq(packets, 1, k) /\ left = SubSeq(packets, k + 1, Len(packets))
  BY <1>2
<1>4. FlattenSeq(packets) = FlattenSeq(came) \o FlattenSeq(left)
  BY <1>3, FlattenHalves
<1>5. PICK queue \in Seq(Seq(S)) : queue = Queued(came) /\ IsPart(FlattenSeq(queue), FlattenSeq(came))
  BY QueuedIsPart
<1>6. PICK x \in Seq(S), y \in Seq(S), z \in Seq(S) :
        x = FlattenSeq(came) /\ y = FlattenSeq(left) /\ z = FlattenSeq(queue)
  BY FlattenType
<1>7. PICK m \in 0..Len(z) : m = Upto(Len(z), n) /\ m <= n
  <2>1. PICK l \in Nat : l = Len(z)
    OBVIOUS
  <2>2. Upto(l, n) \in 0..l /\ Upto(l, n) <= n
    BY UptoBounds
  <2> QED BY <2>1, <2>2
<1>8. outcome.data = SubSeq(z, 1, m) /\ outcome.rest = left
  BY <1>1, <1>3, <1>5, <1>6, <1>7 DEF Truncated, Concatenated
<1>9. /\ SubSeq(z, 1, m) \in Seq(S) /\ Len(SubSeq(z, 1, m)) = m
      /\ IsPart(SubSeq(z, 1, m), z)
  BY Halves, PrefixIsPart
<1>10. PICK d \in Seq(S) : d = SubSeq(z, 1, m)
  BY <1>9
<1>11. IsPart(d, x)
  <2>1. IsPart(d, z) /\ IsPart(z, x)
    BY <1>5, <1>6, <1>9, <1>10
  <2> QED BY <2>1, PartOfPart
<1>12. IsPart(d \o y, x \o y)
  BY <1>11, PartOfItself, PartsConcat
<1>13. "ros" \notin Streams
  BY DEF Streams
<1> QED BY <1>4, <1>6, <1>7, <1>8, <1>9, <1>10, <1>12, <1>13 DEF Takes

(* Every outcome of recv(), of every kind of transceiver. *)
LEMMA RecvTakes ==
  ASSUME NEW S, NEW kind_ \in Kinds, NEW packets \in Seq(Seq(S)), NEW n \in Nat,
         NEW outcome \in Recv(kind_, packets, n)
  PROVE  Takes(S, kind_, packets, n, outcome)
<1>1. CASE kind_ = "serial"
  BY <1>1, StreamTakes DEF Recv, ReadSerial
<1>2. CASE kind_ = "udp"
  <2>1. outcome = Nothing(packets) \/ outcome \in Datagram(packets, n)
    BY <1>2 DEF Recv, ReadUDP
  <2> QED BY <1>2, <2>1, NothingTakes, DatagramTakes
<1>3. CASE kind_ = "socketpair"
  <2>1. outcome = Nothing(packets) \/ outcome \in ReadStream(packets, n)
    BY <1>3 DEF Recv, ReadSocketpair
  <2> QED BY <2>1, NothingTakes, StreamTakes
<1>4. CASE kind_ = "ros"
  BY <1>4, RosTakes DEF Recv
<1> QED BY <1>1, <1>2, <1>3, <1>4 DEF Kinds

(* send() gets some of the bytes to the other side, in their order. *)
LEMMA SendGives ==
  ASSUME NEW S, NEW kind_ \in Kinds, NEW data \in Seq(S), NEW bytes \in Send(kind_, data)
  PROVE  bytes \in Seq(S) /\ IsPart(bytes, data)
<1>1. CASE kind_ = "ros"
  <2>1. bytes = data
    BY <1>1 DEF Send, SendRos
  <2> QED BY <2>1, PartOfItself
<1>2. CASE kind_ = "udp"
  <2>1. bytes = data \/ bytes = <<>>
    BY <1>2 DEF Send, SendUDP
  <2>2. <<>> \in Seq(S)
    OBVIOUS
  <2> QED BY <1>2, <2>1, <2>2, PartOfItself, EmptyPart
<1>3. CASE kind_ \in Streams
  <2>1. PICK k \in 0..Len(data) : bytes = SubSeq(data, 1, k)
    BY <1>3 DEF Send, SendSerial, SendSocketpair, WriteStream, Streams
  <2> QED BY <2>1, PrefixIsPart
<1> QED BY <1>1, <1>2, <1>3 DEF Kinds, Streams

-----------------------------------------------------------------------------
(* The bytes on their way *)

(* The first n bytes a device sends. *)
Numbers(n) == [k \in 1..n |-> k]

Ahead(e) == outgoing[Other(e)] \o buf[e] \o FlattenSeq(incoming[e])

(* TypeOK, ForwardedInOrder and LostOnlyUnsent, strengthened to an         *)
(* inductive invariant with BridgeInv: what went to the other device, the  *)
(* buffer and what waits are a part of what the device has sent, the       *)
(* buffer is empty when recv() is called, and what a send() did not send   *)
(* is the device's.                                                        *)
EndInv(e) ==
  /\ Len(buf[e]) <= BufSize
  /\ pump[e] # "send" => buf[e] = <<>>
  /\ IsPart(Ahead(e), Numbers(produced[e]))
  /\ unsent[Other(e)] \subseteq 1..produced[e]
  /\ kind[e] \in Streams => ToSet(Ahead(e)) = (1..produced[e]) \ unsent[Other(e)]

DataTypes ==
  /\ kind \in [Ends -> Kinds]
  /\ isRunning \in BOOLEAN
  /\ buf \in [Ends -> Bytes]
  /\ produced \in [Ends -> 0..MaxBytes]
  /\ incoming \in [Ends -> Seq(Bytes)]
  /\ outgoing \in [Ends -> Bytes]
  /\ unsent \in [Ends -> SUBSET (1..MaxBytes)]

DataInv == DataTypes /\ \A e \in Ends : EndInv(e)

(* Each end has one other end, which is not itself. *)
LEMMA OtherEnd ==
  ASSUME NEW e \in Ends
  PROVE  Other(e) \in Ends /\ Other(e) # e /\ \A f \in Ends : Other(f) = Other(e) <=> f = e
BY DEF Ends, Other

(* The bytes that a device has sent are as many as it has produced. *)
LEMMA NumbersTyped ==
  ASSUME NEW n \in 0..MaxBytes
  PROVE  Numbers(n) \in Bytes /\ Len(Numbers(n)) = n
<1>1. MaxBytes \in Nat
  BY BridgeAssumption
<1> QED BY <1>1 DEF Numbers, Bytes

(* What a device sends next comes behind what it has sent. *)
LEMMA NumbersGrow ==
  ASSUME NEW p \in 0..MaxBytes, NEW n \in Nat, p + n <= MaxBytes
  PROVE  /\ [k \in 1..n |-> p + k] \in Bytes
         /\ Numbers(p) \o [k \in 1..n |-> p + k] = Numbers(p + n)
<1> DEFINE new == [k \in 1..n |-> p + k]
<1>1. MaxBytes \in Nat
  BY BridgeAssumption
<1>2. new \in Bytes /\ Len(new) = n
  BY <1>1 DEF Bytes
<1>3. Numbers(p) \in Bytes /\ Len(Numbers(p)) = p
  BY NumbersTyped
<1>4. /\ Numbers(p) \o new \in Bytes /\ Len(Numbers(p) \o new) = p + n
      /\ \A i \in 1..(p + n) :
           (Numbers(p) \o new)[i] = IF i <= p THEN Numbers(p)[i] ELSE new[i - p]
  <2> HIDE DEF new
  <2>1. PICK a \in Bytes, b \in Bytes : a = Numbers(p) /\ b = new
    BY <1>2, <1>3
  <2>2. /\ a \o b \in Bytes /\ Len(a \o b) = Len(a) + Len(b)
        /\ \A i \in 1..(Len(a) + Len(b)) :
             (a \o b)[i] = IF i <= Len(a) THEN a[i] ELSE b[i - Len(a)]
    BY ConcatProperties DEF Bytes
  <2> QED BY <1>2, <1>3, <2>1, <2>2
<1>5. p + n \in 0..MaxBytes
  BY <1>1
<1>6. Numbers(p + n) \in Bytes /\ Len(Numbers(p + n)) = p + n
  BY <1>5, NumbersTyped
<1>7. \A i \in 1..(p + n) : (Numbers(p) \o new)[i] = Numbers(p + n)[i]
  BY <1>4 DEF Numbers
<1>8. Numbers(p) \o new = Numbers(p + n)
  <2> HIDE DEF new
  <2>1. PICK a \in Bytes, b \in Bytes : a = Numbers(p) \o new /\ b = Numbers(p + n)
    BY <1>4, <1>6
  <2>2. Len(a) = Len(b) /\ \A i \in 1..Len(a) : a[i] = b[i]
    BY <1>4, <1>6, <1>7, <2>1
  <2> QED BY <2>1, <2>2, SeqEqual DEF Bytes
<1> QED BY <1>2, <1>8

(* What is ahead of a byte is bytes. *)
LEMMA AheadTyped ==
  ASSUME DataTypes, NEW e \in Ends
  PROVE  /\ outgoing[Other(e)] \in Bytes /\ buf[e] \in Bytes /\ incoming[e] \in Seq(Bytes)
         /\ FlattenSeq(incoming[e]) \in Bytes /\ Ahead(e) \in Bytes
         /\ kind[e] \in Kinds /\ kind[Other(e)] \in Kinds
         /\ produced[e] \in 0..MaxBytes
<1>1. /\ outgoing[Other(e)] \in Bytes /\ buf[e] \in Bytes /\ incoming[e] \in Seq(Bytes)
      /\ kind[e] \in Kinds /\ kind[Other(e)] \in Kinds /\ produced[e] \in 0..MaxBytes
  BY OtherEnd DEF DataTypes
<1>2. FlattenSeq(incoming[e]) \in Bytes
  <2>1. PICK packets \in Seq(Bytes) : packets = incoming[e]
    BY <1>1
  <2>2. FlattenSeq(packets) \in Bytes
    BY FlattenType DEF Bytes
  <2> QED BY <2>1, <2>2
<1>3. \A a, b, c \in Bytes : (a \o b) \o c \in Bytes
  BY ConcatProperties DEF Bytes
<1> QED BY <1>1, <1>2, <1>3 DEF Ahead

(* An empty buffer may be left out. *)
LEMMA JoinEmpty ==
  ASSUME NEW a \in Bytes, NEW c \in Bytes
  PROVE  (a \o <<>>) \o c = a \o c
BY ConcatEmptySeq DEF Bytes

(* Joining bytes is associative, and gives bytes. *)
LEMMA JoinAssociative ==
  ASSUME NEW a \in Bytes, NEW b \in Bytes, NEW c \in Bytes
  PROVE  (a \o b) \o c = a \o (b \o c) /\ a \o b \in Bytes
BY ConcatAssociative, ConcatProperties DEF Bytes

(* The same for all bytes, to be cited where terms are large. *)
LEMMA JoinsAssociative == \A a, b, c \in Bytes : (a \o b) \o c = a \o (b \o c)
BY JoinAssociative

(* Parts of two sequences of bytes join to a part of both. *)
LEMMA JoinedParts ==
  ASSUME NEW a \in Bytes, NEW b \in Bytes, NEW c \in Bytes, NEW d \in Bytes,
         IsPart(a, c), IsPart(b, d)
  PROVE  IsPart(a \o b, c \o d)
BY PartsConcat DEF Bytes

(* Bytes are a part of themselves. *)
LEMMA BytesPart ==
  ASSUME NEW a \in Bytes
  PROVE  IsPart(a, a)
BY PartOfItself DEF Bytes

(* Bytes are numbers that a device may send. *)
LEMMA BytesSet ==
  ASSUME NEW b \in Bytes
  PROVE  ToSet(b) \subseteq 1..MaxBytes
<1>1. \A j \in 1..Len(b) : b[j] \in 1..MaxBytes
  BY ElementOfSeq DEF Bytes
<1>2. DOMAIN b = 1..Len(b)
  BY DEF Bytes
<1> QED BY <1>1, <1>2 DEF ToSet

(* Bytes joined are the bytes of both. *)
LEMMA JoinedSet ==
  ASSUME NEW a \in Bytes, NEW b \in Bytes
  PROVE  ToSet(a \o b) = ToSet(a) \cup ToSet(b)
<1>1. /\ a \o b \in Bytes /\ Len(a \o b) = Len(a) + Len(b)
      /\ \A i \in 1..(Len(a) + Len(b)) :
           (a \o b)[i] = IF i <= Len(a) THEN a[i] ELSE b[i - Len(a)]
  BY ConcatProperties DEF Bytes
<1>2. /\ Len(a) \in Nat /\ Len(b) \in Nat
      /\ DOMAIN a = 1..Len(a) /\ DOMAIN b = 1..Len(b) /\ DOMAIN (a \o b) = 1..Len(a \o b)
  BY <1>1 DEF Bytes
<1>3. ASSUME NEW x \in ToSet(a \o b) PROVE x \in ToSet(a) \cup ToSet(b)
  <2>1. PICK i \in 1..(Len(a) + Len(b)) : x = (a \o b)[i]
    BY <1>1, <1>2 DEF ToSet
  <2>2. i <= Len(a) => i \in 1..Len(a)
    BY <1>2
  <2>3. ~(i <= Len(a)) => i - Len(a) \in 1..Len(b)
    BY <1>2
  <2> QED BY <1>1, <1>2, <2>1, <2>2, <2>3 DEF ToSet
<1>4. ASSUME NEW i \in 1..Len(a) PROVE a[i] \in ToSet(a \o b)
  <2>1. i \in 1..(Len(a) + Len(b)) /\ i <= Len(a)
    BY <1>2
  <2> QED BY <1>1, <1>2, <2>1 DEF ToSet
<1>5. ASSUME NEW i \in 1..Len(b) PROVE b[i] \in ToSet(a \o b)
  <2>1. /\ Len(a) + i \in 1..(Len(a) + Len(b))
        /\ ~(Len(a) + i <= Len(a)) /\ (Len(a) + i) - Len(a) = i
    BY <1>2
  <2> QED BY <1>1, <1>2, <2>1 DEF ToSet
<1> QED BY <1>2, <1>3, <1>4, <1>5 DEF ToSet

(* A part of a sequence has none but its elements. *)
LEMMA PartSet ==
  ASSUME NEW s \in Bytes, NEW t \in Bytes, IsPart(s, t)
  PROVE  ToSet(s) \subseteq ToSet(t)
<1>1. PICK g : IsEmbedding(g, s, t)
  BY DEF IsPart
<1>2. DOMAIN s = 1..Len(s) /\ DOMAIN t = 1..Len(t)
  BY DEF Bytes
<1> QED BY <1>1, <1>2 DEF IsEmbedding, ToSet

(* The bytes that a device sent are as many as their numbers say. *)
LEMMA NumbersSet ==
  ASSUME NEW n \in 0..MaxBytes
  PROVE  ToSet(Numbers(n)) = 1..n
<1>1. DOMAIN Numbers(n) = 1..n /\ \A i \in 1..n : Numbers(n)[i] = i
  BY DEF Numbers
<1> QED BY <1>1 DEF ToSet

(* Of what a device has sent, no byte is in two places on the way. *)
LEMMA PlacesApart ==
  ASSUME NEW n \in 0..MaxBytes, NEW a \in Bytes, NEW b \in Bytes,
         IsPart(a \o b, Numbers(n))
  PROVE  ToSet(a) \cap ToSet(b) = {}
<1>1. /\ a \o b \in Bytes /\ Len(a \o b) = Len(a) + Len(b)
      /\ \A i \in 1..(Len(a) + Len(b)) :
           (a \o b)[i] = IF i <= Len(a) THEN a[i] ELSE b[i - Len(a)]
  BY ConcatProperties DEF Bytes
<1>2. /\ Len(a) \in Nat /\ Len(b) \in Nat
      /\ DOMAIN a = 1..Len(a) /\ DOMAIN b = 1..Len(b)
  BY DEF Bytes
<1>3. PICK g : IsEmbedding(g, a \o b, Numbers(n))
  BY DEF IsPart
<1>4. Len(Numbers(n)) = n
  BY NumbersTyped
<1>5. \A i \in 1..(Len(a) + Len(b)) : g[i] \in 1..n /\ (a \o b)[i] = g[i]
  BY <1>1, <1>3, <1>4 DEF IsEmbedding, Numbers
<1>6. SUFFICES ASSUME NEW i \in 1..Len(a), NEW j \in 1..Len(b), a[i] = b[j] PROVE FALSE
  BY <1>2 DEF ToSet
<1>7. /\ i \in 1..(Len(a) + Len(b)) /\ i <= Len(a)
      /\ Len(a) + j \in 1..(Len(a) + Len(b)) /\ ~(Len(a) + j <= Len(a))
      /\ (Len(a) + j) - Len(a) = j /\ i < Len(a) + j
  BY <1>2
<1>8. g[i] = g[Len(a) + j] /\ g[i] < g[Len(a) + j] /\ g[i] \in 1..n
  BY <1>1, <1>3, <1>5, <1>6, <1>7 DEF IsEmbedding
<1>9. n \in Nat
  BY BridgeAssumption
<1> QED BY <1>8, <1>9

(* A step that leaves what is ahead of an end alone. *)
LEMMA EndUnchanged ==
  ASSUME NEW e \in Ends, EndInv(e), kind' = kind,
         UNCHANGED <<buf[e], produced[e], incoming[e], outgoing[Other(e)], unsent[Other(e)]>>,
         pump'[e] # "send" => pump[e] # "send"
  PROVE  EndInv(e)'
BY DEF EndInv, Ahead

(* recv() moves bytes from the packets that wait into the empty buffer of  *)
(* its thread.                                                             *)
LEMMA ReceiveKeepsData ==
  ASSUME BridgeInv, DataInv, NEW e \in Ends, Receive(e)
  PROVE  DataInv'
<1>1. PICK outcome \in Recv(kind[e], incoming[e], BufSize) :
        /\ incoming' = [incoming EXCEPT ![e] = outcome.rest]
        /\ buf' = [buf EXCEPT ![e] = outcome.data]
        /\ pump' = [pump EXCEPT ![e] = IF outcome.data = <<>> THEN "check" ELSE "send"]
  BY DEF Receive
<1>2. /\ kind' = kind /\ isRunning' = isRunning /\ produced' = produced
      /\ outgoing' = outgoing /\ unsent' = unsent /\ pump[e] = "recv"
  BY DEF Receive
<1>3. /\ outgoing[Other(e)] \in Bytes /\ incoming[e] \in Seq(Bytes) /\ kind[e] \in Kinds
      /\ FlattenSeq(incoming[e]) \in Bytes /\ produced[e] \in 0..MaxBytes
  BY AheadTyped DEF DataInv
<1>4. Takes(1..MaxBytes, kind[e], incoming[e], BufSize, outcome)
  <2>1. PICK packets \in Seq(Seq(1..MaxBytes)) : packets = incoming[e]
    BY <1>3 DEF Bytes
  <2>2. BufSize \in Nat
    BY BridgeAssumption
  <2> QED BY <1>3, <2>1, <2>2, RecvTakes
<1>5. PICK x \in Bytes, y \in Bytes, a \in Bytes, w \in Bytes :
        /\ x = outcome.data /\ y = FlattenSeq(outcome.rest)
        /\ a = outgoing[Other(e)] /\ w = FlattenSeq(incoming[e])
  <2>1. PICK r \in Seq(Seq(1..MaxBytes)) : r = outcome.rest
    BY <1>4 DEF Takes
  <2>2. FlattenSeq(r) \in Bytes
    BY FlattenType DEF Bytes
  <2> QED BY <1>3, <1>4, <2>1, <2>2 DEF Takes, Bytes
<1>6. DataTypes'
  <2>1. outcome.rest \in Seq(Bytes) /\ outcome.data \in Bytes
    BY <1>4 DEF Takes, Bytes
  <2> QED BY <1>1, <1>2, <2>1 DEF DataInv, DataTypes
<1>7. /\ buf'[e] = x /\ incoming'[e] = outcome.rest
      /\ pump'[e] # "send" => buf'[e] = <<>>
  BY <1>1, <1>5 DEF DataInv, DataTypes, BridgeInv
<1>8. Ahead(e) = a \o w /\ Ahead(e)' = a \o (x \o y) /\ x \o y \in Bytes
  <2>1. buf[e] = <<>>
    BY <1>2 DEF DataInv, EndInv
  <2>2. Ahead(e) = (a \o <<>>) \o w /\ Ahead(e)' = (a \o x) \o y
    BY <1>1, <1>2, <1>5, <2>1 DEF Ahead, DataInv, DataTypes
  <2>3. (a \o <<>>) \o w = a \o w
    BY JoinEmpty
  <2>4. (a \o x) \o y = a \o (x \o y) /\ x \o y \in Bytes
    BY JoinAssociative
  <2> QED BY <2>2, <2>3, <2>4
<1>9. EndInv(e)'
  <2>1. PICK p \in Bytes : p = Numbers(produced[e])
    BY <1>3, NumbersTyped
  <2>2. IsPart(x \o y, w)
    BY <1>4, <1>5 DEF Takes
  <2>3. IsPart(a \o (x \o y), a \o w)
    BY <1>8, <2>2, BytesPart, JoinedParts
  <2>4. IsPart(a \o w, p)
    BY <1>8, <2>1 DEF DataInv, EndInv
  <2>5. IsPart(a \o (x \o y), p)
    <3>1. a \o (x \o y) \in Bytes /\ a \o w \in Bytes
      BY <1>8, JoinAssociative
    <3> QED BY <2>3, <2>4, <3>1, PartOfPart DEF Bytes
  <2>6. kind[e] \in Streams => x \o y = w
    BY <1>4, <1>5 DEF Takes
  <2>7. Len(x) <= BufSize
    BY <1>4, <1>5 DEF Takes
  <2> QED BY <1>2, <1>7, <1>8, <2>1, <2>5, <2>6, <2>7 DEF DataInv, EndInv
<1>10. ASSUME NEW f \in Ends, f # e PROVE EndInv(f)'
  <2>1. /\ UNCHANGED <<buf[f], produced[f], incoming[f], outgoing[Other(f)], unsent[Other(f)]>>
        /\ pump'[f] = pump[f]
    BY <1>1, <1>2, <1>10 DEF DataInv, DataTypes, BridgeInv
  <2> QED BY <1>2, <2>1, EndUnchanged DEF DataInv
<1> QED BY <1>6, <1>9, <1>10 DEF DataInv

(* send() empties the buffer, and passes on all of it or a part. *)
LEMMA ForwardKeepsData ==
  ASSUME BridgeInv, DataInv, NEW e \in Ends, Forward(e)
  PROVE  DataInv'
<1>1. PICK bytes \in Send(kind[Other(e)], buf[e]) :
        /\ outgoing' = [outgoing EXCEPT ![Other(e)] = @ \o bytes]
        /\ unsent' = [unsent EXCEPT ![Other(e)] = @ \cup (ToSet(buf[e]) \ ToSet(bytes))]
  BY DEF Forward, ToSend
<1>2. /\ kind' = kind /\ isRunning' = isRunning /\ produced' = produced /\ incoming' = incoming
      /\ buf' = [buf EXCEPT ![e] = <<>>] /\ pump' = [pump EXCEPT ![e] = "check"]
  BY DEF Forward
<1>3. /\ outgoing[Other(e)] \in Bytes /\ buf[e] \in Bytes /\ kind[Other(e)] \in Kinds
      /\ FlattenSeq(incoming[e]) \in Bytes /\ produced[e] \in 0..MaxBytes
  BY AheadTyped DEF DataInv
<1>4. bytes \in Bytes /\ IsPart(bytes, buf[e])
  BY <1>3, SendGives DEF Bytes
<1>5. PICK a \in Bytes, b \in Bytes, w \in Bytes, x \in Bytes :
        /\ a = outgoing[Other(e)] /\ b = buf[e] /\ w = FlattenSeq(incoming[e]) /\ x = bytes
  BY <1>3, <1>4
<1>6. Other(e) \in Ends /\ outgoing[Other(e)] \o bytes \in Bytes /\ <<>> \in Bytes
  <2>1. a \o x \in Bytes
    BY JoinAssociative
  <2>2. <<>> \in Bytes
    BY DEF Bytes
  <2> QED BY <1>5, <2>1, <2>2, OtherEnd
<1>7. DataTypes'
  <2>1. unsent[Other(e)] \cup (ToSet(buf[e]) \ ToSet(bytes)) \subseteq 1..MaxBytes
    <3>1. ToSet(b) \subseteq 1..MaxBytes
      BY BytesSet
    <3> QED BY <1>5, <1>6, <3>1 DEF DataInv, DataTypes
  <2> QED BY <1>1, <1>2, <1>6, <2>1 DEF DataInv, DataTypes
<1>8. Ahead(e) = (a \o b) \o w /\ Ahead(e)' = (a \o x) \o w
  <2>1. Ahead(e)' = ((a \o x) \o <<>>) \o w
    BY <1>1, <1>2, <1>5, <1>6 DEF Ahead, DataInv, DataTypes
  <2>2. a \o x \in Bytes
    BY JoinAssociative
  <2>3. ((a \o x) \o <<>>) \o w = (a \o x) \o w
    BY <2>2, JoinEmpty
  <2> QED BY <1>5, <2>1, <2>3 DEF Ahead
<1>9. EndInv(e)'
  <2>1. PICK p \in Bytes : p = Numbers(produced[e])
    BY <1>3, NumbersTyped
  <2>2. a \o x \in Bytes /\ a \o b \in Bytes
    BY JoinAssociative
  <2>3. (a \o x) \o w \in Bytes /\ (a \o b) \o w \in Bytes
    BY <2>2, JoinAssociative
  <2>4. IsPart(a \o x, a \o b)
    BY <1>4, <1>5, BytesPart, JoinedParts
  <2>5. IsPart((a \o x) \o w, (a \o b) \o w)
    BY <2>2, <2>4, BytesPart, JoinedParts
  <2>6. IsPart((a \o b) \o w, p)
    BY <1>8, <2>1 DEF DataInv, EndInv
  <2>7. IsPart((a \o x) \o w, p)
    BY <2>3, <2>5, <2>6, PartOfPart DEF Bytes
  <2>8. unsent'[Other(e)] = unsent[Other(e)] \cup (ToSet(b) \ ToSet(x))
    BY <1>1, <1>5, <1>6 DEF DataInv, DataTypes
  <2>9. buf'[e] = <<>> /\ Len(<<>>) = 0 /\ BufSize \in Nat
    BY <1>2, BridgeAssumption DEF DataInv, DataTypes
  <2>10. IsPart(Ahead(e), Numbers(produced[e]))'
    BY <1>2, <1>8, <2>1, <2>7
  <2>11. /\ ToSet((a \o b) \o w) = (ToSet(a) \cup ToSet(b)) \cup ToSet(w)
         /\ ToSet((a \o x) \o w) = (ToSet(a) \cup ToSet(x)) \cup ToSet(w)
         /\ ToSet(x) \subseteq ToSet(b)
    BY <1>4, <1>5, <2>2, JoinedSet, PartSet
  <2>12. (ToSet(a) \cup ToSet(w)) \cap ToSet(b) = {}
    <3>1. b \o w \in Bytes /\ (a \o b) \o w = a \o (b \o w)
      <4>1. b \o w \in Bytes
        BY JoinAssociative
      <4> QED BY <4>1, JoinsAssociative
    <3>2. ToSet(a) \cap ToSet(b \o w) = {} /\ ToSet(a \o b) \cap ToSet(w) = {}
      BY <1>3, <2>1, <2>2, <2>6, <3>1, PlacesApart
    <3>3. ToSet(b \o w) = ToSet(b) \cup ToSet(w) /\ ToSet(a \o b) = ToSet(a) \cup ToSet(b)
      BY JoinedSet
    <3> QED BY <3>2, <3>3
  <2>13. ToSet((a \o b) \o w) \subseteq 1..produced[e]
    BY <1>3, <2>1, <2>3, <2>6, NumbersSet, PartSet
  <2>14. unsent'[Other(e)] \subseteq 1..produced'[e]
    BY <1>2, <2>8, <2>11, <2>13 DEF DataInv, EndInv
  <2>15. (kind[e] \in Streams => ToSet(Ahead(e)) = (1..produced[e]) \ unsent[Other(e)])'
    <3>1. CASE kind[e] \in Streams
      <4>1. (ToSet(a) \cup ToSet(b)) \cup ToSet(w) = (1..produced[e]) \ unsent[Other(e)]
        BY <1>8, <2>11, <3>1 DEF DataInv, EndInv
      <4>2. (ToSet(a) \cup ToSet(x)) \cup ToSet(w)
              = (1..produced[e]) \ (unsent[Other(e)] \cup (ToSet(b) \ ToSet(x)))
        BY <2>11, <2>12, <4>1
      <4> QED BY <1>2, <1>8, <2>8, <2>11, <4>2
    <3> QED BY <1>2, <3>1
  <2> QED BY <2>9, <2>10, <2>14, <2>15 DEF EndInv
<1>10. ASSUME NEW f \in Ends, f # e PROVE EndInv(f)'
  <2>1. Other(f) # Other(e) /\ Other(f) \in Ends
    BY <1>10, OtherEnd
  <2>2. /\ UNCHANGED <<buf[f], produced[f], incoming[f], outgoing[Other(f)], unsent[Other(f)]>>
        /\ pump'[f] = pump[f]
    BY <1>1, <1>2, <1>10, <2>1 DEF DataInv, DataTypes, BridgeInv
  <2> QED BY <1>2, <2>2, EndUnchanged DEF DataInv
<1> QED BY <1>7, <1>9, <1>10 DEF DataInv

(* A device sends the bytes that come next, as a packet that waits. *)
LEMMA DeviceKeepsData ==
  ASSUME BridgeInv, DataInv, NEW e \in Ends, Device(e)
  PROVE  DataInv'
<1>1. PICK n \in 1..MaxPacket :
        /\ produced[e] + n <= MaxBytes
        /\ produced' = [produced EXCEPT ![e] = @ + n]
        /\ incoming' = [incoming EXCEPT ![e] = Append(@, [k \in 1..n |-> produced[e] + k])]
  BY DEF Device
<1>2. /\ kind' = kind /\ isRunning' = isRunning /\ buf' = buf /\ outgoing' = outgoing
      /\ unsent' = unsent /\ pump' = pump
  BY DEF Device
<1>3. /\ outgoing[Other(e)] \in Bytes /\ buf[e] \in Bytes /\ incoming[e] \in Seq(Bytes)
      /\ FlattenSeq(incoming[e]) \in Bytes /\ produced[e] \in 0..MaxBytes
  BY AheadTyped DEF DataInv
<1>4. PICK p \in 0..MaxBytes : p = produced[e]
  BY <1>3
<1>5. /\ n \in Nat /\ p + n <= MaxBytes /\ p + n \in 0..MaxBytes
  BY <1>1, <1>4, BridgeAssumption
<1>6. /\ [k \in 1..n |-> p + k] \in Bytes
      /\ Numbers(p) \o [k \in 1..n |-> p + k] = Numbers(p + n)
  BY <1>5, NumbersGrow
<1>7. PICK new \in Bytes : new = [k \in 1..n |-> p + k]
  BY <1>6
<1>8. produced'[e] = p + n /\ incoming'[e] = Append(incoming[e], new)
  BY <1>1, <1>4, <1>7 DEF DataInv, DataTypes
<1>9. DataTypes'
  <2>1. Append(incoming[e], new) \in Seq(Bytes)
    BY <1>3, AppendProperties
  <2> QED BY <1>1, <1>2, <1>4, <1>5, <1>7, <2>1 DEF DataInv, DataTypes
<1>10. PICK h \in Bytes, w \in Bytes, q \in Bytes :
        /\ h = outgoing[Other(e)] \o buf[e] /\ w = FlattenSeq(incoming[e]) /\ q = Numbers(p)
  <2>1. \A a, b \in Bytes : a \o b \in Bytes
    BY ConcatProperties DEF Bytes
  <2> QED BY <1>3, <2>1, NumbersTyped
<1>11. Ahead(e) = h \o w /\ Ahead(e)' = (h \o w) \o new
  <2>1. FlattenSeq(Append(incoming[e], new)) = w \o new
    <3>1. PICK packets \in Seq(Seq(1..MaxBytes)) : packets = incoming[e]
      BY <1>3 DEF Bytes
    <3>2. FlattenSeq(Append(packets, new)) = FlattenSeq(packets) \o new
      BY FlattenAppend DEF Bytes
    <3> QED BY <1>10, <3>1, <3>2
  <2>3. h \o (w \o new) = (h \o w) \o new
    BY JoinsAssociative
  <2> QED BY <1>2, <1>8, <1>10, <2>1, <2>3 DEF Ahead
<1>12. EndInv(e)'
  <2>1. Numbers(produced[e])' = q \o new
    BY <1>6, <1>7, <1>8, <1>10 DEF Numbers
  <2>2. IsPart(h \o w, q)
    BY <1>4, <1>10, <1>11 DEF DataInv, EndInv
  <2>3. h \o w \in Bytes
    BY JoinAssociative
  <2>4. IsPart((h \o w) \o new, q \o new)
    BY <2>2, <2>3, BytesPart, JoinedParts
  <2>5. ToSet((h \o w) \o new) = ToSet(h \o w) \cup ((p + 1)..(p + n))
    <3>1. ToSet(new) = (p + 1)..(p + n)
      <4>1. DOMAIN new = 1..n /\ \A k \in 1..n : new[k] = p + k
        BY <1>7
      <4>2. \A x \in (p + 1)..(p + n) : x - p \in 1..n /\ x = p + (x - p)
        BY <1>5
      <4>3. \A k \in 1..n : p + k \in (p + 1)..(p + n)
        BY <1>5
      <4> QED BY <4>1, <4>2, <4>3 DEF ToSet
    <3> QED BY <2>3, <3>1, JoinedSet
  <2>6. unsent[Other(e)] \subseteq 1..p
    BY <1>4 DEF DataInv, EndInv
  <2>7. 1..(p + n) = (1..p) \cup ((p + 1)..(p + n)) /\ (1..p) \cap ((p + 1)..(p + n)) = {}
    BY <1>5
  <2>8. (unsent[Other(e)] \subseteq 1..produced[e])'
    BY <1>2, <1>8, <2>6, <2>7
  <2>9. (kind[e] \in Streams => ToSet(Ahead(e)) = (1..produced[e]) \ unsent[Other(e)])'
    <3>1. CASE kind[e] \in Streams
      <4>1. ToSet(h \o w) = (1..p) \ unsent[Other(e)]
        BY <1>4, <1>11, <3>1 DEF DataInv, EndInv
      <4>2. ToSet((h \o w) \o new) = (1..(p + n)) \ unsent[Other(e)]
        BY <2>5, <2>6, <2>7, <4>1
      <4> QED BY <1>2, <1>8, <1>11, <4>2
    <3> QED BY <1>2, <3>1
  <2> QED BY <1>2, <1>11, <2>1, <2>4, <2>8, <2>9 DEF DataInv, EndInv
<1>13. ASSUME NEW f \in Ends, f # e PROVE EndInv(f)'
  <2>1. /\ UNCHANGED <<buf[f], produced[f], incoming[f], outgoing[Other(f)], unsent[Other(f)]>>
        /\ pump'[f] = pump[f]
    BY <1>1, <1>2, <1>13 DEF DataInv, DataTypes
  <2> QED BY <1>2, <2>1, EndUnchanged DEF DataInv
<1> QED BY <1>9, <1>12, <1>13 DEF DataInv

(* main(), the signal handler and the checks of isRunning move no byte. *)
LEMMA OthersKeepData ==
  ASSUME BridgeInv, DataInv, kind' = kind, isRunning' \in BOOLEAN, UNCHANGED <<buf, devices>>,
         \A e \in Ends : pump'[e] # "send" => pump[e] # "send"
  PROVE  DataInv'
<1>1. DataTypes'
  BY DEF DataInv, DataTypes, devices
<1>2. ASSUME NEW e \in Ends PROVE EndInv(e)'
  <2>1. UNCHANGED <<buf[e], produced[e], incoming[e], outgoing[Other(e)], unsent[Other(e)]>>
    BY DEF devices
  <2> QED BY <2>1, EndUnchanged DEF DataInv
<1> QED BY <1>1, <1>2 DEF DataInv

(* A step of main(), of a thread, of the signal handler or of a device. *)
LEMMA DataStep ==
  ASSUME BridgeInv, DataInv, [Next]_vars
  PROVE  DataInv'
<1>1. isRunning \in BOOLEAN
  BY DEF DataInv, DataTypes
<1>2. CASE BadArguments \/ GoodArguments \/ InitFails \/ SetHandler \/ JoinThreads
  BY <1>1, <1>2, OthersKeepData
     DEF BadArguments, GoodArguments, InitFails, SetHandler, JoinThreads
<1>3. ASSUME NEW e \in Ends, InitEnd(e) \/ DeinitEnd(e) PROVE DataInv'
  BY <1>1, <1>3, OthersKeepData DEF InitEnd, DeinitEnd
<1>4. CASE StartThreads
  <2>1. main # "join"
    BY <1>4 DEF StartThreads, MainGoes
  <2>2. \A e \in Ends : pump[e] # "send"
    BY <2>1 DEF BridgeInv
  <2> QED BY <1>4, <2>2, OthersKeepData DEF StartThreads
<1>5. CASE HandleSignal
  BY <1>5, OthersKeepData DEF HandleSignal
<1>6. ASSUME NEW e \in Ends, Check(e) PROVE DataInv'
  <2>1. \A f \in Ends : pump'[f] # "send" => pump[f] # "send"
    BY <1>6 DEF Check, BridgeInv
  <2> QED BY <1>1, <1>6, <2>1, OthersKeepData DEF Check
<1>7. ASSUME NEW e \in Ends, ReceiveFails(e) PROVE DataInv'
  <2>1. \A f \in Ends : pump'[f] # "send" => pump[f] # "send"
    BY <1>7 DEF ReceiveFails, BridgeInv
  <2> QED BY <1>1, <1>7, <2>1, OthersKeepData DEF ReceiveFails
<1>8. CASE UNCHANGED vars
  BY <1>1, <1>8, OthersKeepData DEF vars
<1>9. ASSUME NEW e \in Ends, Receive(e) \/ Forward(e) \/ Device(e) PROVE DataInv'
  BY <1>9, ReceiveKeepsData, ForwardKeepsData, DeviceKeepsData
<1> QED BY <1>2, <1>3, <1>4, <1>5, <1>6, <1>7, <1>8, <1>9 DEF Next, Main, Pump

(* Before the program starts no byte is on its way. *)
LEMMA InitData == Init => DataInv
<1> SUFFICES ASSUME Init PROVE DataInv
  OBVIOUS
<1>1. MaxBytes \in Nat /\ BufSize \in Nat
  BY BridgeAssumption
<1>2. <<>> \in Bytes /\ <<>> \in Seq(Bytes) /\ 0 \in 0..MaxBytes /\ Len(<<>>) = 0
  BY <1>1 DEF Bytes
<1>3. DataTypes
  BY <1>2 DEF Init, DataTypes
<1>4. ASSUME NEW e \in Ends PROVE EndInv(e)
  <2>1. /\ buf[e] = <<>> /\ incoming[e] = <<>> /\ produced[e] = 0
        /\ outgoing[Other(e)] = <<>> /\ unsent[Other(e)] = {}
    BY OtherEnd DEF Init
  <2>2. (<<>> \o <<>>) \o <<>> = <<>>
    BY <1>2, ConcatEmptySeq
  <2>3. Ahead(e) = <<>>
    BY <2>1, <2>2, FlattenEmpty DEF Ahead
  <2>4. Numbers(0) = <<>>
    <3>1. Numbers(0) \in Bytes /\ Len(Numbers(0)) = 0
      BY <1>2, NumbersTyped
    <3> QED BY <3>1, EmptySeq DEF Bytes
  <2>5. ToSet(<<>>) = {} /\ 1..0 = {}
    BY DEF ToSet
  <2> QED BY <1>1, <1>2, <2>1, <2>3, <2>4, <2>5, EmptyPart DEF EndInv
<1> QED BY <1>3, <1>4 DEF DataInv

(* The two invariants together. *)
LEMMA BridgeDataInvariant == Spec => [](BridgeInv /\ DataInv)
<1>1. BridgeInv /\ DataInv /\ [Next]_vars => BridgeInv' /\ DataInv'
  BY BridgeStep, DataStep
<1> QED BY <1>1, InitBridge, InitData, PTL DEF Spec

(* The type invariant, and with it that what recv() returns fits the       *)
(* buffer of spin(), however long the datagrams and messages are.          *)
THEOREM BridgeTypeCorrect == Spec => []TypeOK
<1>1. ASSUME BridgeInv, DataInv PROVE TypeOK
  <2>1. \A e \in Ends : /\ FlattenSeq(incoming[e]) \in Bytes /\ outgoing[e] \in Bytes
                        /\ buf[e] \in Bytes /\ produced[e] \in 0..MaxBytes
                        /\ Len(buf[e]) <= BufSize /\ unsent[e] \subseteq 1..MaxBytes
    BY <1>1, AheadTyped DEF DataInv, DataTypes, EndInv
  <2> QED BY <1>1, <2>1 DEF TypeOK, BridgeInv, DataInv, DataTypes
<1> QED BY <1>1, BridgeDataInvariant, PTL

(* A part of what a device has sent is in the order it was sent in. *)
LEMMA PartIncreases ==
  ASSUME NEW s \in Bytes, NEW n \in 0..MaxBytes, IsPart(s, Numbers(n))
  PROVE  \A i \in 1..(Len(s) - 1) : s[i] < s[i + 1]
<1>1. PICK g : IsEmbedding(g, s, Numbers(n))
  BY DEF IsPart
<1>2. Len(Numbers(n)) = n /\ n \in Nat /\ Len(s) \in Nat
  BY NumbersTyped, BridgeAssumption DEF Bytes
<1>3. \A i \in 1..Len(s) : g[i] \in 1..n /\ s[i] = g[i]
  BY <1>1, <1>2 DEF IsEmbedding, Numbers
<1>4. \A i, j \in 1..Len(s) : i < j => g[i] < g[j]
  BY <1>1 DEF IsEmbedding
<1>5. ASSUME NEW i \in 1..(Len(s) - 1) PROVE s[i] < s[i + 1]
  <2>1. i \in 1..Len(s) /\ i + 1 \in 1..Len(s) /\ i < i + 1
    BY <1>2
  <2> QED BY <1>3, <1>4, <2>1
<1> QED BY <1>5

(* Whatever transceivers the bridge joins, and however bytes are cut into  *)
(* packets, lost, and received, a device gets what the other one sent in   *)
(* that order, and no byte twice.                                          *)
THEOREM OrderCorrect == Spec => []ForwardedInOrder
<1>1. ASSUME DataInv PROVE ForwardedInOrder
  <2>1. ASSUME NEW e \in Ends
        PROVE  \A i \in 1..(Len(Ahead(e)) - 1) : Ahead(e)[i] < Ahead(e)[i + 1]
    <3>1. Ahead(e) \in Bytes /\ produced[e] \in 0..MaxBytes
      BY <1>1, AheadTyped DEF DataInv
    <3>2. IsPart(Ahead(e), Numbers(produced[e]))
      BY <1>1 DEF DataInv, EndInv
    <3> QED BY <3>1, <3>2, PartIncreases
  <2> QED BY <2>1 DEF ForwardedInOrder, Ahead
<1> QED BY <1>1, BridgeDataInvariant, PTL

(* From a stream the bridge loses no byte but those that a send() was      *)
(* given and did not send, whatever the reads return, whether writes are   *)
(* short or fail, and whenever it is interrupted.                          *)
THEOREM LossesCorrect == Spec => []LostOnlyUnsent
<1>1. DataInv => LostOnlyUnsent
  BY DEF DataInv, EndInv, LostOnlyUnsent, Ahead
<1> QED BY <1>1, BridgeDataInvariant, PTL
=============================================================================
