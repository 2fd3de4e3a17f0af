----------------------------- MODULE UtilProofs -----------------------------
(***************************************************************************)
(* The searches, the deletion of a field, the making of frames and the     *)
(* setting and getting of fields in util.cpp return what the other modules *)
(* take them for, for every input, and a value that is set, sent and read  *)
(* by the other end is the value that was set.                             *)
(***************************************************************************)
EXTENDS UtilProperties, SequenceLemmas

(* No place below k has the needle. *)
NoneBefore(k) ==
  \A place \in 0..(k - 1) : ~MatchesAt(call.haystack, call.needle, place)

(* The places below k that countInString() has counted. *)
Counted(k) == {place \in 1..k : call.string[place] = call.char}

(* What the loops keep: what they looked at is what they know of. *)
MemstrInv ==
  call.fn = "memstr" =>
    /\ fn \in {"memstr", "done"}
    /\ fn = "memstr" => src = call.haystack /\ i \in Nat /\ NoneBefore(i)
    /\ fn = "done" => val = memstr(call.haystack, call.numHaystack, call.needle)

CountInv ==
  call.fn = "count" =>
    /\ fn \in {"count", "done"}
    /\ fn = "count" => i \in 0..Len(call.string) /\ n = Cardinality(Counted(i))
    /\ fn = "done" => val = Cardinality(Positions(call.string, call.char))

SearchInv == call \in Calls /\ MemstrInv /\ CountInv

-----------------------------------------------------------------------------
(* Facts about the searches *)

(* A place that matches and has no match before it is the one memstr       *)
(* chooses.                                                                *)
LEMMA FirstMatchIsMemstr ==
  ASSUME call.numHaystack \in Nat, call.needle \in Seq(Byte),
         i \in Nat, i <= LastStart, NoneBefore(i),
         MatchesAt(call.haystack, call.needle, i)
  PROVE  i = memstr(call.haystack, call.numHaystack, call.needle)
<1> DEFINE hits == {place \in 0..(call.numHaystack - Len(call.needle)) :
                      MatchesAt(call.haystack, call.needle, place)}
<1>1. Len(call.needle) \in Nat
  OBVIOUS
<1>2. i \in hits
  BY <1>1 DEF LastStart
<1>3. \A place \in hits : i <= place
  <2> SUFFICES ASSUME NEW place \in hits, ~(i <= place)
               PROVE  FALSE
    OBVIOUS
  <2>1. place \in 0..(i - 1)
    BY <1>1
  <2> QED BY <2>1 DEF NoneBefore
<1>4. \A place \in hits : (\A other \in hits : place <= other) => place = i
  <2> SUFFICES ASSUME NEW place \in hits, \A other \in hits : place <= other
               PROVE  place = i
    OBVIOUS
  <2>1. place <= i /\ i <= place /\ place \in Int
    BY <1>1, <1>2, <1>3
  <2> QED BY <2>1
<1>5. memstr(call.haystack, call.numHaystack, call.needle)
        = CHOOSE place \in hits : \A other \in hits : place <= other
  BY <1>2 DEF memstr
<1> HIDE DEF hits
<1> QED BY <1>2, <1>3, <1>4, <1>5

(* Past the last start without a match, memstr finds nothing. *)
LEMMA NoMatchIsMemstr ==
  ASSUME call.numHaystack \in Nat, call.needle \in Seq(Byte),
         i \in Nat, i > LastStart, NoneBefore(i)
  PROVE  NotFound = memstr(call.haystack, call.numHaystack, call.needle)
<1>1. Len(call.needle) \in Nat
  OBVIOUS
<1>2. \A place \in 0..(call.numHaystack - Len(call.needle)) :
        ~MatchesAt(call.haystack, call.needle, place)
  <2> SUFFICES ASSUME NEW place \in 0..(call.numHaystack - Len(call.needle))
               PROVE  ~MatchesAt(call.haystack, call.needle, place)
    OBVIOUS
  <2>1. place \in 0..(i - 1)
    BY <1>1 DEF LastStart
  <2> QED BY <2>1 DEF NoneBefore
<1> QED BY <1>2 DEF memstr

(* A step of the count counts the place it looks at. *)
LEMMA CountedNext ==
  ASSUME call.string \in Seq(Byte), i \in Nat, i < Len(call.string)
  PROVE  Cardinality(Counted(i + 1))
           = IF call.string[i + 1] = call.char THEN Cardinality(Counted(i)) + 1
             ELSE Cardinality(Counted(i))
<1>1. IsFiniteSet(Counted(i))
  <2>1. IsFiniteSet(1..i)
    BY FS_Interval
  <2>2. Counted(i) \in SUBSET (1..i)
    BY DEF Counted
  <2> QED BY <2>1, <2>2, FS_Subset
<1>2. CASE call.string[i + 1] = call.char
  <2>1. Counted(i + 1) = Counted(i) \cup {i + 1}
    BY <1>2 DEF Counted
  <2>2. i + 1 \notin Counted(i)
    BY DEF Counted
  <2> QED BY <1>1, <1>2, <2>1, <2>2, FS_AddElement
<1>3. CASE call.string[i + 1] # call.char
  <2>1. Counted(i + 1) = Counted(i)
    BY <1>3 DEF Counted
  <2> QED BY <1>3, <2>1
<1> QED BY <1>2, <1>3

-----------------------------------------------------------------------------
(* The invariant *)

(* A call starts at the first place, having counted nothing. *)
LEMMA SearchInit == Init => SearchInv
<1> SUFFICES ASSUME Init PROVE SearchInv
  OBVIOUS
<1>1. call \in Calls /\ fn = call.fn
  BY DEF Init
<1>2. MemstrInv
  <2> SUFFICES ASSUME call.fn = "memstr" PROVE fn = "memstr" /\ src = call.haystack /\ i = 0
    BY DEF MemstrInv, NoneBefore
  <2> QED BY <1>1 DEF Init
<1>3. CountInv
  <2> SUFFICES ASSUME call.fn = "count"
               PROVE  /\ fn = "count"
                      /\ i \in 0..Len(call.string) /\ n = Cardinality(Counted(i))
    BY DEF CountInv
  <2>1. fn = "count" /\ i = 0 /\ n = 0
    BY <1>1 DEF Init
  <2>2. call.string \in Seq(Byte)
    BY <1>1, UtilAssumption
  <2>3. Len(call.string) \in Nat
    BY <2>2
  <2>4. Counted(0) = {}
    BY DEF Counted
  <2> QED BY <2>1, <2>3, <2>4, FS_EmptySet
<1> QED BY <1>1, <1>2, <1>3 DEF SearchInv

(* A call is not exchanged for another one. *)
LEMMA CallKept == [Next]_vars => call' = call
<1> USE DEF Return, Begin
<1> QED
  BY DEF Next, vars, MemstrStep, CountStep, DeleteStep, AssembleStep, NormalizeStep,
         ToCStringStep, InsertStep, ExtractStep, SwitchStep, FromCStringStep

(* A search runs no other function's loop. *)
LEMMA OnlyItsLoop ==
  ASSUME Next, fn \in {"memstr", "count", "done"}
  PROVE  MemstrStep \/ CountStep
BY DEF Next, DeleteStep, AssembleStep, NormalizeStep, ToCStringStep, InsertStep,
       ExtractStep, SwitchStep, FromCStringStep

(* An iteration of memstr() goes past a place only when the needle is not  *)
(* there.                                                                  *)
LEMMA MemstrKept ==
  ASSUME SearchInv, [Next]_vars
  PROVE  MemstrInv'
<1> SUFFICES ASSUME call.fn = "memstr" PROVE MemstrInv'
  BY CallKept DEF MemstrInv
<1>1. call' = call /\ call.numHaystack \in Nat /\ call.needle \in Seq(Byte)
  BY CallKept, UtilAssumption DEF SearchInv
<1>2. fn \in {"memstr", "done"}
  BY DEF SearchInv, MemstrInv
<1>3. CASE UNCHANGED vars
  <2>1. call' = call /\ fn' = fn /\ src' = src /\ i' = i /\ val' = val
    BY <1>3 DEF vars
  <2> QED BY <2>1 DEF SearchInv, MemstrInv, NoneBefore
<1>4. CASE Next
  <2>1. MemstrStep
    BY <1>2, <1>4, OnlyItsLoop DEF CountStep
  <2>2. fn = "memstr" /\ src = call.haystack /\ i \in Nat /\ NoneBefore(i)
    BY <2>1 DEF MemstrStep, SearchInv, MemstrInv
  <2>3. CASE i > LastStart /\ Return(NotFound)
    <3>1. NotFound = memstr(call.haystack, call.numHaystack, call.needle)
      BY <1>1, <2>2, <2>3, NoMatchIsMemstr
    <3>2. fn' = "done" /\ val' = NotFound
      BY <2>3 DEF Return
    <3> QED BY <1>1, <3>1, <3>2 DEF MemstrInv
  <2>4. CASE i <= LastStart /\ MatchesAt(src, call.needle, i) /\ Return(i)
    <3>1. i = memstr(call.haystack, call.numHaystack, call.needle)
      BY <1>1, <2>2, <2>4, FirstMatchIsMemstr
    <3>2. fn' = "done" /\ val' = i
      BY <2>4 DEF Return
    <3> QED BY <1>1, <3>1, <3>2 DEF MemstrInv
  <2>5. CASE /\ i <= LastStart /\ ~MatchesAt(src, call.needle, i)
             /\ i' = i + 1 /\ UNCHANGED <<call, fn, n, src, mem, val>>
    <3>1. \A place \in 0..(i + 1 - 1) :
            ~MatchesAt(call.haystack, call.needle, place)
      <4> SUFFICES ASSUME NEW place \in 0..(i + 1 - 1)
                   PROVE  ~MatchesAt(call.haystack, call.needle, place)
        OBVIOUS
      <4>1. place = i \/ place \in 0..(i - 1)
        BY <2>2
      <4> QED BY <2>2, <2>5, <4>1 DEF NoneBefore
    <3>2. fn' = "memstr" /\ src' = src /\ i' = i + 1
      BY <2>2, <2>5
    <3> QED BY <1>1, <2>2, <3>1, <3>2 DEF MemstrInv, NoneBefore
  <2> QED BY <2>1, <2>3, <2>4, <2>5 DEF MemstrStep
<1> QED BY <1>3, <1>4

(* An iteration of countInString() counts the place it goes past. *)
LEMMA CountKept ==
  ASSUME SearchInv, [Next]_vars
  PROVE  CountInv'
<1> SUFFICES ASSUME call.fn = "count" PROVE CountInv'
  BY CallKept DEF CountInv
<1>1. call' = call /\ call.string \in Seq(Byte)
  BY CallKept, UtilAssumption DEF SearchInv
<1>2. fn \in {"count", "done"}
  BY DEF SearchInv, CountInv
<1>3. CASE UNCHANGED vars
  <2>1. call' = call /\ fn' = fn /\ i' = i /\ n' = n /\ val' = val
    BY <1>3 DEF vars
  <2> QED BY <2>1 DEF SearchInv, CountInv, Counted
<1>4. CASE Next
  <2>1. CountStep
    BY <1>2, <1>4, OnlyItsLoop DEF MemstrStep
  <2>2. fn = "count" /\ i \in 0..Len(call.string) /\ n = Cardinality(Counted(i))
    BY <2>1 DEF CountStep, SearchInv, CountInv
  <2>3. Len(call.string) \in Nat
    BY <1>1
  <2>4. CASE i = Len(call.string) /\ Return(n)
    <3>1. Counted(i) = Positions(call.string, call.char)
      BY <2>4 DEF Counted, Positions
    <3>2. fn' = "done" /\ val' = n
      BY <2>4 DEF Return
    <3> QED BY <1>1, <2>2, <3>1, <3>2 DEF CountInv
  <2>5. CASE /\ i < Len(call.string)
             /\ i' = i + 1
             /\ n' = IF call.string[i + 1] = call.char THEN n + 1 ELSE n
             /\ UNCHANGED <<call, fn, src, mem, val>>
    <3>1. n' = Cardinality(Counted(i + 1))
      BY <1>1, <2>2, <2>3, <2>5, CountedNext
    <3>2. fn' = "count" /\ i' = i + 1 /\ i + 1 \in 0..Len(call.string)
      BY <2>2, <2>3, <2>5
    <3>3. Counted(i)' = Counted(i + 1)
      BY <1>1, <3>2 DEF Counted
    <3> QED BY <1>1, <3>1, <3>2, <3>3 DEF CountInv
  <2> QED BY <2>1, <2>4, <2>5 DEF CountStep
<1> QED BY <1>3, <1>4

(* Whatever function runs, the searches keep what they know. *)
LEMMA SearchStep ==
  ASSUME SearchInv, [Next]_vars
  PROVE  SearchInv'
BY CallKept, MemstrKept, CountKept DEF SearchInv

-----------------------------------------------------------------------------
(* Deletion of a field *)

(* The places of the other fields among the first j of the frame. *)
Kept(j) == PlacesUpTo(call.frame, FieldsOf(call.frame) \ {call.field})[j]

(* The bytes of the first j places are deleted or moved to where they stay *)
(* and what is behind these places has moved up.                           *)
DeletedTo(j) ==
  /\ n \in Nat /\ n + j = call.len + Len(Kept(j))
  /\ \A k \in 1..Len(Kept(j)) : mem[k - 1] = call.buffer[Kept(j)[k] - 1]
  /\ \A k \in Len(Kept(j))..(n - 1) : mem[k] = call.buffer[k + call.len - n]

DeleteInv ==
  call.fn = "delete" =>
    /\ fn \in {"delete", "done", "threw"}
    /\ fn = "delete" =>
         /\ i \in 0..Len(call.frame) /\ DOMAIN mem = 0..call.len
         /\ call.len >= Len(call.frame) => DeletedTo(i)
    /\ fn = "done" => DeletesOnlyTheField

IsDeletion ==
  /\ call.fn = "delete"
  /\ call.frame \in Seq(Nat) /\ call.len \in Nat /\ DOMAIN call.buffer = 0..call.len

(* The calls of deleteFieldAndShiftBuffer() have a frame and a buffer. *)
LEMMA DeletionTyped ==
  ASSUME call \in Calls, call.fn = "delete"
  PROVE  IsDeletion
BY UtilAssumption DEF IsDeletion

(* A place of another field is kept, behind those before it. *)
LEMMA KeptSteps ==
  ASSUME IsDeletion, NEW j \in 0..Len(call.frame)
  PROVE  /\ Len(Kept(j)) \in 0..j /\ Kept(j) \in Seq(1..Len(call.frame))
         /\ j = 0 => Kept(j) = <<>>
         /\ j > 0 => Kept(j) = IF call.frame[j] = call.field THEN Kept(j - 1)
                               ELSE Append(Kept(j - 1), j)
<1> DEFINE others == FieldsOf(call.frame) \ {call.field}
<1>1. Len(call.frame) \in Nat
  BY DEF IsDeletion
<1>2. IsPlaces(Kept(j), call.frame, others, j)
  BY <1>1, PlacesUpToIs DEF Kept
<1>3. Len(Kept(j)) \in 0..j
  <2>1. IsFiniteSet(1..j) /\ Cardinality(1..j) = j
    BY FS_Interval
  <2>2. PlacesWithin(call.frame, others, j) \in SUBSET (1..j)
    BY DEF PlacesWithin
  <2>3. /\ Cardinality(PlacesWithin(call.frame, others, j)) <= j
        /\ Cardinality(PlacesWithin(call.frame, others, j)) \in Nat
    BY <2>1, <2>2, FS_Subset, FS_CardinalityType
  <2> QED BY <1>2, <2>3 DEF IsPlaces
<1>4. Kept(j) \in Seq(1..Len(call.frame))
  <2>1. PICK s : s = Kept(j)
    OBVIOUS
  <2>2. s \in Seq(1..j) /\ 1..j \subseteq 1..Len(call.frame)
    BY <1>1, <1>2, <2>1 DEF IsPlaces
  <2> QED BY <2>1, <2>2
<1>5. j = 0 => Kept(j) = <<>>
  BY <1>1, PlacesSteps DEF Kept
<1>6. ASSUME j > 0
      PROVE  Kept(j) = IF call.frame[j] = call.field THEN Kept(j - 1)
                       ELSE Append(Kept(j - 1), j)
  <2>1. j \in 1..Len(call.frame)
    BY <1>1, <1>6
  <2>2. call.frame[j] \in others <=> call.frame[j] # call.field
    BY <2>1 DEF FieldsOf
  <2>3. Kept(j) = IF call.frame[j] \in others THEN Append(Kept(j - 1), j) ELSE Kept(j - 1)
    BY <1>1, <2>1, PlacesSteps DEF Kept
  <2> QED BY <2>2, <2>3
<1> QED BY <1>3, <1>4, <1>5, <1>6

(* A place of another field has its byte already. *)
LEMMA DeletionPasses ==
  ASSUME IsDeletion, call.len >= Len(call.frame), NEW j \in 0..(Len(call.frame) - 1),
         DeletedTo(j), call.frame[j + 1] # call.field
  PROVE  DeletedTo(j + 1)
<1>1. PICK s, t : s = Kept(j) /\ t = Kept(j + 1)
  OBVIOUS
<1>2. /\ j \in Nat /\ j + 1 \in 0..Len(call.frame) /\ Len(call.frame) \in Nat
      /\ call.len \in Nat /\ j + 1 <= call.len
  BY DEF IsDeletion
<1>3. s \in Seq(1..Len(call.frame)) /\ Len(s) \in 0..j /\ t = Append(s, j + 1)
  <2>1. s \in Seq(1..Len(call.frame)) /\ Len(s) \in 0..j
    BY <1>1, <1>2, KeptSteps
  <2>2. j + 1 > 0 /\ (j + 1) - 1 = j
    BY <1>2
  <2>3. Kept(j + 1) = Append(Kept(j), j + 1)
    BY <1>2, <2>2, KeptSteps
  <2> QED BY <1>1, <2>1, <2>3
<1>4. /\ Len(t) = Len(s) + 1 /\ t[Len(s) + 1] = j + 1
      /\ \A k \in 1..Len(s) : t[k] = s[k]
  <2>1. j + 1 \in 1..Len(call.frame)
    BY <1>2
  <2> QED BY <1>3, <2>1, AppendProperties
<1>5. /\ n \in Nat /\ n + j = call.len + Len(s)
      /\ \A k \in 1..Len(s) : mem[k - 1] = call.buffer[s[k] - 1]
      /\ \A k \in Len(s)..(n - 1) : mem[k] = call.buffer[k + call.len - n]
  BY <1>1 DEF DeletedTo
<1>6. n + (j + 1) = call.len + Len(t)
  <2>1. n \in Nat /\ n + j = call.len + Len(s) /\ Len(t) = Len(s) + 1 /\ Len(s) \in Nat
    BY <1>3, <1>4, <1>5
  <2> QED BY <1>2, <2>1
<1>7. ASSUME NEW k \in 1..Len(t) PROVE mem[k - 1] = call.buffer[t[k] - 1]
  <2>1. CASE k \in 1..Len(s)
    BY <1>4, <1>5, <2>1
  <2>2. CASE k = Len(s) + 1
    <3>1. Len(s) \in Len(s)..(n - 1) /\ Len(s) + call.len - n = j
      <4>1. n \in Nat /\ n + j = call.len + Len(s) /\ Len(s) \in 0..j
        BY <1>3, <1>5
      <4> QED BY <1>2, <4>1
    <3>2. mem[Len(s)] = call.buffer[j]
      BY <1>5, <3>1
    <3>3. k - 1 = Len(s) /\ t[k] - 1 = j
      BY <1>2, <1>3, <1>4, <2>2
    <3> QED BY <3>2, <3>3
  <2> QED BY <1>3, <1>4, <2>1, <2>2
<1>8. \A k \in Len(t)..(n - 1) : mem[k] = call.buffer[k + call.len - n]
  BY <1>3, <1>4, <1>5
<1> QED BY <1>1, <1>5, <1>6, <1>7, <1>8 DEF DeletedTo

(* find() goes past places of other fields only. *)
LEMMA FoundIs ==
  ASSUME call.frame \in Seq(Nat), i \in 0..Len(call.frame)
  PROVE  /\ Found(call.frame, call.field) \in i..Len(call.frame)
         /\ \A p \in (i + 1)..Found(call.frame, call.field) : call.frame[p] # call.field
         /\ Found(call.frame, call.field) < Len(call.frame)
              => call.frame[Found(call.frame, call.field) + 1] = call.field
<1> DEFINE rest == SubSeq(call.frame, i + 1, Len(call.frame))
<1>1. call.frame \in Seq(Nat) /\ Len(call.frame) \in Nat /\ i \in Nat
  OBVIOUS
<1>2. /\ rest \in Seq(Nat) /\ Len(rest) = Len(call.frame) - i
      /\ \A k \in 1..Len(rest) : rest[k] = call.frame[i + k]
  <2>1. i + 1 \in 1..(Len(call.frame) + 1)
    BY <1>1
  <2>2. \A k \in 1..(Len(call.frame) - (i + 1) + 1) : (i + 1) + k - 1 = i + k
    BY <1>1
  <2> QED BY <1>1, <2>1, <2>2, SubSeqProperties
<1>3. Found(call.frame, call.field) = i + findit(rest, call.field)
  BY DEF Found
<1> HIDE DEF rest
<1>4. CASE Positions(rest, call.field) = {}
  <2>1. findit(rest, call.field) = Len(rest)
    BY <1>4 DEF findit
  <2>2. \A k \in 1..Len(rest) : rest[k] # call.field
    BY <1>4 DEF Positions
  <2>3. ASSUME NEW p \in (i + 1)..Len(call.frame) PROVE call.frame[p] # call.field
    <3>1. p - i \in 1..Len(rest) /\ i + (p - i) = p
      BY <1>1, <1>2
    <3> QED BY <1>2, <2>2, <3>1
  <2> QED BY <1>1, <1>2, <1>3, <2>1, <2>3
<1>5. CASE Positions(rest, call.field) # {}
  <2>1. PICK q : q = findit(rest, call.field)
    OBVIOUS
  <2>2. q \in 0..(Len(rest) - 1) /\ rest[q + 1] = call.field
        /\ \A k \in 1..q : rest[k] # call.field
    BY <1>2, <1>5, <2>1, FinditFirst
  <2>3. call.frame[i + q + 1] = call.field
    <3>1. q + 1 \in 1..Len(rest) /\ i + (q + 1) = i + q + 1
      <4>1. q \in 0..(Len(rest) - 1) /\ Len(rest) \in Nat /\ i \in Nat
        BY <1>1, <1>2, <2>2
      <4> QED BY <4>1
    <3> QED BY <1>2, <2>2, <3>1
  <2>4. ASSUME NEW p \in (i + 1)..(i + q) PROVE call.frame[p] # call.field
    <3>1. p - i \in 1..q /\ p - i \in 1..Len(rest) /\ i + (p - i) = p
      BY <1>1, <1>2, <2>2
    <3> QED BY <1>2, <2>2, <3>1
  <2> QED BY <1>1, <1>2, <1>3, <2>1, <2>2, <2>3, <2>4
<1> QED BY <1>4, <1>5

(* So what is known of the first i places is known of all up to there. *)
LEMMA DeletedToFound ==
  ASSUME IsDeletion, call.len >= Len(call.frame), i \in 0..Len(call.frame), DeletedTo(i)
  PROVE  DeletedTo(Found(call.frame, call.field))
<1>1. PICK q : q = Found(call.frame, call.field)
  OBVIOUS
<1>2. /\ i \in Nat /\ q \in Nat /\ Len(call.frame) \in Nat /\ q \in i..Len(call.frame)
      /\ \A p \in (i + 1)..q : call.frame[p] # call.field
  BY <1>1, FoundIs DEF IsDeletion
<1> DEFINE T == {k \in 0..(q - i) : DeletedTo(i + k)}
<1>3. 0 \in T
  <2>1. i + 0 = i /\ 0 \in 0..(q - i)
    <3>1. i \in Nat /\ q \in Nat /\ i <= q
      BY <1>2
    <3> QED BY <3>1
  <2> QED BY <2>1
<1>4. ASSUME NEW k \in 0..((q - i) - 1), k \in T PROVE k + 1 \in T
  <2>1. /\ i + k \in 0..(Len(call.frame) - 1) /\ (i + k) + 1 \in (i + 1)..q
        /\ (i + k) + 1 = i + (k + 1) /\ k + 1 \in 0..(q - i)
    BY <1>2
  <2>2. DeletedTo((i + k) + 1)
    BY <1>2, <1>4, <2>1, DeletionPasses
  <2> QED BY <2>1, <2>2
<1> HIDE DEF T
<1>5. q - i \in Nat /\ i + (q - i) = q
  BY <1>2
<1>6. q - i \in T
  <2>1. \A k \in 0..(q - i) : k \in T
    BY <1>3, <1>4, <1>5, Induction
  <2> QED BY <1>5, <2>1
<1> QED BY <1>1, <1>5, <1>6 DEF T

(* memmove() takes the byte of the place out, and what it moves into the   *)
(* buffer from behind it lands behind the new length.                      *)
LEMMA DeletionShifts ==
  ASSUME IsDeletion, call.len >= Len(call.frame), NEW j \in 0..(Len(call.frame) - 1),
         DeletedTo(j), call.frame[j + 1] = call.field,
         DOMAIN mem = 0..call.len, call' = call, n' = n - 1,
         mem' = [k \in DOMAIN mem |->
                   IF k \in ShiftedIndex(j)..(call.len - 1) THEN mem[k + 1] ELSE mem[k]]
  PROVE  DeletedTo(j + 1)' /\ DOMAIN mem' = 0..call.len
<1>1. PICK s : s = Kept(j)
  OBVIOUS
<1>2. /\ j \in Nat /\ j + 1 \in 0..Len(call.frame) /\ Len(call.frame) \in Nat
      /\ call.len \in Nat /\ j + 1 <= call.len
  BY DEF IsDeletion
<1>3. s \in Seq(1..Len(call.frame)) /\ Len(s) \in 0..j
  BY <1>1, <1>2, KeptSteps
<1>4. Kept(j + 1) = s
  <2>1. j + 1 > 0 /\ (j + 1) - 1 = j
    BY <1>2
  <2> QED BY <1>1, <1>2, <2>1, KeptSteps
<1>5. Kept(j + 1)' = s
  BY <1>4 DEF Kept
<1>6. /\ n \in Nat /\ n + j = call.len + Len(s)
      /\ \A k \in 1..Len(s) : mem[k - 1] = call.buffer[s[k] - 1]
      /\ \A k \in Len(s)..(n - 1) : mem[k] = call.buffer[k + call.len - n]
  BY <1>1 DEF DeletedTo
<1>7. ShiftedIndex(j) = Len(s)
  BY <1>2, <1>3, <1>6 DEF ShiftedIndex
<1>8. n' \in Nat /\ n' + (j + 1) = call.len + Len(s) /\ n' = n - 1 /\ n <= call.len
  BY <1>2, <1>3, <1>6
<1>9. ASSUME NEW k \in 1..Len(s) PROVE mem'[k - 1] = call.buffer[s[k] - 1]
  <2>1. k - 1 \in 0..call.len /\ k - 1 \notin Len(s)..(call.len - 1)
    BY <1>2, <1>3
  <2>2. mem'[k - 1] = mem[k - 1]
    BY <1>7, <2>1
  <2> QED BY <1>6, <2>2
<1>10. ASSUME NEW k \in Len(s)..(n - 1 - 1)
       PROVE  mem'[k] = call.buffer[k + call.len - (n - 1)]
  <2>1. /\ k \in 0..call.len /\ k \in Len(s)..(call.len - 1) /\ k + 1 \in Len(s)..(n - 1)
        /\ (k + 1) + call.len - n = k + call.len - (n - 1)
    BY <1>2, <1>3, <1>8, <1>6
  <2>2. mem'[k] = mem[k + 1]
    BY <1>7, <2>1
  <2>3. mem[k + 1] = call.buffer[(k + 1) + call.len - n]
    BY <1>6, <2>1
  <2> QED BY <2>1, <2>2, <2>3
<1>11. DOMAIN mem' = 0..call.len
  OBVIOUS
<1> QED BY <1>5, <1>8, <1>9, <1>10, <1>11 DEF DeletedTo

(* When there is no further place, the other bytes are left. *)
LEMMA DeletionEnds ==
  ASSUME IsDeletion, call.len >= Len(call.frame), DeletedTo(Len(call.frame)),
         call' = call, fn' = "done", val' = n, mem' = mem
  PROVE  DeletesOnlyTheField'
<1>1. PICK s : s = Kept(Len(call.frame))
  OBVIOUS
<1>2. Len(call.frame) \in Nat /\ call.len \in Nat
  BY DEF IsDeletion
<1>3. s \in Seq(1..Len(call.frame)) /\ Len(s) \in Nat
  BY <1>1, <1>2, KeptSteps
<1>4. PICK kept : kept = deleteFieldAndShiftBuffer(call.buffer, call.frame, call.field)
  OBVIOUS
<1>5. kept = [k \in 1..Len(s) |-> call.buffer[s[k] - 1]]
  BY <1>1, <1>4 DEF deleteFieldAndShiftBuffer, PlacesOf, Kept
<1>6. Len(kept) = Len(s)
  BY <1>3, <1>5
<1>7. /\ n \in Nat /\ n + Len(call.frame) = call.len + Len(s)
      /\ \A k \in 1..Len(s) : mem[k - 1] = call.buffer[s[k] - 1]
      /\ \A k \in Len(s)..(n - 1) : mem[k] = call.buffer[k + call.len - n]
  BY <1>1 DEF DeletedTo
<1>8. /\ n = call.len - (Len(call.frame) - Len(kept))
      /\ \A k \in 1..Len(kept) : mem[k - 1] = kept[k]
      /\ \A k \in Len(kept)..(n - 1) :
           mem[k] = call.buffer[k + (Len(call.frame) - Len(kept))]
  <2>1. n \in Nat /\ n + Len(call.frame) = call.len + Len(kept) /\ Len(kept) \in Nat
    BY <1>3, <1>6, <1>7
  <2>2. Len(call.frame) - Len(kept) = call.len - n
    BY <1>2, <2>1
  <2>3. \A k \in Int : k + call.len - n = k + (call.len - n)
    BY <1>2, <1>7
  <2>4. n = call.len - (Len(call.frame) - Len(kept))
    BY <1>2, <2>1
  <2>5. \A k \in 1..Len(kept) : mem[k - 1] = kept[k]
    BY <1>5, <1>6, <1>7
  <2>6. \A k \in Len(kept)..(n - 1) : k \in Int
    BY <1>3, <1>6
  <2> QED BY <1>6, <1>7, <2>2, <2>3, <2>4, <2>5, <2>6
<1> QED BY <1>4, <1>8 DEF DeletesOnlyTheField

(* A call starts with the whole message in place. *)
LEMMA DeleteInit == Init => DeleteInv
<1> SUFFICES ASSUME Init, call.fn = "delete" PROVE DeleteInv
  BY DEF DeleteInv
<1>1. call \in Calls /\ fn = "delete"
  BY DEF Init
<1>2. i = 0 /\ n = call.len /\ mem = call.buffer
  BY <1>1 DEF Init
<1>3. IsDeletion
  BY <1>1, DeletionTyped
<1>4. call.len \in Nat /\ Len(call.frame) \in Nat /\ DOMAIN mem = 0..call.len
  BY <1>2, <1>3 DEF IsDeletion
<1>5. 0 \in 0..Len(call.frame)
  BY <1>4
<1>6. Len(Kept(0)) = 0
  BY <1>3, <1>5, KeptSteps
<1>7. DeletedTo(0)
  <2>1. n \in Nat /\ n + 0 = call.len + Len(Kept(0))
    BY <1>2, <1>4, <1>6
  <2>2. \A k \in 1..Len(Kept(0)) : mem[k - 1] = call.buffer[Kept(0)[k] - 1]
    BY <1>6
  <2>3. \A k \in 0..(n - 1) : k + call.len - n = k
    BY <1>2, <1>4
  <2> QED BY <1>2, <1>6, <2>1, <2>2, <2>3 DEF DeletedTo
<1> QED BY <1>1, <1>2, <1>4, <1>5, <1>7 DEF DeleteInv

(* An iteration of deleteFieldAndShiftBuffer() deletes one more place. *)
LEMMA DeleteKept ==
  ASSUME SearchInv, DeleteInv, [Next]_vars
  PROVE  DeleteInv'
<1> SUFFICES ASSUME call.fn = "delete" PROVE DeleteInv'
  BY CallKept DEF DeleteInv
<1>1. call' = call /\ IsDeletion
  BY CallKept, DeletionTyped DEF SearchInv
<1>2. fn \in {"delete", "done", "threw"}
  BY DEF DeleteInv
<1>3. call.len \in Nat /\ Len(call.frame) \in Nat
  BY <1>1 DEF IsDeletion
<1>4. CASE UNCHANGED vars
  BY <1>4 DEF vars, DeleteInv, DeletedTo, Kept, DeletesOnlyTheField
<1>5. CASE Next
  <2>1. DeleteStep
    BY <1>2, <1>5 DEF Next, MemstrStep, CountStep, AssembleStep, NormalizeStep,
         ToCStringStep, InsertStep, ExtractStep, SwitchStep, FromCStringStep
  <2>2. fn = "delete" /\ i \in 0..Len(call.frame) /\ DOMAIN mem = 0..call.len
        /\ (call.len >= Len(call.frame) => DeletedTo(i))
    BY <2>1 DEF DeleteStep, DeleteInv
  <2>3. CASE call.len < Len(call.frame) /\ fn' = "threw"
    BY <2>3 DEF DeleteInv
  <2> DEFINE place == Found(call.frame, call.field)
  <2>4. CASE call.len >= Len(call.frame) /\ place = Len(call.frame) /\ Return(n)
    <3>1. DeletedTo(Len(call.frame))
      BY <1>1, <2>2, <2>4, DeletedToFound
    <3>2. fn' = "done" /\ val' = n /\ mem' = mem
      BY <2>4 DEF Return
    <3>3. DeletesOnlyTheField'
      BY <1>1, <2>4, <3>1, <3>2, DeletionEnds
    <3> QED BY <3>2, <3>3 DEF DeleteInv
  <2>5. CASE /\ call.len >= Len(call.frame) /\ place < Len(call.frame)
             /\ mem' = [k \in DOMAIN mem |->
                          IF k \in ShiftedIndex(place)..(call.len - 1)
                          THEN mem[k + 1] ELSE mem[k]]
             /\ i' = place + 1 /\ n' = n - 1 /\ fn' = fn
    <3>1. PICK j : j = place
      OBVIOUS
    <3>2. j \in 0..(Len(call.frame) - 1) /\ call.frame[j + 1] = call.field
      <4>1. i \in Nat /\ j \in i..Len(call.frame) /\ j < Len(call.frame)
            /\ call.frame[j + 1] = call.field
        BY <1>1, <2>2, <2>5, <3>1, FoundIs DEF IsDeletion
      <4> QED BY <1>3, <4>1
    <3>3. DeletedTo(j)
      BY <1>1, <2>2, <2>5, <3>1, DeletedToFound
    <3>4. mem' = [k \in DOMAIN mem |->
                    IF k \in ShiftedIndex(j)..(call.len - 1) THEN mem[k + 1] ELSE mem[k]]
      BY <2>5, <3>1
    <3>5. DeletedTo(j + 1)' /\ DOMAIN mem' = 0..call.len
      BY <1>1, <2>2, <2>5, <3>2, <3>3, <3>4, DeletionShifts
    <3>6. i' = j + 1 /\ fn' = "delete" /\ j + 1 \in 0..Len(call.frame)
      BY <1>3, <2>2, <2>5, <3>1, <3>2
    <3>7. DeletedTo(i)'
      BY <3>5, <3>6 DEF DeletedTo, Kept
    <3> QED BY <1>1, <3>5, <3>6, <3>7 DEF DeleteInv
  <2> QED BY <2>1, <2>3, <2>4, <2>5 DEF DeleteStep
<1> QED BY <1>4, <1>5

-----------------------------------------------------------------------------
(* Assembly of a frame *)

(* The first places of a component. *)
PlacesOfComponent(component, m) == [p \in 1..m |-> component.field % ID_VALUES]

(* The frame has the components before i and n places of the i-th.  *)
AssembleInv ==
  call.fn = "assemble" =>
    /\ fn \in {"assemble", "done"}
    /\ fn = "assemble" =>
         LET components == call.components
         IN  /\ i \in 0..Len(components)
             /\ i = Len(components) => mem = FramesUpTo(components)[i]
             /\ i < Len(components) =>
                  /\ n \in 0..components[i + 1].places
                  /\ mem = FramesUpTo(components)[i]
                             \o PlacesOfComponent(components[i + 1], n)
    /\ fn = "done" => mem = FrameOf(call.components)

Component == [field : Nat, places : Nat]

AreComponents(components) == components \in Seq(Component)

(* A component has as many places as it says. *)
LEMMA ComponentsTyped ==
  ASSUME NEW components, AreComponents(components), NEW k \in 1..Len(components)
  PROVE  components[k] \in Component /\ components[k].places \in Nat
<1>1. components[k] \in Component
  BY DEF AreComponents
<1> QED BY <1>1 DEF Component

(* The places of a component are ids. *)
LEMMA ComponentPlaces ==
  ASSUME NEW component \in Component, NEW m \in Nat
  PROVE  /\ PlacesOfComponent(component, m) \in Seq(Nat)
         /\ Len(PlacesOfComponent(component, m)) = m
         /\ component.field % ID_VALUES \in Nat
<1>1. component.field % ID_VALUES \in Nat
  BY DEF ID_VALUES, Component
<1> QED BY <1>1 DEF PlacesOfComponent

(* What FramesUpTo computes, step by step. *)
LEMMA FrameSteps ==
  ASSUME NEW components, AreComponents(components)
  PROVE  /\ FramesUpTo(components)[0] = <<>>
         /\ \A k \in 1..Len(components) :
              FramesUpTo(components)[k] =
                FramesUpTo(components)[k - 1]
                  \o PlacesOfComponent(components[k], components[k].places)
         /\ \A k \in 0..Len(components) : FramesUpTo(components)[k] \in Seq(Nat)
<1> DEFINE N == Len(components)
           S == Seq(Nat)
           part(k) == [p \in 1..components[k].places |-> components[k].field % ID_VALUES]
           IsIt(f) == f = [k \in 0..N |-> IF k = 0 THEN <<>> ELSE f[k - 1] \o part(k)]
           step == [x \in S \X (1..N) |-> x[1] \o part(x[2])]
<1>1. <<>> \in S /\ N \in Nat
  BY DEF AreComponents
<1>2. ASSUME NEW k \in 1..N
      PROVE  part(k) \in S /\ part(k) = PlacesOfComponent(components[k], components[k].places)
  <2>1. components[k] \in Component
    BY ComponentsTyped
  <2>2. components[k].places \in Nat
    BY ComponentsTyped
  <2>3. PlacesOfComponent(components[k], components[k].places) \in Seq(Nat)
    BY <2>1, <2>2, ComponentPlaces
  <2> QED BY <2>3 DEF PlacesOfComponent
<1> HIDE DEF part
<1>3. step \in [S \X (1..N) -> S]
  <2>1. ASSUME NEW x \in S \X (1..N) PROVE x[1] \o part(x[2]) \in S
    <3>1. x[1] \in S /\ x[2] \in 1..N
      OBVIOUS
    <3>2. part(x[2]) \in S
      BY <1>2, <3>1
    <3> QED BY <3>1, <3>2, ConcatProperties
  <2> QED BY <2>1
<1>4. \A y \in S, k \in 1..N : step[<<y, k>>] = y \o part(k)
  OBVIOUS
<1> HIDE DEF S, step
<1>5. PICK f \in [0..N -> S] : Recurs(f, N, <<>>, step)
  BY <1>1, <1>3, RecursionExists
<1>6. f[0] = <<>> /\ \A k \in 1..N : f[k] = f[k - 1] \o part(k)
  <2>1. \A k \in 1..N : k - 1 \in 0..N /\ f[k - 1] \in S
    BY <1>1
  <2> QED BY <1>4, <1>5, <2>1 DEF Recurs
<1>7. IsIt(f)
  <2>1. \A k \in 0..N : k # 0 => k \in 1..N
    BY <1>1
  <2>2. f = [k \in 0..N |-> f[k]]
    OBVIOUS
  <2> QED BY <1>6, <2>1, <2>2
<1>8. PICK u : u = FramesUpTo(components) /\ IsIt(u)
  BY <1>7 DEF FramesUpTo, part
<1>9. 0 \in 0..N /\ \A k \in 1..N : k \in 0..N /\ k # 0
  BY <1>1
<1>10. u[0] = <<>> /\ \A k \in 1..N : u[k] = u[k - 1] \o part(k)
  BY <1>8, <1>9
<1> DEFINE T == {k \in 0..N : u[k] \in S}
<1>11. 0 \in T
  BY <1>1, <1>9, <1>10
<1>12. ASSUME NEW k \in 0..(N - 1), k \in T PROVE k + 1 \in T
  <2>1. k + 1 \in 1..N /\ (k + 1) - 1 = k /\ k + 1 \in 0..N
    BY <1>1
  <2>2. u[k + 1] = u[k] \o part(k + 1) /\ u[k] \in S /\ part(k + 1) \in S
    BY <1>2, <1>10, <1>12, <2>1
  <2>3. u[k] \o part(k + 1) \in S
    BY <2>2, ConcatProperties DEF S
  <2> QED BY <2>1, <2>2, <2>3
<1> HIDE DEF T
<1>13. \A k \in 0..N : k \in T
  BY <1>1, <1>11, <1>12, Induction
<1>14. \A k \in 0..N : u[k] \in Seq(Nat)
  BY <1>13 DEF T, S
<1> QED BY <1>2, <1>8, <1>10, <1>14

(* One more place of a component comes behind those it has. *)
LEMMA PlaceAppended ==
  ASSUME NEW component \in Component, NEW m \in Nat, NEW frame \in Seq(Nat)
  PROVE  Append(frame \o PlacesOfComponent(component, m), component.field % ID_VALUES)
           = frame \o PlacesOfComponent(component, m + 1)
<1>1. PICK a, b, x : /\ a = PlacesOfComponent(component, m)
                     /\ b = PlacesOfComponent(component, m + 1)
                     /\ x = component.field % ID_VALUES
  OBVIOUS
<1>2. m + 1 \in Nat
  OBVIOUS
<1>3. a \in Seq(Nat) /\ Len(a) = m /\ b \in Seq(Nat) /\ Len(b) = m + 1 /\ x \in Nat
  BY <1>1, <1>2, ComponentPlaces
<1>4. (\A k \in 1..m : a[k] = x) /\ (\A k \in 1..(m + 1) : b[k] = x)
  BY <1>1 DEF PlacesOfComponent
<1>5. /\ frame \o a \in Seq(Nat) /\ Len(frame \o a) = Len(frame) + m
      /\ \A k \in 1..(Len(frame) + m) :
           (frame \o a)[k] = IF k <= Len(frame) THEN frame[k] ELSE a[k - Len(frame)]
  BY <1>3, ConcatProperties
<1>6. /\ frame \o b \in Seq(Nat) /\ Len(frame \o b) = Len(frame) + m + 1
      /\ \A k \in 1..(Len(frame) + m + 1) :
           (frame \o b)[k] = IF k <= Len(frame) THEN frame[k] ELSE b[k - Len(frame)]
  <2>1. Len(frame) \in Nat /\ Len(frame) + (m + 1) = Len(frame) + m + 1
    OBVIOUS
  <2>2. /\ frame \o b \in Seq(Nat) /\ Len(frame \o b) = Len(frame) + Len(b)
        /\ \A k \in 1..(Len(frame) + Len(b)) :
             (frame \o b)[k] = IF k <= Len(frame) THEN frame[k] ELSE b[k - Len(frame)]
    BY <1>3, ConcatProperties
  <2> QED BY <1>3, <2>1, <2>2
<1>7. PICK y, z : y = frame \o a /\ z = frame \o b
  OBVIOUS
<1>8. /\ Append(y, x) \in Seq(Nat) /\ Len(Append(y, x)) = Len(frame) + m + 1
       /\ \A k \in 1..(Len(frame) + m) : Append(y, x)[k] = y[k]
       /\ Append(y, x)[Len(frame) + m + 1] = x
  BY <1>3, <1>5, <1>7, AppendProperties
<1>9. \A k \in 1..(Len(frame) + m + 1) : Append(y, x)[k] = z[k]
  <2> SUFFICES ASSUME NEW k \in 1..(Len(frame) + m + 1) PROVE Append(y, x)[k] = z[k]
    OBVIOUS
  <2>1. Len(frame) \in Nat
    OBVIOUS
  <2>2. CASE k = Len(frame) + m + 1
    <3>1. z[k] = b[m + 1] /\ m + 1 \in 1..(m + 1)
      BY <1>6, <1>7, <2>1, <2>2
    <3> QED BY <1>4, <1>8, <2>2, <3>1
  <2>3. CASE k \in 1..Len(frame)
    BY <1>5, <1>6, <1>7, <1>8, <2>1, <2>3
  <2>4. CASE k \in (Len(frame) + 1)..(Len(frame) + m)
    <3>1. /\ k \in 1..(Len(frame) + m) /\ ~(k <= Len(frame))
          /\ k - Len(frame) \in 1..m /\ k - Len(frame) \in 1..(m + 1)
      BY <2>1, <2>4
    <3>2. y[k] = a[k - Len(frame)] /\ z[k] = b[k - Len(frame)]
      BY <1>5, <1>6, <1>7, <3>1
    <3> QED BY <1>4, <1>8, <3>1, <3>2
  <2>5. k = Len(frame) + m + 1 \/ k \in 1..Len(frame) \/ k \in (Len(frame) + 1)..(Len(frame) + m)
    BY <2>1
  <2> QED BY <2>2, <2>3, <2>4, <2>5
<1>10. Append(y, x) = z
  BY <1>6, <1>7, <1>8, <1>9, SeqEqual
<1> QED BY <1>1, <1>7, <1>10

(* A call starts with an empty frame. *)
LEMMA AssembleInit == Init => AssembleInv
<1> SUFFICES ASSUME Init, call.fn = "assemble" PROVE AssembleInv
  BY DEF AssembleInv
<1>1. call \in Calls /\ fn = "assemble"
  BY DEF Init
<1>2. i = 0 /\ n = 0 /\ mem = <<>>
  BY <1>1 DEF Init
<1>3. AreComponents(call.components)
  BY <1>1, UtilAssumption DEF AreComponents, Component
<1>4. Len(call.components) \in Nat /\ FramesUpTo(call.components)[0] = <<>>
  <2>1. Len(call.components) \in Nat
    BY <1>3 DEF AreComponents
  <2> QED BY <1>3, <2>1, FrameSteps
<1>5. ASSUME 0 < Len(call.components)
      PROVE  /\ 0 \in 0..call.components[1].places
             /\ <<>> = FramesUpTo(call.components)[0]
                         \o PlacesOfComponent(call.components[1], 0)
  <2>1. call.components[1].places \in Nat
    <3>1. 1 \in 1..Len(call.components)
      BY <1>4, <1>5
    <3> QED BY <1>3, <3>1, ComponentsTyped
  <2>2. PlacesOfComponent(call.components[1], 0) = <<>>
    BY DEF PlacesOfComponent
  <2> QED BY <1>4, <2>1, <2>2
<1> QED BY <1>1, <1>2, <1>4, <1>5 DEF AssembleInv

(* An iteration of assembleSerialFrame() adds a place or goes on to the    *)
(* next component.                                                         *)
LEMMA AssembleKept ==
  ASSUME SearchInv, AssembleInv, [Next]_vars
  PROVE  AssembleInv'
<1> SUFFICES ASSUME call.fn = "assemble" PROVE AssembleInv'
  BY CallKept DEF AssembleInv
<1>1. call' = call
  BY CallKept
<1>2. fn \in {"assemble", "done"}
  BY DEF AssembleInv
<1>3. CASE UNCHANGED vars
  BY <1>3 DEF vars, AssembleInv
<1>4. CASE Next
  <2>1. AssembleStep
    BY <1>2, <1>4 DEF Next, MemstrStep, CountStep, DeleteStep, NormalizeStep,
         ToCStringStep, InsertStep, ExtractStep, SwitchStep, FromCStringStep
  <2>2. PICK cs, upto : cs = call.components /\ upto = FramesUpTo(cs)
    OBVIOUS
  <2>3. AreComponents(cs)
    BY <2>2, UtilAssumption DEF SearchInv, AreComponents, Component
  <2>4. Len(cs) \in Nat
    BY <2>3 DEF AreComponents
  <2>5. /\ fn = "assemble" /\ i \in 0..Len(cs)
        /\ i = Len(cs) => mem = upto[i]
        /\ i < Len(cs) => /\ n \in 0..cs[i + 1].places
                          /\ mem = upto[i] \o PlacesOfComponent(cs[i + 1], n)
    BY <2>1, <2>2 DEF AssembleStep, AssembleInv
  <2>6. CASE i = Len(cs) /\ Return(Len(mem))
    <3>1. fn' = "done" /\ mem' = mem
      BY <2>6 DEF Return
    <3>2. mem = FrameOf(call.components)
      BY <2>2, <2>5, <2>6 DEF FrameOf
    <3> QED BY <1>1, <3>1, <3>2 DEF AssembleInv
  <2>7. CASE i < Len(cs) /\ fn' = fn
    <3>1. PICK c : c = cs[i + 1]
      OBVIOUS
    <3>2. c \in Component /\ c.places \in Nat /\ i + 1 \in 1..Len(cs) /\ (i + 1) - 1 = i
      <4>1. i + 1 \in 1..Len(cs) /\ (i + 1) - 1 = i
        BY <2>4, <2>5, <2>7
      <4> QED BY <2>3, <3>1, <4>1, ComponentsTyped
    <3>3. upto[i] \in Seq(Nat) /\ upto[i + 1] = upto[i] \o PlacesOfComponent(c, c.places)
          /\ upto[i + 1] \in Seq(Nat)
      <4>1. i \in 0..Len(cs) /\ i + 1 \in 0..Len(cs)
        BY <2>4, <2>5, <3>2
      <4>2. /\ \A k \in 1..Len(cs) : upto[k] = upto[k - 1] \o PlacesOfComponent(cs[k], cs[k].places)
            /\ \A k \in 0..Len(cs) : upto[k] \in Seq(Nat)
        BY <2>2, <2>3, FrameSteps
      <4> QED BY <3>1, <3>2, <4>1, <4>2
    <3>4. n \in 0..c.places /\ c.places \in Nat /\ mem = upto[i] \o PlacesOfComponent(c, n)
      BY <2>5, <2>7, <3>1, <3>2
    <3>5. CASE n < c.places /\ mem' = Append(mem, c.field % ID_VALUES) /\ n' = n + 1 /\ i' = i
      <4>1. mem' = upto[i] \o PlacesOfComponent(c, n + 1)
        <5>1. PICK m, frame : m = n /\ frame = upto[i]
          OBVIOUS
        <5>2. m \in Nat /\ frame \in Seq(Nat)
          BY <3>3, <3>4, <5>1
        <5> QED BY <3>2, <3>4, <3>5, <5>1, <5>2, PlaceAppended
      <4>2. n + 1 \in 0..c.places
        BY <3>4, <3>5
      <4>3. fn' = "assemble" /\ ~(i = Len(cs)) /\ c = cs[i + 1]
        BY <2>4, <2>5, <2>7, <3>1
      <4> QED BY <1>1, <2>2, <2>5, <3>5, <4>1, <4>2, <4>3 DEF AssembleInv
    <3>6. CASE ~(n < c.places) /\ n' = 0 /\ i' = i + 1 /\ mem' = mem
      <4>1. n = c.places
        BY <3>4, <3>6
      <4>2. mem' = upto[i + 1]
        BY <3>3, <3>4, <3>6, <4>1
      <4>3. i + 1 \in 0..Len(cs)
        BY <2>4, <2>5, <3>2
      <4>4. ASSUME i + 1 < Len(cs)
            PROVE  /\ 0 \in 0..cs[i + 1 + 1].places
                   /\ upto[i + 1] = upto[i + 1] \o PlacesOfComponent(cs[i + 1 + 1], 0)
        <5>1. i + 1 + 1 \in 1..Len(cs)
          BY <2>4, <4>3, <4>4
        <5>2. cs[i + 1 + 1].places \in Nat
          BY <2>3, <5>1, ComponentsTyped
        <5>3. PlacesOfComponent(cs[i + 1 + 1], 0) = <<>>
          BY DEF PlacesOfComponent
        <5>4. PICK frame \in Seq(Nat) : frame = upto[i + 1]
          BY <3>3
        <5>5. frame = frame \o <<>>
          OBVIOUS
        <5>6. upto[i + 1] = upto[i + 1] \o PlacesOfComponent(cs[i + 1 + 1], 0)
          BY <5>3, <5>4, <5>5
        <5>7. \A places \in Nat : 0 \in 0..places
          OBVIOUS
        <5>8. 0 \in 0..cs[i + 1 + 1].places
          BY <5>2, <5>7
        <5> QED BY <5>6, <5>8, Zenon
      <4> QED BY <1>1, <2>2, <2>5, <2>7, <3>6, <4>2, <4>3, <4>4 DEF AssembleInv
    <3> QED BY <2>1, <2>2, <2>5, <2>7, <3>1, <3>5, <3>6 DEF AssembleStep
  <2> QED BY <2>1, <2>2, <2>6, <2>7 DEF AssembleStep
<1> QED BY <1>3, <1>4

-----------------------------------------------------------------------------
(* Rotation of a frame *)

(* What normalizeSerialFrame() promises of its result. *)
Normalized(frame, new) ==
  /\ FIELD_SYNC \in FieldsOf(frame) => new[1] = FIELD_SYNC
  /\ SyncIsContinuous(frame) => SyncIsContinuous(new)
  /\ \E turn \in 0..Len(frame) :
       new = SubSeq(frame, turn + 1, Len(frame)) \o SubSeq(frame, 1, turn)

NormalizeInv ==
  call.fn = "normalize" =>
    /\ fn \in {"normalize", "done"}
    /\ fn = "done" => Normalized(call.frame, mem)

(* The two parts of a frame, exchanged. *)
LEMMA Rotated ==
  ASSUME NEW frame \in Seq(Nat), NEW turn \in 0..Len(frame), NEW new,
         new = SubSeq(frame, turn + 1, Len(frame)) \o SubSeq(frame, 1, turn)
  PROVE  /\ Len(new) = Len(frame)
         /\ \A k \in 1..Len(frame) :
              new[k] = IF k + turn <= Len(frame) THEN frame[k + turn]
                       ELSE frame[k + turn - Len(frame)]
<1>1. PICK a, b : a = SubSeq(frame, turn + 1, Len(frame)) /\ b = SubSeq(frame, 1, turn)
  OBVIOUS
<1>2. Len(frame) \in Nat /\ turn \in Nat /\ turn <= Len(frame)
  OBVIOUS
<1>3. /\ a \in Seq(Nat) /\ Len(a) = Len(frame) - turn
      /\ \A k \in 1..(Len(frame) - turn) : a[k] = frame[k + turn]
  <2>1. PICK m : m = turn + 1
    OBVIOUS
  <2>2. m \in 1..(Len(frame) + 1) /\ Len(frame) - m + 1 = Len(frame) - turn
    BY <1>2, <2>1
  <2>3. a = SubSeq(frame, m, Len(frame))
    BY <1>1, <2>1
  <2>4. /\ a \in Seq(Nat) /\ Len(a) = Len(frame) - m + 1
        /\ \A k \in 1..(Len(frame) - m + 1) : a[k] = frame[m + k - 1]
    BY <1>2, <2>2, <2>3, SubSeqProperties
  <2>5. \A k \in 1..(Len(frame) - turn) : m + k - 1 = k + turn
    BY <1>2, <2>1
  <2> QED BY <2>2, <2>4, <2>5
<1>4. b \in Seq(Nat) /\ Len(b) = turn /\ \A k \in 1..turn : b[k] = frame[k]
  BY <1>1, <1>2
<1>5. /\ Len(a \o b) = Len(a) + Len(b)
      /\ \A k \in 1..(Len(a) + Len(b)) :
           (a \o b)[k] = IF k <= Len(a) THEN a[k] ELSE b[k - Len(a)]
  BY <1>3, <1>4, ConcatProperties
<1>6. new = a \o b
  BY <1>1
<1>7. Len(new) = Len(frame)
  <2>1. Len(a) + Len(b) = Len(frame)
    BY <1>2, <1>3, <1>4
  <2> QED BY <1>5, <1>6, <2>1
<1>8. ASSUME NEW k \in 1..Len(frame)
      PROVE  new[k] = IF k + turn <= Len(frame) THEN frame[k + turn]
                      ELSE frame[k + turn - Len(frame)]
  <2>1. CASE k + turn <= Len(frame)
    <3>1. k \in 1..(Len(frame) - turn) /\ k <= Len(a) /\ k \in 1..(Len(a) + Len(b))
      BY <1>2, <1>3, <1>4, <2>1
    <3>2. new[k] = a[k]
      BY <1>5, <1>6, <3>1
    <3> QED BY <1>3, <2>1, <3>1, <3>2
  <2>2. CASE ~(k + turn <= Len(frame))
    <3>1. /\ ~(k <= Len(a)) /\ k \in 1..(Len(a) + Len(b)) /\ k - Len(a) \in 1..turn
          /\ k - Len(a) = k + turn - Len(frame)
      <4>1. Len(a) = Len(frame) - turn /\ Len(b) = turn
        BY <1>3, <1>4
      <4> QED BY <1>2, <2>2, <4>1
    <3>2. new[k] = b[k - Len(a)]
      BY <1>5, <1>6, <3>1
    <3> QED BY <1>4, <2>2, <3>1, <3>2
  <2> QED BY <2>1, <2>2
<1> QED BY <1>7, <1>8

(* Rotating a frame to its sync field puts that field first, and does not  *)
(* tear it apart, as no sync byte is before the first one.                 *)
LEMMA RotationNormalizes ==
  ASSUME NEW frame \in Seq(Nat), NEW new,
         new = SubSeq(frame, SyncIt(frame) + 1, Len(frame)) \o SubSeq(frame, 1, SyncIt(frame))
  PROVE  Normalized(frame, new)
<1>1. PICK s : s = SyncIt(frame)
  OBVIOUS
<1>2. Len(frame) \in Nat
  OBVIOUS
<1>3. CASE Positions(frame, FIELD_SYNC) = {}
  <2>1. s = Len(frame)
    BY <1>1, <1>3 DEF SyncIt, findit
  <2>2. s \in 0..Len(frame)
    BY <1>2, <2>1
  <2>3. /\ Len(new) = Len(frame)
        /\ \A k \in 1..Len(frame) :
             new[k] = IF k + s <= Len(frame) THEN frame[k + s] ELSE frame[k + s - Len(frame)]
    BY <1>1, <2>2, Rotated
  <2>4. \A k \in 1..Len(frame) : new[k] # FIELD_SYNC
    <3> SUFFICES ASSUME NEW k \in 1..Len(frame) PROVE new[k] # FIELD_SYNC
      OBVIOUS
    <3>1. ~(k + s <= Len(frame)) /\ k + s - Len(frame) = k
      BY <1>2, <2>1
    <3>2. new[k] = frame[k]
      BY <2>3, <3>1
    <3> QED BY <1>3, <3>2 DEF Positions
  <2>5. FIELD_SYNC \notin FieldsOf(frame) /\ Positions(new, FIELD_SYNC) = {}
    BY <1>3, <2>3, <2>4 DEF FieldsOf, Positions
  <2> QED BY <1>1, <2>2, <2>5 DEF Normalized, SyncIsContinuous
<1>4. CASE Positions(frame, FIELD_SYNC) # {}
  <2>1. /\ s \in 0..(Len(frame) - 1) /\ frame[s + 1] = FIELD_SYNC
        /\ \A k \in 1..s : frame[k] # FIELD_SYNC
    BY <1>1, <1>4, FinditFirst DEF SyncIt
  <2>2. s \in Nat /\ s < Len(frame) /\ s \in 0..Len(frame)
    BY <1>2, <2>1
  <2>3. /\ Len(new) = Len(frame)
        /\ \A k \in 1..Len(frame) :
             new[k] = IF k + s <= Len(frame) THEN frame[k + s] ELSE frame[k + s - Len(frame)]
    BY <1>1, <2>2, Rotated
  <2>4. new[1] = FIELD_SYNC
    <3>1. 1 \in 1..Len(frame) /\ 1 + s <= Len(frame) /\ 1 + s = s + 1
      BY <1>2, <2>2
    <3> QED BY <2>1, <2>3, <3>1
  <2>5. ASSUME NEW k \in 1..Len(frame)
        PROVE  new[k] = FIELD_SYNC <=> k + s <= Len(frame) /\ frame[k + s] = FIELD_SYNC
    <3>1. CASE k + s <= Len(frame)
      BY <2>3, <3>1
    <3>2. CASE ~(k + s <= Len(frame))
      <4>1. k + s - Len(frame) \in 1..s
        BY <1>2, <2>2, <3>2
      <4> QED BY <2>1, <2>3, <3>2, <4>1
    <3> QED BY <3>1, <3>2
  <2>6. ASSUME SyncIsContinuous(frame) PROVE SyncIsContinuous(new)
    <3> SUFFICES ASSUME NEW x \in Positions(new, FIELD_SYNC), NEW y \in Positions(new, FIELD_SYNC),
                        NEW k \in x..y
                 PROVE  k \in Positions(new, FIELD_SYNC)
      BY DEF SyncIsContinuous
    <3>1. /\ x \in 1..Len(frame) /\ new[x] = FIELD_SYNC
          /\ y \in 1..Len(frame) /\ new[y] = FIELD_SYNC
      BY <2>3 DEF Positions
    <3>2. /\ x + s <= Len(frame) /\ frame[x + s] = FIELD_SYNC
          /\ y + s <= Len(frame) /\ frame[y + s] = FIELD_SYNC
      BY <2>5, <3>1
    <3>3. x + s \in Positions(frame, FIELD_SYNC) /\ y + s \in Positions(frame, FIELD_SYNC)
      <4>1. x + s \in 1..Len(frame) /\ y + s \in 1..Len(frame)
        BY <2>2, <3>1, <3>2
      <4> QED BY <3>2, <4>1 DEF Positions
    <3>4. k + s \in (x + s)..(y + s) /\ k \in 1..Len(frame) /\ k + s <= Len(frame)
      <4>1. /\ x \in Nat /\ x >= 1 /\ y \in Nat /\ y + s <= Len(frame)
            /\ y <= Len(frame)
        BY <1>2, <3>1, <3>2
      <4>2. k \in Int /\ x <= k /\ k <= y
        BY <4>1
      <4>3. k \in 1..Len(frame) /\ k + s <= Len(frame)
        <5>1. PICK len \in Nat : len = Len(frame)
          BY <1>2
        <5>2. 1 <= k /\ k <= len
          BY <4>1, <4>2, <5>1
        <5>3. k + s <= y + s /\ y + s <= len /\ k + s \in Int /\ y + s \in Int
          BY <2>2, <4>1, <4>2, <5>1
        <5>4. k + s <= len
          BY <5>1, <5>3
        <5> QED BY <4>2, <5>1, <5>2, <5>4
      <4>4. k + s \in (x + s)..(y + s)
        BY <2>2, <4>1, <4>2
      <4> QED BY <4>3, <4>4
    <3>5. k + s \in Positions(frame, FIELD_SYNC)
      BY <2>6, <3>3, <3>4 DEF SyncIsContinuous
    <3>6. frame[k + s] = FIELD_SYNC
      BY <3>5 DEF Positions
    <3> QED BY <2>3, <2>5, <3>4, <3>6 DEF Positions
  <2> QED BY <1>1, <2>2, <2>4, <2>6 DEF Normalized
<1> QED BY <1>3, <1>4

(* normalizeSerialFrame() is a single step. *)
LEMMA NormalizeKept ==
  ASSUME SearchInv, NormalizeInv, [Next]_vars
  PROVE  NormalizeInv'
<1> SUFFICES ASSUME call.fn = "normalize" PROVE NormalizeInv'
  BY CallKept DEF NormalizeInv
<1>1. call' = call /\ fn \in {"normalize", "done"}
  BY CallKept DEF NormalizeInv
<1>2. CASE UNCHANGED vars
  BY <1>2 DEF vars, NormalizeInv
<1>3. CASE Next
  <2>1. NormalizeStep
    BY <1>1, <1>3 DEF Next, MemstrStep, CountStep, DeleteStep, AssembleStep,
         ToCStringStep, InsertStep, ExtractStep, SwitchStep, FromCStringStep
  <2>2. call.frame \in Seq(Nat)
    BY UtilAssumption DEF SearchInv
  <2>3. PICK frame, new : frame = call.frame /\ new = mem'
    OBVIOUS
  <2>4. new = SubSeq(frame, SyncIt(frame) + 1, Len(frame)) \o SubSeq(frame, 1, SyncIt(frame))
    BY <2>1, <2>3 DEF NormalizeStep
  <2>5. Normalized(frame, new)
    BY <2>2, <2>3, <2>4, RotationNormalizes
  <2>6. fn' = "done"
    BY <2>1 DEF NormalizeStep
  <2> QED BY <1>1, <2>3, <2>5, <2>6 DEF NormalizeInv
<1> QED BY <1>2, <1>3

-----------------------------------------------------------------------------
(* Values and their bytes *)

(* A byte more has Base times the values. *)
LEMMA Powers ==
  /\ Power[0] = 1
  /\ \A k \in Nat : Power[k + 1] = Base * Power[k]
  /\ \A k \in Nat : Power[k] \in Nat /\ Power[k] > 0
<1> DEFINE IsIt(f) == f = [k \in Nat |-> IF k = 0 THEN 1 ELSE Base * f[k - 1]]
           step == [x \in Nat \X Nat |-> Base * x[1]]
<1>1. Base \in Nat /\ Base > 0
  BY UtilAssumption
<1>2. step \in [Nat \X Nat -> Nat] /\ \A y \in Nat, k \in Nat : step[<<y, k>>] = Base * y
  BY <1>1
<1> HIDE DEF step
<1>3. PICK f \in [Nat -> Nat] : f[0] = 1 /\ \A k \in Nat \ {0} : f[k] = step[<<f[k - 1], k>>]
  <2>1. 1 \in Nat
    OBVIOUS
  <2>2. \E f \in [Nat -> Nat] : RecursForEver(f, 1, step)
    BY <1>2, <2>1, RecursionOnNat
  <2> QED BY <2>2 DEF RecursForEver
<1>4. \A k \in Nat \ {0} : f[k] = Base * f[k - 1]
  <2>1. \A k \in Nat \ {0} : k - 1 \in Nat /\ f[k - 1] \in Nat
    OBVIOUS
  <2> QED BY <1>2, <1>3, <2>1
<1>5. IsIt(f)
  <2>1. f = [k \in Nat |-> f[k]]
    OBVIOUS
  <2> QED BY <1>3, <1>4, <2>1
<1>6. PICK u : u = Power /\ IsIt(u)
  BY <1>5 DEF Power
<1>7. u[0] = 1 /\ \A k \in Nat : u[k + 1] = Base * u[k]
  <2>1. \A k \in Nat : k + 1 \in Nat /\ k + 1 # 0 /\ (k + 1) - 1 = k
    OBVIOUS
  <2> QED BY <1>6, <2>1
<1>8. ASSUME NEW m \in Nat PROVE u[m] \in Nat /\ u[m] > 0
  <2> DEFINE T == {k \in 0..m : u[k] \in Nat /\ u[k] > 0}
  <2>1. 0 \in T
    BY <1>7
  <2>2. ASSUME NEW k \in 0..(m - 1), k \in T PROVE k + 1 \in T
    <3>1. u[k + 1] = Base * u[k] /\ u[k] \in Nat /\ u[k] > 0 /\ k + 1 \in 0..m
      BY <1>7, <2>2
    <3>2. \A b, p \in Nat : b > 0 /\ p > 0 => b * p \in Nat /\ b * p > 0
      OBVIOUS
    <3> QED BY <1>1, <3>1, <3>2
  <2> HIDE DEF T
  <2>3. \A k \in 0..m : k \in T
    BY <2>1, <2>2, Induction
  <2>4. m \in T
    BY <2>3
  <2> QED BY <2>4 DEF T
<1> QED BY <1>6, <1>7, <1>8

(* More bytes have no fewer values. *)
LEMMA PowersGrow ==
  ASSUME NEW m \in Nat, NEW k \in Nat
  PROVE  Power[m] <= Power[m + k]
<1> DEFINE T == {j \in 0..k : Power[m] <= Power[m + j]}
<1>1. 0 \in T
  <2>1. m + 0 = m /\ Power[m] \in Nat
    BY Powers
  <2> QED BY <2>1
<1>2. ASSUME NEW j \in 0..(k - 1), j \in T PROVE j + 1 \in T
  <2>1. m + j \in Nat /\ m + (j + 1) = (m + j) + 1 /\ j + 1 \in 0..k
    OBVIOUS
  <2>2. PICK p, q \in Nat : p = Power[m + j] /\ q = Power[m]
    BY <2>1, Powers
  <2>3. Power[m + (j + 1)] = Base * p
    BY <2>1, <2>2, Powers
  <2>4. Base * p >= p /\ Base * p \in Nat
    BY UtilAssumption
  <2>5. q <= p
    BY <1>2, <2>2
  <2>6. q <= Base * p
    BY <2>2, <2>4, <2>5
  <2> QED BY <2>1, <2>2, <2>3, <2>6
<1> HIDE DEF T
<1>3. \A j \in 0..k : j \in T
  BY <1>1, <1>2, Induction
<1>4. k \in T
  BY <1>3
<1> QED BY <1>4 DEF T

(* Division by two factors is division by one after the other. *)
LEMMA DivTwice ==
  ASSUME NEW v \in Nat, NEW p \in Nat, NEW q \in Nat, p > 0, q > 0
  PROVE  (v \div p) \div q = v \div (p * q)
OBVIOUS

(* A quotient and a remainder determine each other. *)
LEMMA DivMod ==
  ASSUME NEW v \in Int, NEW p \in Nat, p > 0
  PROVE  /\ v = p * (v \div p) + (v % p)
         /\ v % p \in 0..(p - 1) /\ v \div p \in Int
         /\ v \in Nat => v \div p \in Nat
OBVIOUS

(* There is one quotient and one remainder. *)
LEMMA DivModIs ==
  ASSUME NEW v \in Int, NEW p \in Int, NEW q \in Int, NEW r \in Int,
         r < p, r >= 0, p > 0, v = p * q + r
  PROVE  v \div p = q /\ v % p = r
OBVIOUS

(* A value has its lowest digit, and above it those of what is left when   *)
(* that one is shifted out.                                                *)
LEMMA Digits ==
  ASSUME NEW v \in Nat, NEW k \in Nat
  PROVE  /\ Digit(v, k) \in Byte
         /\ Digit(v, 0) = v % Base
         /\ Digit(v, k + 1) = Digit(v \div Base, k)
<1>1. Base \in Nat /\ Base > 0 /\ Power[k] \in Nat /\ Power[k] > 0
  BY UtilAssumption, Powers
<1>2. v \div Power[k] \in Nat
  BY <1>1, DivMod
<1>3. Digit(v, k) \in Byte
  BY <1>1, <1>2, DivMod DEF Digit, Byte
<1>4. Digit(v, 0) = v % Base
  BY Powers DEF Digit
<1>5. v \div Power[k + 1] = (v \div Base) \div Power[k]
  <2>1. Power[k + 1] = Base * Power[k]
    BY Powers
  <2> QED BY <1>1, <2>1, DivTwice
<1> QED BY <1>3, <1>4, <1>5 DEF Digit

(* Two values with the same digits are the same. *)
LEMMA DigitsDetermine ==
  ASSUME NEW size \in Nat, NEW v \in 0..(Power[size] - 1), NEW w \in 0..(Power[size] - 1),
         \A k \in 0..(size - 1) : Digit(v, k) = Digit(w, k)
  PROVE  v = w
<1> DEFINE Same(m) == \A x, y \in 0..(Power[m] - 1) :
                        (\A k \in 0..(m - 1) : Digit(x, k) = Digit(y, k)) => x = y
           T == {m \in 0..size : Same(m)}
<1>1. 0 \in T
  BY Powers
<1>2. ASSUME NEW m \in 0..(size - 1), m \in T PROVE m + 1 \in T
  <2> SUFFICES ASSUME NEW x \in 0..(Power[m + 1] - 1), NEW y \in 0..(Power[m + 1] - 1),
                      \A k \in 0..m : Digit(x, k) = Digit(y, k)
               PROVE  x = y
    <3>1. (m + 1) - 1 = m /\ m + 1 \in 0..size
      OBVIOUS
    <3> QED BY <3>1
  <2>1. PICK p \in Nat : p = Power[m] /\ p > 0 /\ Power[m + 1] = Base * p
    BY Powers
  <2>2. Base \in Nat /\ Base > 0
    BY UtilAssumption
  <2>3. x \in Nat /\ y \in Nat /\ x < Base * p /\ y < Base * p
    BY <2>1, <2>2
  <2>4. x \div Base \in 0..(p - 1) /\ y \div Base \in 0..(p - 1)
    BY <2>1, <2>2, <2>3
  <2>5. \A k \in 0..(m - 1) : Digit(x \div Base, k) = Digit(y \div Base, k)
    <3> SUFFICES ASSUME NEW k \in 0..(m - 1)
                 PROVE  Digit(x \div Base, k) = Digit(y \div Base, k)
      OBVIOUS
    <3>1. k \in Nat /\ k + 1 \in 0..m
      OBVIOUS
    <3>2. Digit(x, k + 1) = Digit(x \div Base, k) /\ Digit(y, k + 1) = Digit(y \div Base, k)
      BY <2>3, <3>1, Digits
    <3> QED BY <3>1, <3>2
  <2>6. x \div Base = y \div Base
    BY <1>2, <2>1, <2>4, <2>5
  <2>7. x % Base = y % Base
    <3>1. 0 \in 0..m /\ 0 \in Nat
      OBVIOUS
    <3>2. Digit(x, 0) = x % Base /\ Digit(y, 0) = y % Base
      BY <2>3, <3>1, Digits
    <3> QED BY <3>1, <3>2
  <2>8. x = Base * (x \div Base) + (x % Base) /\ y = Base * (y \div Base) + (y % Base)
    BY <2>2, <2>3, DivMod
  <2>9. PICK q, r : q = x \div Base /\ r = x % Base
    OBVIOUS
  <2>10. x = Base * q + r /\ y = Base * q + r
    BY <2>6, <2>7, <2>8, <2>9
  <2> QED BY <2>10
<1>3. \A m \in 0..size : m \in T
  <2> HIDE DEF T
  <2> QED BY <1>1, <1>2, Induction
<1>4. Same(size)
  BY <1>3
<1> QED BY <1>4

(* The first bytes are the digits of a number, the highest one first. *)
NumberOf(u, bytes, m) ==
  u \in 0..(Power[m] - 1) /\ \A k \in 0..(m - 1) : Digit(u, k) = bytes[m - 1 - k]

(* The number with its sign, which is that of the first byte. *)
WithSign(u, bytes, m) == IF 2 * bytes[0] >= Base THEN u - Power[m] ELSE u

(* Shifting a byte in makes it the lowest digit. *)
LEMMA NumberGrows ==
  ASSUME NEW m \in Nat, NEW bytes, NEW u, NumberOf(u, bytes, m), bytes[m] \in Byte
  PROVE  /\ NumberOf(u * Base + bytes[m], bytes, m + 1)
         /\ WithSign(u * Base + bytes[m], bytes, m + 1)
              = WithSign(u, bytes, m) * Base + bytes[m]
<1>1. PICK p \in Nat : p = Power[m] /\ p > 0 /\ Power[m + 1] = Base * p
  BY Powers
<1>2. Base \in Nat /\ Base > 0
  BY UtilAssumption
<1>3. PICK d \in Nat : d = bytes[m] /\ d < Base
  BY <1>2 DEF Byte
<1>4. u \in Nat /\ u < p
  BY <1>1 DEF NumberOf
<1>5. PICK w : w = u * Base + d
  OBVIOUS
<1>6. w \in Nat /\ w = Base * u + d
  BY <1>2, <1>4, <1>5
<1>7. w \in 0..(Base * p - 1)
  <2>1. u + 1 <= p
    BY <1>4
  <2>2. Base * (u + 1) <= Base * p /\ Base * (u + 1) = Base * u + Base
    BY <1>2, <1>4, <2>1
  <2>3. Base * u \in Nat /\ Base * p \in Nat
    BY <1>2, <1>4
  <2> QED BY <1>2, <1>3, <1>6, <2>2, <2>3
<1>8. w \div Base = u /\ w % Base = d
  <2>1. /\ w \in Int /\ Base \in Int /\ u \in Int /\ d \in Int
        /\ d < Base /\ d >= 0 /\ Base > 0 /\ w = Base * u + d
    BY <1>2, <1>3, <1>4, <1>6
  <2> QED BY <2>1, DivModIs, Zenon
<1>9. ASSUME NEW k \in 0..m PROVE Digit(w, k) = bytes[m - k]
  <2>1. CASE k = 0
    BY <1>3, <1>6, <1>8, <2>1, Digits
  <2>2. CASE k # 0
    <3>1. PICK j : j = k - 1
      OBVIOUS
    <3>2. j \in Nat /\ j \in 0..(m - 1) /\ j + 1 = k /\ m - 1 - j = m - k
      BY <2>2, <3>1
    <3>3. Digit(w, j + 1) = Digit(u, j)
      BY <1>6, <1>8, <3>2, Digits
    <3>4. Digit(u, j) = bytes[m - 1 - j]
      BY <3>2 DEF NumberOf
    <3> QED BY <3>2, <3>3, <3>4
  <2> QED BY <2>1, <2>2
<1>10. NumberOf(w, bytes, m + 1)
  <2>1. (m + 1) - 1 = m
    OBVIOUS
  <2> QED BY <1>1, <1>7, <1>9, <2>1 DEF NumberOf
<1>11. WithSign(w, bytes, m + 1) = WithSign(u, bytes, m) * Base + d
  <2>1. w - Base * p = (u - p) * Base + d
    BY <1>2, <1>4, <1>6
  <2> QED BY <1>1, <1>5, <2>1 DEF WithSign
<1> QED BY <1>3, <1>5, <1>10, <1>11

(* What is shifted out of a type does not come back. *)
LEMMA ShiftTruncated ==
  ASSUME NEW v \in Int, NEW d \in Int, NEW size \in Nat
  PROVE  Truncated(Truncated(v, size) * Base + d, size) = Truncated(v * Base + d, size)
<1>1. PICK p \in Nat : p = Power[size] /\ p > 0
  BY Powers
<1>2. Base \in Nat
  BY UtilAssumption
<1>3. PICK q \in Int, r \in Int : v = p * q + r /\ r = v % p
  <2>1. v = p * (v \div p) + (v % p) /\ v % p \in 0..(p - 1) /\ v \div p \in Int
    BY <1>1, DivMod
  <2>2. v % p \in Int
    BY <1>1, <2>1
  <2> QED BY <2>1, <2>2, Zenon
<1>4. PICK x \in Int : x = r * Base + d
  BY <1>2
<1>5. PICK s \in Int, t \in Int : x = p * s + t /\ t = x % p /\ t >= 0 /\ t < p
  <2>1. x = p * (x \div p) + (x % p) /\ x % p \in 0..(p - 1) /\ x \div p \in Int
    BY <1>1, DivMod
  <2> QED BY <1>1, <2>1
<1>6. v * Base + d = p * (q * Base + s) + t
  <2>1. v * Base = (p * q) * Base + r * Base
    BY <1>1, <1>2, <1>3
  <2>2. (p * q) * Base = p * (q * Base)
    BY <1>1, <1>2, <1>3
  <2>3. p * (q * Base + s) = p * (q * Base) + p * s
    BY <1>1, <1>2, <1>3, <1>5
  <2>4. PICK a, b, c \in Int : a = p * (q * Base) /\ b = r * Base /\ c = p * s
    <3>1. p * (q * Base) \in Int
      BY <1>1, <1>2, <1>3
    <3>2. r * Base \in Int
      BY <1>2, <1>3
    <3>3. p * s \in Int
      BY <1>1, <1>5
    <3> QED BY <3>1, <3>2, <3>3, Zenon
  <2>5. b + d = c + t
    BY <1>4, <1>5, <2>4
  <2> QED BY <1>5, <2>1, <2>2, <2>3, <2>4, <2>5
<1>7. (v * Base + d) % p = t
  <2>1. PICK y, z \in Int : y = v * Base + d /\ z = q * Base + s
    BY <1>2, <1>3, <1>5
  <2>2. y % p = t
    <3>1. /\ y \in Int /\ p \in Int /\ z \in Int /\ t \in Int
          /\ t < p /\ t >= 0 /\ p > 0 /\ y = p * z + t
      BY <1>1, <1>5, <1>6, <2>1
    <3> QED BY <3>1, DivModIs, Zenon
  <2> QED BY <2>1, <2>2
<1> QED BY <1>1, <1>3, <1>4, <1>5, <1>7 DEF Truncated

(* A number of a whole type has lost its sign; in a wider type, it is      *)
(* extended by it.                                                         *)
LEMMA SignTruncated ==
  ASSUME NEW m \in Nat, NEW size \in Nat, m <= size, NEW bytes, NEW u, NumberOf(u, bytes, m)
  PROVE  Truncated(WithSign(u, bytes, m), size)
           = IF 2 * bytes[0] >= Base /\ m # size THEN Power[size] - Power[m] + u
             ELSE u
<1>1. PICK p, q \in Nat : p = Power[m] /\ q = Power[size] /\ p > 0 /\ q > 0
  BY Powers
<1>2. p <= q
  <2>1. size - m \in Nat /\ m + (size - m) = size
    OBVIOUS
  <2> QED BY <1>1, <2>1, PowersGrow
<1>3. u \in Nat /\ u < p
  BY <1>1 DEF NumberOf
<1>4. u % q = u
  <2>1. u = q * 0 + u /\ u < q
    BY <1>1, <1>2, <1>3
  <2> QED BY <1>1, <1>3, <2>1, DivModIs
<1>5. (u - p) % q = q - p + u
  <2>1. PICK v, r \in Int : v = u - p /\ r = q - p + u
    BY <1>1, <1>3
  <2>2. v = q * (-1) + r /\ r >= 0 /\ r < q
    BY <1>1, <1>2, <1>3, <2>1
  <2>3. -1 \in Int
    OBVIOUS
  <2>4. v % q = r
    BY <1>1, <2>1, <2>2, <2>3, DivModIs
  <2> QED BY <2>1, <2>4
<1>6. m = size => q - p + u = u
  BY <1>1, <1>3
<1> QED BY <1>1, <1>4, <1>5, <1>6 DEF Truncated, WithSign

-----------------------------------------------------------------------------
(* The way of a value *)

IsValueCall ==
  /\ call.fn = "setFieldValue"
  /\ call.frame \in Seq(Nat) /\ call.bufferLen \in Nat
  /\ call.size \in 1..(MaxDataBytes - 1) /\ call.readSize \in Nat \ {0}
  /\ call.value \in 0..(Power[call.size] - 1)
  /\ call.switchEndianness \in BOOLEAN

(* The calls of setFieldValue() are of the types they are declared with. *)
LEMMA ValueTyped ==
  ASSUME call \in Calls, call.fn = "setFieldValue"
  PROVE  IsValueCall
<1>1. PICK c \in Calls : c = call
  OBVIOUS
<1>2. /\ c.frame \in Seq(Nat) /\ c.bufferLen \in Nat
      /\ c.size \in 1..(MaxDataBytes - 1) /\ c.readSize \in Nat \ {0}
      /\ c.value \in 0..(Power[c.size] - 1)
      /\ c.switchEndianness \in BOOLEAN
  BY <1>1, UtilAssumption, Zenon
<1> QED BY <1>1, <1>2 DEF IsValueCall

(* What setFieldValue() makes of the value, what is sent, and what is got. *)
Data == [k \in 1..call.size |-> Digit(call.value, call.size - k)]

Sent == insertFieldToBuffer(Zeros(call.bufferLen), call.frame, call.field, Data)

Got == extractFieldFromBuffer(Sent, call.bufferLen, call.frame, call.field,
                              [k \in 1..MaxDataBytes |-> 0], MaxDataBytes)

(* How many of the first p places are the field's. *)
PlacesTo(p) == Rank(call.frame, call.field, p)

(* The next place is the field's or another one's. *)
LEMMA PlacesToNext ==
  ASSUME NEW p \in Nat
  PROVE  /\ PlacesTo(p) \in Nat /\ PlacesTo(0) = 0
         /\ call.frame[p + 1] = call.field => PlacesTo(p + 1) = PlacesTo(p) + 1
         /\ call.frame[p + 1] # call.field => PlacesTo(p + 1) = PlacesTo(p)
<1>1. PICK frame, field : frame = call.frame /\ field = call.field
  OBVIOUS
<1>2. /\ Rank(frame, field, p) \in Nat /\ Rank(frame, field, 0) = 0
      /\ Rank(frame, field, p + 1)
           = Rank(frame, field, p) + (IF frame[p + 1] = field THEN 1 ELSE 0)
  BY RankSteps
<1> QED BY <1>1, <1>2 DEF PlacesTo

(* The data are the bytes of the value. *)
LEMMA DataIs ==
  ASSUME IsValueCall
  PROVE  /\ call.size \in Nat /\ call.size > 0 /\ Len(Data) = call.size
         /\ \A k \in 1..call.size : /\ Data[k] = Digit(call.value, call.size - k)
                                    /\ Data[k] \in Byte
<1>1. call.size \in Nat /\ call.size > 0 /\ MaxDataBytes \in Nat
  BY UtilAssumption DEF IsValueCall
<1>2. Power[call.size] \in Nat
  BY <1>1, Powers
<1>3. call.value \in Nat
  BY <1>2 DEF IsValueCall
<1>4. Len(Data) = call.size
  BY <1>1 DEF Data
<1>5. ASSUME NEW k \in 1..call.size
      PROVE  Data[k] = Digit(call.value, call.size - k) /\ Data[k] \in Byte
  <2>1. Data[k] = Digit(call.value, call.size - k)
    BY DEF Data
  <2>2. call.size - k \in Nat
    BY <1>1
  <2> QED BY <1>3, <2>1, <2>2, Digits
<1> QED BY <1>1, <1>4, <1>5

(* The k-th byte is sent at the k-th place of the field, and zeros         *)
(* elsewhere.                                                              *)
LEMMA SentIs ==
  ASSUME IsValueCall
  PROVE  /\ Sent = [a \in 0..(call.bufferLen - 1) |-> Sent[a]]
         /\ \A a \in 0..(call.bufferLen - 1) :
              /\ Sent[a] = IF /\ a < Len(call.frame) /\ call.frame[a + 1] = call.field
                              /\ PlacesTo(a + 1) <= call.size
                           THEN Data[PlacesTo(a + 1)] ELSE 0
              /\ Sent[a] \in Byte
<1>1. call.frame \in Seq(Nat) /\ Len(call.frame) \in Nat /\ call.bufferLen \in Nat
  BY DEF IsValueCall
<1>2. call.size \in Nat /\ Len(Data) = call.size
  BY DataIs
<1>3. PICK dst : dst = Zeros(call.bufferLen)
  OBVIOUS
<1>4. DOMAIN dst = 0..(call.bufferLen - 1) /\ \A a \in 0..(call.bufferLen - 1) : dst[a] = 0
  BY <1>3 DEF Zeros
<1>5. Sent = [a \in DOMAIN dst |->
                IF /\ a + 1 \in 1..Len(call.frame) /\ call.frame[a + 1] = call.field
                   /\ PlacesTo(a + 1) <= Len(Data)
                THEN Data[PlacesTo(a + 1)]
                ELSE dst[a]]
  BY <1>1, <1>2, <1>3, InsertIs DEF Sent, PlacesTo
<1>6. ASSUME NEW a \in 0..(call.bufferLen - 1)
      PROVE  /\ Sent[a] = IF /\ a < Len(call.frame) /\ call.frame[a + 1] = call.field
                             /\ PlacesTo(a + 1) <= call.size
                          THEN Data[PlacesTo(a + 1)] ELSE 0
             /\ Sent[a] \in Byte
  <2>1. a + 1 \in 1..Len(call.frame) <=> a < Len(call.frame)
    BY <1>1
  <2>2. Sent[a] = IF /\ a < Len(call.frame) /\ call.frame[a + 1] = call.field
                     /\ PlacesTo(a + 1) <= call.size
                  THEN Data[PlacesTo(a + 1)] ELSE 0
    BY <1>2, <1>4, <1>5, <2>1
  <2>3. ASSUME a < Len(call.frame), call.frame[a + 1] = call.field,
               PlacesTo(a + 1) <= call.size
        PROVE  Data[PlacesTo(a + 1)] \in Byte
    <3>1. a \in Nat /\ PlacesTo(a) \in Nat /\ PlacesTo(a + 1) = PlacesTo(a) + 1
      BY <1>1, <2>3, PlacesToNext
    <3>2. PlacesTo(a + 1) \in 1..call.size
      BY <1>2, <2>3, <3>1
    <3> QED BY <3>2, DataIs
  <2>4. 0 \in Byte
    BY UtilAssumption DEF Byte
  <2> QED BY <2>2, <2>3, <2>4
<1>7. Sent = [a \in 0..(call.bufferLen - 1) |-> Sent[a]]
  BY <1>4, <1>5
<1> QED BY <1>6, <1>7

(* What is got are the bytes sent at the places of the field; if the whole *)
(* frame was sent, it is the data and zeros behind it.                     *)
LEMMA GotIs ==
  ASSUME IsValueCall
  PROVE  /\ Len(Got) = IF PlacesTo(Len(call.frame)) < MaxDataBytes
                       THEN PlacesTo(Len(call.frame)) ELSE MaxDataBytes
         /\ PlacesTo(Len(call.frame)) \in Nat /\ Len(Got) \in Nat
         /\ \A p \in 1..Len(call.frame) :
              call.frame[p] = call.field /\ PlacesTo(p) <= Len(Got) =>
                Got[PlacesTo(p)] = IF p - 1 < call.bufferLen THEN Sent[p - 1] ELSE 0
         /\ \A k \in 1..Len(Got) : Got[k] \in Byte
         /\ Len(call.frame) <= call.bufferLen =>
              \A k \in 1..Len(Got) : Got[k] = IF k <= call.size THEN Data[k] ELSE 0
<1>1. /\ call.frame \in Seq(Nat) /\ Len(call.frame) \in Nat /\ call.bufferLen \in Nat
      /\ MaxDataBytes \in Nat
  BY UtilAssumption DEF IsValueCall
<1>2. PICK dst : dst = [k \in 1..MaxDataBytes |-> 0]
  OBVIOUS
<1>3. /\ Len(Got) = IF PlacesTo(Len(call.frame)) < MaxDataBytes
                    THEN PlacesTo(Len(call.frame)) ELSE MaxDataBytes
      /\ \A k \in 1..Len(Got) : \E p \in 1..Len(call.frame) :
           /\ call.frame[p] = call.field /\ PlacesTo(p) = k
           /\ Got[k] = IF p - 1 < call.bufferLen THEN Sent[p - 1] ELSE dst[k]
      /\ \A p \in 1..Len(call.frame) :
           call.frame[p] = call.field /\ PlacesTo(p) <= Len(Got) =>
             Got[PlacesTo(p)] = IF p - 1 < call.bufferLen THEN Sent[p - 1] ELSE dst[PlacesTo(p)]
  <2>1. PICK frame, field : frame = call.frame /\ field = call.field
    OBVIOUS
  <2>2. IsExtracted(extractFieldFromBuffer(Sent, call.bufferLen, frame, field, dst, MaxDataBytes),
                    Sent, call.bufferLen, frame, field, dst, MaxDataBytes)
    BY <1>1, <2>1, ExtractIs
  <2>3. Got = extractFieldFromBuffer(Sent, call.bufferLen, frame, field, dst, MaxDataBytes)
    BY <1>2, <2>1 DEF Got
  <2>4. IsExtracted(Got, Sent, call.bufferLen, frame, field, dst, MaxDataBytes)
    BY <2>2, <2>3
  <2> QED BY <2>1, <2>4 DEF IsExtracted, PlacesTo
<1>4. PlacesTo(Len(call.frame)) \in Nat /\ Len(Got) \in Nat /\ Len(Got) <= MaxDataBytes
  <2>1. PlacesTo(Len(call.frame)) \in Nat
    BY <1>1, PlacesToNext
  <2> QED BY <1>1, <1>3, <2>1
<1>5. \A k \in 1..Len(Got) : dst[k] = 0
  BY <1>1, <1>2, <1>4
<1>6. ASSUME NEW p \in 1..Len(call.frame), call.frame[p] = call.field,
             PlacesTo(p) <= Len(Got)
      PROVE  Got[PlacesTo(p)] = IF p - 1 < call.bufferLen THEN Sent[p - 1] ELSE 0
  <2>1. p \in Nat \ {0} /\ p - 1 \in Nat /\ (p - 1) + 1 = p
    BY <1>1
  <2>2. PlacesTo(p - 1) \in Nat /\ PlacesTo(p) = PlacesTo(p - 1) + 1
    BY <1>6, <2>1, PlacesToNext
  <2>3. PlacesTo(p) \in 1..Len(Got)
    BY <1>4, <1>6, <2>2
  <2> QED BY <1>3, <1>5, <1>6, <2>3
<1>7. 0 \in Byte
  BY UtilAssumption DEF Byte
<1>8. ASSUME NEW k \in 1..Len(Got)
      PROVE  /\ Got[k] \in Byte
             /\ Len(call.frame) <= call.bufferLen =>
                  Got[k] = IF k <= call.size THEN Data[k] ELSE 0
  <2>1. PICK p \in 1..Len(call.frame) :
          /\ call.frame[p] = call.field /\ PlacesTo(p) = k
          /\ Got[k] = IF p - 1 < call.bufferLen THEN Sent[p - 1] ELSE 0
    BY <1>3, <1>5
  <2>2. p - 1 \in Nat /\ (p - 1) + 1 = p /\ p - 1 < Len(call.frame)
    BY <1>1
  <2>3. ASSUME p - 1 < call.bufferLen
        PROVE  Sent[p - 1] \in Byte /\ Sent[p - 1] = IF k <= call.size THEN Data[k] ELSE 0
    <3>1. p - 1 \in 0..(call.bufferLen - 1)
      BY <1>1, <2>2, <2>3
    <3> QED BY <2>1, <2>2, <3>1, SentIs
  <2>4. Len(call.frame) <= call.bufferLen => p - 1 < call.bufferLen
    BY <1>1, <2>2
  <2> QED BY <1>7, <2>1, <2>3, <2>4
<1> QED BY <1>3, <1>4, <1>6, <1>8

(* setFieldValue(): the last bytes are those of the data, and val is what  *)
(* is left of the value.                                                   *)
Converted ==
  /\ i \in -1..(call.size - 1) /\ n = call.size - 1 - i
  /\ val = call.value \div Power[n]
  /\ DOMAIN mem = 0..(MaxDataBytes - 1)
  /\ \A k \in 0..(MaxDataBytes - 1) :
       mem[k] = IF k > i /\ k < call.size THEN Data[k + 1] ELSE 0

Fits(p) == IF p < call.bufferLen THEN p ELSE call.bufferLen

(* insertFieldToBuffer(): the message holds what is sent at its first p    *)
(* places.                                                                 *)
Inserted(p) ==
  /\ n = PlacesTo(Fits(p)) /\ n <= call.size
  /\ mem = [a \in 0..(call.bufferLen - 1) |-> mem[a]]
  /\ \A a \in 0..(call.bufferLen - 1) : mem[a] = IF a < p THEN Sent[a] ELSE 0

(* Numbers of a call of setFieldValue(). *)
LEMMA ValueNumbers ==
  ASSUME IsValueCall
  PROVE  /\ call.frame \in Seq(Nat) /\ Len(call.frame) \in Nat /\ call.bufferLen \in Nat
         /\ call.size \in Nat /\ call.size > 0 /\ call.size < MaxDataBytes
         /\ MaxDataBytes \in Nat /\ call.readSize \in Nat /\ call.readSize > 0
         /\ call.value \in Nat /\ call.switchEndianness \in BOOLEAN
         /\ Base \in Nat /\ Base > 0 /\ 0 \in Byte
<1>1. MaxDataBytes \in Nat /\ Base \in Nat /\ Base > 0
  BY UtilAssumption
<1>2. call.size \in Nat /\ call.size > 0 /\ call.size < MaxDataBytes
  BY <1>1 DEF IsValueCall
<1>3. Power[call.size] \in Nat
  BY <1>2, Powers
<1>4. call.value \in Nat
  BY <1>3 DEF IsValueCall
<1>5. 0 \in Byte
  BY <1>1 DEF Byte
<1> QED BY <1>1, <1>2, <1>4, <1>5 DEF IsValueCall

(* Nothing is converted at first. *)
LEMMA ConvertedInit ==
  ASSUME Init, IsValueCall
  PROVE  fn = "setFieldValue" /\ Converted
<1>1. /\ fn = "setFieldValue" /\ i = call.size - 1 /\ n = 0
      /\ mem = Zeros(MaxDataBytes) /\ val = call.value
  BY DEF Init, IsValueCall
<1>2. i \in -1..(call.size - 1) /\ n = call.size - 1 - i
  BY <1>1, ValueNumbers
<1>3. val = call.value \div Power[n]
  <2>1. call.value \in Nat /\ \A v \in Nat : v \div 1 = v
    BY ValueNumbers
  <2> QED BY <1>1, <2>1, Powers
<1>4. /\ DOMAIN mem = 0..(MaxDataBytes - 1)
      /\ \A k \in 0..(MaxDataBytes - 1) : mem[k] = 0
  BY <1>1 DEF Zeros
<1>5. \A k \in 0..(MaxDataBytes - 1) : ~(k > i /\ k < call.size)
  BY <1>1, ValueNumbers
<1> QED BY <1>1, <1>2, <1>3, <1>4, <1>5 DEF Converted

(* The low byte of what is left is the next byte from the end. *)
LEMMA ConvertedNext ==
  ASSUME IsValueCall, Converted, i >= 0, call' = call,
         mem' = [mem EXCEPT ![i] = LowByte(val)], n' = n + 1, val' = val \div Base, i' = i - 1
  PROVE  Converted'
<1>1. /\ i \in Nat /\ i < call.size /\ n \in Nat /\ call.size - (i + 1) = n
      /\ i' \in -1..(call.size - 1) /\ n' = call.size - 1 - i'
  <2>1. i \in -1..(call.size - 1) /\ n = call.size - 1 - i
    BY DEF Converted
  <2>2. call.size \in Nat
    BY ValueNumbers
  <2> QED BY <2>1, <2>2
<1>2. PICK p \in Nat : p = Power[n] /\ p > 0 /\ Power[n + 1] = Base * p
  BY <1>1, Powers
<1>3. val = call.value \div p /\ val \in Nat
  <2>1. val = call.value \div p
    BY <1>2 DEF Converted
  <2>2. call.value \in Nat
    BY ValueNumbers
  <2> QED BY <1>2, <2>1, <2>2, DivMod
<1>4. val' = call.value \div Power[n']
  <2>1. (call.value \div p) \div Base = call.value \div (p * Base)
    <3>1. call.value \in Nat /\ Base \in Nat /\ Base > 0
      BY ValueNumbers
    <3> QED BY <1>2, <3>1, DivTwice
  <2>2. p * Base = Base * p
    BY <1>2, ValueNumbers
  <2> QED BY <1>2, <1>3, <2>1, <2>2
<1>5. LowByte(val) = Data[i + 1]
  <2>1. i + 1 \in 1..call.size
    BY <1>1, ValueNumbers
  <2>2. Data[i + 1] = Digit(call.value, n)
    BY <1>1, <2>1, DataIs
  <2> QED BY <1>2, <1>3, <2>2 DEF Digit, LowByte
<1>6. /\ DOMAIN mem = 0..(MaxDataBytes - 1) /\ i \in 0..(MaxDataBytes - 1)
      /\ \A k \in 0..(MaxDataBytes - 1) :
           mem[k] = IF k > i /\ k < call.size THEN Data[k + 1] ELSE 0
  BY <1>1, ValueNumbers DEF Converted
<1>7. DOMAIN mem' = 0..(MaxDataBytes - 1)
  BY <1>6
<1>8. ASSUME NEW k \in 0..(MaxDataBytes - 1)
      PROVE  mem'[k] = IF k > i - 1 /\ k < call.size THEN Data[k + 1] ELSE 0
  <2>1. CASE k = i
    <3>1. mem'[k] = Data[k + 1]
      BY <1>5, <1>6, <2>1
    <3>2. k > i - 1 /\ k < call.size
      BY <1>1, <2>1
    <3> QED BY <3>1, <3>2
  <2>2. CASE k # i
    <3>1. mem'[k] = mem[k]
      BY <1>6, <2>2
    <3>2. k > i <=> k > i - 1
      BY <1>1, <2>2, ValueNumbers
    <3> QED BY <1>6, <3>1, <3>2
  <2> QED BY <2>1, <2>2
<1>9. \A k \in 0..(MaxDataBytes - 1) :
        mem'[k] = IF k > i' /\ k < call.size THEN Data[k + 1] ELSE 0
  BY <1>8
<1> QED BY <1>1, <1>4, <1>7, <1>9 DEF Converted, Data

(* The data that is set is all of the value, and no place of the message   *)
(* is filled yet.                                                          *)
LEMMA InsertedInit ==
  ASSUME IsValueCall, Converted, i < 0, call' = call,
         n' = 0, src' = [k \in 0..(n - 1) |-> mem[k]], mem' = Zeros(call.bufferLen)
  PROVE  Inserted(0)' /\ src' = [k \in 0..(call.size - 1) |-> Data[k + 1]]
<1>1. i = -1 /\ n = call.size
  BY ValueNumbers DEF Converted
<1>2. \A k \in 0..(call.size - 1) : mem[k] = Data[k + 1]
  <2>1. \A k \in 0..(call.size - 1) : k \in 0..(MaxDataBytes - 1) /\ k > i /\ k < call.size
    BY <1>1, ValueNumbers
  <2> QED BY <2>1 DEF Converted
<1>3. src' = [k \in 0..(call.size - 1) |-> Data[k + 1]]
  BY <1>1, <1>2
<1>4. Fits(0) = 0
  BY ValueNumbers DEF Fits
<1>5. PlacesTo(0) = 0
  BY PlacesToNext
<1>6. /\ mem' = [a \in 0..(call.bufferLen - 1) |-> mem'[a]]
      /\ \A a \in 0..(call.bufferLen - 1) : mem'[a] = 0 /\ ~(a < 0)
  BY ValueNumbers DEF Zeros
<1>7. n' = PlacesTo(Fits(0)) /\ n' <= call.size
  BY <1>4, <1>5, ValueNumbers
<1> QED BY <1>3, <1>6, <1>7 DEF Inserted, Fits, PlacesTo, Sent, Data

(* find() goes past places where nothing is to be sent. *)
LEMMA InsertedToFound ==
  ASSUME IsValueCall, i \in 0..Len(call.frame), Inserted(i)
  PROVE  Inserted(Found(call.frame, call.field))
<1>1. PICK q : q = Found(call.frame, call.field)
  OBVIOUS
<1>2. /\ i \in Nat /\ q \in Nat /\ i <= q /\ q <= Len(call.frame)
      /\ \A p \in (i + 1)..q : call.frame[p] # call.field
  <2>1. /\ q \in i..Len(call.frame)
        /\ \A p \in (i + 1)..q : call.frame[p] # call.field
    BY <1>1, ValueNumbers, FoundIs
  <2> QED BY <2>1, ValueNumbers
<1>3. PlacesTo(Fits(q)) = PlacesTo(Fits(i))
  <2>1. /\ Fits(i) \in Nat /\ Fits(q) \in Nat /\ Fits(i) <= Fits(q)
        /\ \A p \in (Fits(i) + 1)..Fits(q) : p \in (i + 1)..q
    BY <1>2, ValueNumbers DEF Fits
  <2>2. \A p \in (Fits(i) + 1)..Fits(q) : call.frame[p] # call.field
    BY <1>2, <2>1
  <2>3. PICK a \in Nat, b \in Nat : a = Fits(i) /\ b = Fits(q)
    BY <2>1
  <2> QED BY <2>1, <2>2, <2>3, RankStays DEF PlacesTo
<1>4. ASSUME NEW a \in 0..(call.bufferLen - 1)
      PROVE  mem[a] = IF a < q THEN Sent[a] ELSE 0
  <2>1. mem[a] = IF a < i THEN Sent[a] ELSE 0
    BY DEF Inserted
  <2>2. CASE a < i
    BY <1>2, <2>1, <2>2, ValueNumbers
  <2>3. CASE ~(a < i) /\ a < q
    <3>1. a + 1 \in (i + 1)..q
      BY <1>2, <2>3, ValueNumbers
    <3>2. Sent[a] = 0
      BY <1>2, <3>1, SentIs
    <3> QED BY <2>1, <2>3, <3>2
  <2>4. CASE ~(a < q)
    <3>1. ~(a < i)
      BY <1>2, <2>4, ValueNumbers
    <3> QED BY <2>1, <2>4, <3>1
  <2> QED BY <2>2, <2>3, <2>4
<1> QED BY <1>1, <1>3, <1>4 DEF Inserted

(* A place of the field gets the next byte, if it is in the message. *)
LEMMA InsertedNext ==
  ASSUME IsValueCall, NEW q \in 0..(Len(call.frame) - 1), Inserted(q),
         call.frame[q + 1] = call.field, n < call.size, call' = call,
         src = [k \in 0..(call.size - 1) |-> Data[k + 1]],
         mem' = IF q < call.bufferLen THEN [mem EXCEPT ![q] = src[n]] ELSE mem,
         n' = IF q < call.bufferLen THEN n + 1 ELSE n
  PROVE  Inserted(q + 1)'
<1>1. q \in Nat /\ call.bufferLen \in Nat /\ call.size \in Nat
  BY ValueNumbers
<1>2. /\ n = PlacesTo(Fits(q)) /\ mem = [a \in 0..(call.bufferLen - 1) |-> mem[a]]
      /\ DOMAIN mem = 0..(call.bufferLen - 1)
      /\ \A a \in 0..(call.bufferLen - 1) : mem[a] = IF a < q THEN Sent[a] ELSE 0
  BY DEF Inserted
<1>3. /\ n' = PlacesTo(Fits(q + 1)) /\ n' <= call.size
      /\ mem' = [a \in 0..(call.bufferLen - 1) |-> mem'[a]]
      /\ \A a \in 0..(call.bufferLen - 1) : mem'[a] = IF a < q + 1 THEN Sent[a] ELSE 0
  <2>1. CASE q < call.bufferLen
    <3>1. Fits(q) = q /\ Fits(q + 1) = q + 1 /\ q \in 0..(call.bufferLen - 1)
      BY <1>1, <2>1 DEF Fits
    <3>2. n = PlacesTo(q) /\ n \in Nat /\ PlacesTo(q + 1) = n + 1
      BY <1>1, <1>2, <3>1, PlacesToNext
    <3>3. n + 1 <= call.size /\ n \in 0..(call.size - 1)
      BY <1>1, <3>2
    <3>4. src[n] = Data[n + 1]
      BY <3>3
    <3>5. q < Len(call.frame)
      BY <1>1, ValueNumbers
    <3>6. Sent[q] = Data[n + 1]
      BY <3>1, <3>2, <3>3, <3>5, SentIs
    <3>7. mem' = [mem EXCEPT ![q] = Sent[q]] /\ n' = n + 1
      BY <2>1, <3>4, <3>6
    <3>8. ASSUME NEW a \in 0..(call.bufferLen - 1)
          PROVE  mem'[a] = IF a < q + 1 THEN Sent[a] ELSE 0
      <4>1. CASE a = q
        <5>1. mem'[a] = Sent[a] /\ a < q + 1
          BY <1>1, <1>2, <3>7, <4>1
        <5> QED BY <5>1
      <4>2. CASE a # q
        <5>1. mem'[a] = mem[a]
          BY <1>2, <3>7, <4>2
        <5>2. a < q <=> a < q + 1
          BY <1>1, <4>2
        <5> QED BY <1>2, <5>1, <5>2
      <4> QED BY <4>1, <4>2
    <3>9. mem' = [a \in 0..(call.bufferLen - 1) |-> mem'[a]]
      BY <1>2, <3>7
    <3> QED BY <3>1, <3>2, <3>3, <3>7, <3>8, <3>9
  <2>2. CASE ~(q < call.bufferLen)
    <3>1. Fits(q) = Fits(q + 1) /\ mem' = mem /\ n' = n
      BY <1>1, <2>2 DEF Fits
    <3>2. \A a \in 0..(call.bufferLen - 1) : a < q /\ a < q + 1
      BY <1>1, <2>2
    <3>3. n <= call.size
      BY DEF Inserted
    <3> QED BY <1>2, <3>1, <3>2, <3>3
  <2> QED BY <2>1, <2>2
<1> QED BY <1>3 DEF Inserted, Fits, PlacesTo, Sent, Data

(* When the frame or the data ends, the message is what is sent: places    *)
(* that are left get nothing.                                              *)
LEMMA InsertedAll ==
  ASSUME IsValueCall, NEW q \in 0..Len(call.frame), Inserted(q),
         q = Len(call.frame) \/ n >= call.size
  PROVE  mem = Sent
<1>1. q \in Nat /\ call.bufferLen \in Nat /\ call.size \in Nat /\ Len(call.frame) \in Nat
  BY ValueNumbers
<1>2. /\ n = PlacesTo(Fits(q)) /\ mem = [a \in 0..(call.bufferLen - 1) |-> mem[a]]
      /\ \A a \in 0..(call.bufferLen - 1) : mem[a] = IF a < q THEN Sent[a] ELSE 0
  BY DEF Inserted
<1>3. ASSUME NEW a \in 0..(call.bufferLen - 1) PROVE mem[a] = Sent[a]
  <2>1. CASE a < q
    BY <1>2, <2>1
  <2>2. CASE ~(a < q)
    <3>1. mem[a] = 0
      BY <1>2, <2>2
    <3>2. SUFFICES ASSUME a < Len(call.frame), call.frame[a + 1] = call.field
                   PROVE  ~(PlacesTo(a + 1) <= call.size)
      BY <3>1, SentIs
    <3>3. n >= call.size /\ q < call.bufferLen /\ a \in Nat
      BY <1>1, <2>2, <3>2
    <3>4. Fits(q) = q
      BY <3>3 DEF Fits
    <3>5. PlacesTo(q) \in Nat /\ PlacesTo(q) >= call.size
      BY <1>1, <1>2, <3>3, <3>4, PlacesToNext
    <3>6. PlacesTo(q) <= PlacesTo(a)
      <4>1. q \in 0..a
        BY <1>1, <2>2, <3>3
      <4> QED BY <3>3, <4>1, RankSteps DEF PlacesTo
    <3>7. PlacesTo(a) \in Nat /\ PlacesTo(a + 1) = PlacesTo(a) + 1
      BY <3>2, <3>3, PlacesToNext
    <3> QED BY <1>1, <3>5, <3>6, <3>7
  <2> QED BY <2>1, <2>2
<1>4. Sent = [a \in 0..(call.bufferLen - 1) |-> Sent[a]]
  BY SentIs
<1> QED BY <1>2, <1>3, <1>4

(* extractFieldFromBuffer(): the bytes at the first p places have been     *)
(* taken out.                                                              *)
Extracted(p) ==
  /\ n = PlacesTo(p) /\ n <= MaxDataBytes
  /\ DOMAIN mem = 0..(MaxDataBytes - 1)
  /\ \A k \in 0..(MaxDataBytes - 1) : mem[k] = IF k < n THEN Got[k + 1] ELSE 0

(* Nothing is taken out at first. *)
LEMMA ExtractedInit ==
  ASSUME IsValueCall, call' = call, n' = 0, mem' = Zeros(MaxDataBytes)
  PROVE  Extracted(0)'
<1>1. PlacesTo(0) = 0
  BY PlacesToNext
<1>2. /\ DOMAIN mem' = 0..(MaxDataBytes - 1)
      /\ \A k \in 0..(MaxDataBytes - 1) : mem'[k] = 0 /\ ~(k < 0)
  BY ValueNumbers DEF Zeros
<1>3. n' = PlacesTo(0) /\ n' <= MaxDataBytes
  BY <1>1, ValueNumbers
<1> QED BY <1>2, <1>3 DEF Extracted, PlacesTo

(* find() goes past places of other fields. *)
LEMMA ExtractedToFound ==
  ASSUME IsValueCall, i \in 0..Len(call.frame), Extracted(i)
  PROVE  Extracted(Found(call.frame, call.field))
<1>1. PICK q : q = Found(call.frame, call.field)
  OBVIOUS
<1>2. /\ i \in Nat /\ q \in Nat /\ i <= q
      /\ \A p \in (i + 1)..q : call.frame[p] # call.field
  <2>1. /\ q \in i..Len(call.frame)
        /\ \A p \in (i + 1)..q : call.frame[p] # call.field
    BY <1>1, ValueNumbers, FoundIs
  <2> QED BY <2>1, ValueNumbers
<1>3. PlacesTo(q) = PlacesTo(i)
  BY <1>2, RankStays DEF PlacesTo
<1> QED BY <1>1, <1>3 DEF Extracted

(* The byte at the next place is the next one; behind the message there    *)
(* is none, and the zero that was there stays.                             *)
LEMMA ExtractedNext ==
  ASSUME IsValueCall, NEW q \in 0..(Len(call.frame) - 1), Extracted(q),
         call.frame[q + 1] = call.field, n < MaxDataBytes, call' = call, src = Sent,
         mem' = [mem EXCEPT ![n] = IF q < call.bufferLen THEN src[q] ELSE @], n' = n + 1
  PROVE  Extracted(q + 1)'
<1>1. q \in Nat /\ Len(call.frame) \in Nat /\ MaxDataBytes \in Nat /\ q + 1 \in 1..Len(call.frame)
  BY ValueNumbers
<1>2. n = PlacesTo(q) /\ n \in Nat /\ PlacesTo(q + 1) = n + 1
  BY <1>1, PlacesToNext DEF Extracted
<1>3. n + 1 <= Len(Got) /\ n + 1 <= MaxDataBytes
  <2>1. PlacesTo(q + 1) <= PlacesTo(Len(call.frame))
    <3>1. q + 1 \in 0..Len(call.frame)
      BY <1>1
    <3> QED BY <1>1, <3>1, RankSteps DEF PlacesTo
  <2>2. PlacesTo(Len(call.frame)) \in Nat
    BY <1>1, PlacesToNext
  <2> QED BY <1>1, <1>2, <2>1, <2>2, GotIs
<1>4. Got[n + 1] = IF q < call.bufferLen THEN Sent[q] ELSE 0
  <2>1. (q + 1) - 1 = q
    BY <1>1
  <2> QED BY <1>1, <1>2, <1>3, <2>1, GotIs
<1>5. /\ DOMAIN mem = 0..(MaxDataBytes - 1) /\ n \in 0..(MaxDataBytes - 1)
      /\ \A k \in 0..(MaxDataBytes - 1) : mem[k] = IF k < n THEN Got[k + 1] ELSE 0
  BY <1>1, <1>2 DEF Extracted
<1>6. mem' = [mem EXCEPT ![n] = Got[n + 1]]
  <2>1. mem[n] = 0
    BY <1>2, <1>5
  <2> QED BY <1>4, <2>1
<1>7. ASSUME NEW k \in 0..(MaxDataBytes - 1)
      PROVE  mem'[k] = IF k < n + 1 THEN Got[k + 1] ELSE 0
  <2>1. CASE k = n
    <3>1. mem'[k] = Got[k + 1] /\ k < n + 1
      BY <1>2, <1>5, <1>6, <2>1
    <3> QED BY <3>1
  <2>2. CASE k # n
    <3>1. mem'[k] = mem[k]
      BY <1>5, <1>6, <2>2
    <3>2. k < n <=> k < n + 1
      BY <1>2, <2>2
    <3> QED BY <1>5, <3>1, <3>2
  <2> QED BY <2>1, <2>2
<1>8. DOMAIN mem' = 0..(MaxDataBytes - 1)
  BY <1>5, <1>6
<1>9. n' = PlacesTo(q + 1) /\ n' <= MaxDataBytes
  BY <1>2, <1>3
<1>10. \A k \in 0..(MaxDataBytes - 1) : mem'[k] = IF k < n' THEN Got[k + 1] ELSE 0
  BY <1>7
<1> QED BY <1>8, <1>9, <1>10 DEF Extracted, Got, Sent, Data, PlacesTo

(* When the frame ends before the room for data does, all is taken out. *)
LEMMA ExtractedAll ==
  ASSUME IsValueCall, Extracted(Len(call.frame)), n < MaxDataBytes
  PROVE  /\ n = Len(Got) /\ n = PlacesTo(Len(call.frame)) /\ n \in Nat
         /\ \A k \in 0..(n - 1) : k \in DOMAIN mem /\ mem[k] = Got[k + 1]
<1>1. n = PlacesTo(Len(call.frame)) /\ n \in Nat /\ Len(Got) = n /\ MaxDataBytes \in Nat
  BY GotIs, ValueNumbers DEF Extracted
<1>2. \A k \in 0..(n - 1) : k \in 0..(MaxDataBytes - 1) /\ k < n
  BY <1>1
<1> QED BY <1>1, <1>2 DEF Extracted

(* The bytes that are got, in the order in which the receiver reads them. *)
Received(bytes) ==
  /\ n = Len(Got) /\ n = PlacesTo(Len(call.frame))
  /\ \A k \in 0..(n - 1) :
       bytes[k] = IF call.switchEndianness THEN Got[n - k] ELSE Got[k + 1]

(* switchDataEndianness(): the first p bytes are the last ones. *)
Switched(p) ==
  /\ call.switchEndianness
  /\ n = Len(Got) /\ n = PlacesTo(Len(call.frame)) /\ n < MaxDataBytes
  /\ DOMAIN mem = 0..(MaxDataBytes - 1)
  /\ \A k \in 0..(n - 1) : src[k] = Got[k + 1]
  /\ \A k \in 0..(n - 1) : mem[k] = IF k < p THEN src[n - k - 1] ELSE src[k]

(* convertFromCString(): val is the number that the first p bytes are, as  *)
(* far as it fits the type.                                                *)
Read(p) ==
  /\ p \in 0..PlacesToShift
  /\ p > 0 => \E u : NumberOf(u, src, p)
                       /\ val = Truncated(WithSign(u, src, p), call.readSize)

(* No byte is switched at first. *)
LEMMA SwitchedInit ==
  ASSUME IsValueCall, Extracted(Len(call.frame)), n < MaxDataBytes,
         call.switchEndianness, call' = call, n' = n, src' = mem, mem' = mem
  PROVE  Switched(0)'
<1>1. /\ n = Len(Got) /\ n = PlacesTo(Len(call.frame)) /\ n \in Nat
      /\ \A k \in 0..(n - 1) : mem[k] = Got[k + 1] /\ ~(k < 0)
  BY ExtractedAll
<1>2. DOMAIN mem = 0..(MaxDataBytes - 1)
  BY DEF Extracted
<1> QED BY <1>1, <1>2 DEF Switched, Got, Sent, Data, PlacesTo

(* One more byte is the one from the other end. *)
LEMMA SwitchedNext ==
  ASSUME IsValueCall, NEW p \in Nat, p < n, Switched(p), UNCHANGED <<call, n, src>>,
         mem' = [mem EXCEPT ![p] = src[n - p - 1]]
  PROVE  Switched(p + 1)'
<1>1. n \in Nat /\ n < MaxDataBytes /\ MaxDataBytes \in Nat
  BY GotIs, ValueNumbers DEF Switched
<1>2. /\ DOMAIN mem = 0..(MaxDataBytes - 1) /\ p \in 0..(MaxDataBytes - 1)
      /\ \A k \in 0..(n - 1) : mem[k] = IF k < p THEN src[n - k - 1] ELSE src[k]
  <2>1. p \in 0..(MaxDataBytes - 1)
    BY <1>1
  <2> QED BY <2>1 DEF Switched
<1>3. DOMAIN mem' = 0..(MaxDataBytes - 1)
  BY <1>2
<1>4. ASSUME NEW k \in 0..(n - 1)
      PROVE  mem'[k] = IF k < p + 1 THEN src[n - k - 1] ELSE src[k]
  <2>1. CASE k = p
    <3>1. mem'[k] = src[n - k - 1] /\ k < p + 1
      BY <1>2, <2>1
    <3> QED BY <3>1
  <2>2. CASE k # p
    <3>1. mem'[k] = mem[k]
      BY <1>2, <2>2
    <3>2. k < p <=> k < p + 1
      BY <1>1, <2>2
    <3> QED BY <1>2, <3>1, <3>2
  <2> QED BY <2>1, <2>2
<1>5. \A k \in 0..(n - 1) : mem'[k] = IF k < p + 1 THEN src'[n - k - 1] ELSE src'[k]
  BY <1>4
<1> QED BY <1>3, <1>5 DEF Switched, Got, Sent, Data, PlacesTo

(* All are switched: the receiver reads them from the other end. *)
LEMMA ReceivedSwitched ==
  ASSUME IsValueCall, Switched(n)
  PROVE  Received(mem)
<1>1. n \in Nat
  BY GotIs DEF Switched
<1>2. ASSUME NEW k \in 0..(n - 1) PROVE mem[k] = Got[n - k]
  <2>1. n - k - 1 \in 0..(n - 1) /\ (n - k - 1) + 1 = n - k /\ k < n
    BY <1>1
  <2>2. mem[k] = src[n - k - 1]
    BY <2>1 DEF Switched
  <2>3. src[n - k - 1] = Got[(n - k - 1) + 1]
    BY <2>1 DEF Switched
  <2> QED BY <2>1, <2>2, <2>3
<1> QED BY <1>2 DEF Received, Switched

(* What is read are bytes. *)
LEMMA ReceivedBytes ==
  ASSUME IsValueCall, NEW bytes, Received(bytes)
  PROVE  n \in Nat /\ \A k \in 0..(n - 1) : bytes[k] \in Byte
<1>1. n \in Nat
  BY GotIs DEF Received
<1>2. ASSUME NEW k \in 0..(n - 1) PROVE bytes[k] \in Byte
  <2>1. n - k \in 1..Len(Got) /\ k + 1 \in 1..Len(Got)
    BY <1>1 DEF Received
  <2>2. Got[n - k] \in Byte /\ Got[k + 1] \in Byte
    BY <2>1, GotIs
  <2> QED BY <2>2 DEF Received
<1> QED BY <1>1, <1>2

(* The first byte gives the sign. *)
LEMMA ReadFirst ==
  ASSUME IsValueCall, Received(src), n > 0, call' = call, n' = n, src' = src,
         val' = Truncated(Char(src[0]), call.readSize)
  PROVE  Read(1)'
<1>1. n \in Nat /\ src[0] \in Byte
  BY ReceivedBytes
<1>2. PICK u : u = src[0]
  OBVIOUS
<1>3. Base \in Nat /\ Base > 0 /\ u \in 0..(Base - 1)
  BY <1>1, <1>2, ValueNumbers DEF Byte
<1>4. Power[1] = Base
  <2>1. Power[0 + 1] = Base * Power[0] /\ Power[0] = 1
    BY Powers
  <2> QED BY <1>3, <2>1
<1>5. Digit(u, 0) = u
  <2>1. u % Base = u /\ u \in Nat
    BY <1>3
  <2> QED BY <2>1, Digits
<1>6. NumberOf(u, src, 1)
  <2>1. 1 - 1 = 0 /\ 0 - 0 = 0 /\ \A k \in 0..0 : k = 0
    OBVIOUS
  <2>2. \A k \in 0..(1 - 1) : Digit(u, k) = src[1 - 1 - k]
    BY <1>2, <1>5, <2>1
  <2> QED BY <1>3, <1>4, <2>2 DEF NumberOf
<1>7. Char(src[0]) = WithSign(u, src, 1)
  BY <1>2, <1>4 DEF Char, WithSign
<1>8. 1 \in 0..PlacesToShift
  BY <1>1, ValueNumbers DEF PlacesToShift
<1>9. NumberOf(u, src', 1) /\ val' = Truncated(WithSign(u, src', 1), call.readSize)
  BY <1>6, <1>7
<1> QED BY <1>8, <1>9 DEF Read, PlacesToShift

(* Every other byte is shifted in. *)
LEMMA ReadNext ==
  ASSUME IsValueCall, Received(src), NEW p \in Nat \ {0}, p < PlacesToShift, Read(p),
         call' = call, n' = n, src' = src,
         val' = Truncated(val * Base + src[p], call.readSize)
  PROVE  Read(p + 1)'
<1>1. n \in Nat /\ call.readSize \in Nat /\ Base \in Nat
  BY ReceivedBytes, ValueNumbers
<1>2. PlacesToShift \in Nat /\ p \in 0..(n - 1) /\ p + 1 \in 0..PlacesToShift
  BY <1>1 DEF PlacesToShift
<1>3. src[p] \in Byte
  BY <1>2, ReceivedBytes
<1>4. PICK u : NumberOf(u, src, p) /\ val = Truncated(WithSign(u, src, p), call.readSize)
  BY DEF Read
<1>5. PICK w : w = u * Base + src[p]
  OBVIOUS
<1>6. /\ NumberOf(w, src, p + 1)
      /\ WithSign(w, src, p + 1) = WithSign(u, src, p) * Base + src[p]
  BY <1>3, <1>4, <1>5, NumberGrows
<1>7. WithSign(u, src, p) \in Int /\ src[p] \in Int
  <2>1. Power[p] \in Nat
    BY Powers
  <2>2. u \in Int
    BY <1>4, <2>1 DEF NumberOf
  <2> QED BY <1>1, <1>3, <2>1, <2>2 DEF WithSign, Byte
<1>8. val' = Truncated(WithSign(w, src, p + 1), call.readSize)
  BY <1>1, <1>4, <1>6, <1>7, ShiftTruncated
<1>9. NumberOf(w, src', p + 1) /\ val' = Truncated(WithSign(w, src', p + 1), call.readSize)
  BY <1>6, <1>8
<1> QED BY <1>2, <1>9 DEF Read, PlacesToShift

(* A number of as many bytes as the value has is the value, or the value   *)
(* with its bytes reversed.                                                *)
LEMMA NumberReceived ==
  ASSUME IsValueCall, Received(src), Len(call.frame) <= call.bufferLen,
         NEW u, NumberOf(u, src, call.size), call.size <= n
  PROVE  /\ ~call.switchEndianness => u = call.value
         /\ call.switchEndianness /\ call.size = n =>
              /\ u = Reversed(call.value, call.size)
<1>1. /\ call.size \in Nat /\ call.size > 0 /\ n \in Nat /\ n = Len(Got)
      /\ u \in 0..(Power[call.size] - 1) /\ call.value \in 0..(Power[call.size] - 1)
  BY ReceivedBytes, ValueNumbers DEF Received, NumberOf, IsValueCall
<1>2. \A k \in 1..n : k <= call.size => Got[k] = Digit(call.value, call.size - k)
  <2> SUFFICES ASSUME NEW k \in 1..n, k <= call.size
               PROVE  Got[k] = Digit(call.value, call.size - k)
    OBVIOUS
  <2>1. k \in 1..Len(Got) /\ k \in 1..call.size
    BY <1>1
  <2>2. Got[k] = Data[k]
    BY <2>1, GotIs
  <2> QED BY <2>1, <2>2, DataIs
<1>3. ASSUME NEW k \in 0..(call.size - 1) PROVE Digit(u, k) = src[call.size - 1 - k]
  BY <1>3 DEF NumberOf
<1>4. ASSUME ~call.switchEndianness PROVE u = call.value
  <2>1. ASSUME NEW k \in 0..(call.size - 1) PROVE Digit(u, k) = Digit(call.value, k)
    <3>1. PICK place : place = call.size - 1 - k
      OBVIOUS
    <3>2. /\ place \in 0..(n - 1) /\ place + 1 \in 1..n /\ place + 1 <= call.size
          /\ call.size - (place + 1) = k
      BY <1>1, <3>1
    <3>3. src[place] = Got[place + 1]
      BY <1>4, <3>2 DEF Received
    <3> QED BY <1>2, <1>3, <3>1, <3>2, <3>3
  <2> QED BY <1>1, <2>1, DigitsDetermine
<1>5. ASSUME call.switchEndianness, call.size = n
      PROVE  u = Reversed(call.value, call.size)
  <2> DEFINE isReversed(r) ==
               \A k \in 0..(call.size - 1) : Digit(r, k) = Digit(call.value, call.size - 1 - k)
  <2>1. ASSUME NEW k \in 0..(call.size - 1)
        PROVE  Digit(u, k) = Digit(call.value, call.size - 1 - k)
    <3>1. PICK place : place = call.size - 1 - k
      OBVIOUS
    <3>2. /\ place \in 0..(n - 1) /\ n - place = k + 1
          /\ k + 1 \in 1..n /\ k + 1 <= call.size /\ call.size - (k + 1) = place
      BY <1>1, <1>5, <3>1
    <3>3. src[place] = Got[k + 1]
      BY <1>5, <3>2 DEF Received
    <3> QED BY <1>2, <1>3, <3>1, <3>2, <3>3
  <2>2. isReversed(u)
    BY <2>1
  <2>3. PICK r : r = Reversed(call.value, call.size)
    OBVIOUS
  <2>4. r = CHOOSE x \in 0..(Power[call.size] - 1) : isReversed(x)
    BY <2>3 DEF Reversed
  <2>5. r \in 0..(Power[call.size] - 1) /\ isReversed(r)
    <3> HIDE DEF isReversed
    <3> QED BY <1>1, <2>2, <2>4
  <2>6. \A k \in 0..(call.size - 1) : Digit(u, k) = Digit(r, k)
    BY <2>1, <2>5
  <2> QED BY <1>1, <2>3, <2>5, <2>6, DigitsDetermine
<1> QED BY <1>4, <1>5

(* What convertFromCString() returns is what ValuesArrive says. *)
LEMMA ValueReturned ==
  ASSUME IsValueCall, Received(src), n > 0, i = PlacesToShift, Read(i),
         call' = call, fn' = "done", val' = val
  PROVE  ValuesArrive'
<1>1. PICK size, wide, places :
        size = call.size /\ wide = call.readSize /\ places = PlacesOfField
  OBVIOUS
<1>2. /\ size \in Nat /\ size > 0 /\ wide \in Nat /\ wide > 0 /\ n \in Nat
      /\ call.switchEndianness \in BOOLEAN
  BY <1>1, ReceivedBytes, ValueNumbers
<1>3. places = n
  <2>1. Positions(call.frame, call.field)
          = PlacesWithin(call.frame, {call.field}, Len(call.frame))
    BY DEF Positions, PlacesWithin
  <2> QED BY <1>1, <2>1 DEF PlacesOfField, Received, PlacesTo, Rank
<1> SUFFICES ASSUME Len(call.frame) <= call.bufferLen, size <= n, size <= wide,
                    size = wide \/ size = n
             PROVE  /\ ~call.switchEndianness /\ wide = size => val = call.value
                    /\ ~call.switchEndianness /\ size = n /\ wide > size
                         => val = Extended(call.value, size, wide)
                    /\ call.switchEndianness /\ wide = size /\ size = n
                         => val = Reversed(call.value, size)
  <2>1. ValuesArrive' <=>
          (Len(call.frame) <= call.bufferLen =>
             /\ ~call.switchEndianness /\ wide = size /\ size <= n => val = call.value
             /\ ~call.switchEndianness /\ size = n /\ wide > size
                  => val = Extended(call.value, size, wide)
             /\ call.switchEndianness /\ wide = size /\ size = n
                  => val = Reversed(call.value, size))
    BY <1>1, <1>3 DEF ValuesArrive, PlacesOfField, IsValueCall
  <2> QED BY <1>2, <2>1
<1>4. PlacesToShift = size
  BY <1>1, <1>2 DEF PlacesToShift
<1>5. PICK u : NumberOf(u, src, size) /\ val = Truncated(WithSign(u, src, size), wide)
  BY <1>1, <1>2, <1>4 DEF Read
<1>6. /\ ~call.switchEndianness => u = call.value
      /\ call.switchEndianness /\ size = n => u = Reversed(call.value, size)
  BY <1>1, <1>5, NumberReceived
<1>7. val = IF 2 * src[0] >= Base /\ size # wide THEN Power[wide] - Power[size] + u ELSE u
  BY <1>2, <1>5, SignTruncated
<1>8. ASSUME ~call.switchEndianness, size = n, wide > size
      PROVE  val = Extended(call.value, size, wide)
  <2>1. u = call.value
    BY <1>6, <1>8
  <2>2. src[0] = Digit(u, size - 1)
    <3>1. size - 1 \in 0..(size - 1) /\ size - 1 - (size - 1) = 0
      BY <1>2
    <3> QED BY <1>5, <3>1 DEF NumberOf
  <2>3. src[0] \in Byte
    BY <1>2, ReceivedBytes
  <2>4. 2 * src[0] >= Base <=> src[0] >= Base \div 2
    <3>1. PICK b \in Nat, d \in Nat : b = Base /\ d = src[0] /\ b % 2 = 0
      BY <2>3, UtilAssumption DEF Byte
    <3>2. 2 * d >= b <=> d >= b \div 2
      BY <3>1
    <3> QED BY <3>1, <3>2
  <2>5. size # wide
    BY <1>2, <1>8
  <2> QED BY <1>7, <2>1, <2>2, <2>4, <2>5 DEF Extended
<1>9. wide = size => val = u
  BY <1>7
<1> QED BY <1>6, <1>8, <1>9

(* What a loop on the way of a value knows of what it has done. *)
ValueInv ==
  call.fn = "setFieldValue" =>
    /\ fn \in {"setFieldValue", "insert", "extract", "switch", "convert", "done", "threw"}
    /\ fn = "setFieldValue" => Converted
    /\ fn = "insert" =>
         /\ i \in 0..Len(call.frame) /\ Inserted(i)
         /\ src = [k \in 0..(call.size - 1) |-> Data[k + 1]]
    /\ fn = "extract" => i \in 0..Len(call.frame) /\ Extracted(i) /\ src = Sent
    /\ fn = "switch" => i \in 0..n /\ Switched(i)
    /\ fn = "convert" => Received(src) /\ Read(i)
    /\ fn = "done" => ValuesArrive

(* A call begins with the conversion of the value. *)
LEMMA ValueInit == Init => ValueInv
<1> SUFFICES ASSUME Init, call.fn = "setFieldValue" PROVE ValueInv
  BY DEF ValueInv
<1>1. call \in Calls
  BY DEF Init
<1>2. fn = "setFieldValue" /\ Converted
  BY <1>1, ValueTyped, ConvertedInit
<1> QED BY <1>2 DEF ValueInv

(* An iteration of convertToCString(), or the way into the message. *)
LEMMA ToCStringKept ==
  ASSUME IsValueCall, ValueInv, ToCStringStep, call' = call
  PROVE  ValueInv'
<1>1. fn = "setFieldValue" /\ Converted /\ call.fn = "setFieldValue"
  BY DEF ToCStringStep, ValueInv, IsValueCall
<1>2. CASE /\ i >= 0 /\ mem' = [mem EXCEPT ![i] = LowByte(val)] /\ n' = n + 1
           /\ val' = val \div Base /\ i' = i - 1 /\ fn' = fn
  <2>1. Converted'
    BY <1>1, <1>2, ConvertedNext
  <2> QED BY <1>1, <1>2, <2>1 DEF ValueInv
<1>3. CASE i < 0 /\ Begin("insert", 0, 0, [k \in 0..(n - 1) |-> mem[k]], Zeros(call.bufferLen))
  <2>1. /\ fn' = "insert" /\ i' = 0 /\ n' = 0
        /\ src' = [k \in 0..(n - 1) |-> mem[k]] /\ mem' = Zeros(call.bufferLen)
    BY <1>3 DEF Begin
  <2>2. Inserted(0)' /\ src' = [k \in 0..(call.size - 1) |-> Data[k + 1]]
    BY <1>1, <1>3, <2>1, InsertedInit
  <2>3. Inserted(i)'
    BY <2>1, <2>2 DEF Inserted, Fits
  <2>4. i' \in 0..Len(call.frame)
    BY <2>1, ValueNumbers
  <2>5. src' = [k \in 0..(call.size - 1) |-> Data[k + 1]]'
    BY <2>2 DEF Data
  <2> QED BY <2>1, <2>3, <2>4, <2>5 DEF ValueInv
<1> QED BY <1>2, <1>3 DEF ToCStringStep

(* The data has as many bytes as the value. *)
LEMMA DataLength ==
  ASSUME IsValueCall, src = [k \in 0..(call.size - 1) |-> Data[k + 1]]
  PROVE  Cardinality(DOMAIN src) = call.size
<1>1. call.size \in Nat
  BY ValueNumbers
<1>2. DOMAIN src = 0..(call.size - 1)
  OBVIOUS
<1>3. Cardinality(0..(call.size - 1)) = call.size
  BY <1>1, FS_Interval
<1> QED BY <1>2, <1>3

(* An iteration of insertFieldToBuffer(), or the way to the receiver. *)
LEMMA InsertKept ==
  ASSUME IsValueCall, ValueInv, InsertStep, call' = call
  PROVE  ValueInv'
<1>1. /\ fn = "insert" /\ call.fn = "setFieldValue"
      /\ i \in 0..Len(call.frame) /\ Inserted(i)
      /\ src = [k \in 0..(call.size - 1) |-> Data[k + 1]]
  BY DEF InsertStep, ValueInv, IsValueCall
<1>2. PICK q : q = Found(call.frame, call.field)
  OBVIOUS
<1>3. /\ q \in 0..Len(call.frame) /\ Inserted(q)
      /\ q < Len(call.frame) => call.frame[q + 1] = call.field
  <2>1. /\ q \in i..Len(call.frame)
        /\ q < Len(call.frame) => call.frame[q + 1] = call.field
    BY <1>1, <1>2, ValueNumbers, FoundIs
  <2>2. Inserted(q)
    BY <1>1, <1>2, InsertedToFound
  <2> QED BY <1>1, <2>1, <2>2, ValueNumbers
<1>4. Cardinality(DOMAIN src) = call.size
  BY <1>1, DataLength
<1>5. n \in Nat /\ n <= call.size
  <2>1. n = PlacesTo(Fits(q)) /\ n <= call.size
    BY <1>3 DEF Inserted
  <2>2. Fits(q) \in Nat
    BY <1>3, ValueNumbers DEF Fits
  <2> QED BY <2>1, <2>2, PlacesToNext
<1>6. CASE /\ q = Len(call.frame) \/ n >= call.size
           /\ Begin("extract", 0, 0, mem, Zeros(MaxDataBytes))
  <2>1. fn' = "extract" /\ i' = 0 /\ n' = 0 /\ src' = mem /\ mem' = Zeros(MaxDataBytes)
    BY <1>6 DEF Begin
  <2>2. mem = Sent
    BY <1>3, <1>6, InsertedAll
  <2>3. Extracted(0)'
    BY <2>1, ExtractedInit
  <2>4. Extracted(i)'
    BY <2>1, <2>3 DEF Extracted
  <2>5. i' \in 0..Len(call.frame)
    BY <2>1, ValueNumbers
  <2>6. src' = Sent'
    BY <2>1, <2>2 DEF Sent, Data
  <2> QED BY <2>1, <2>4, <2>5, <2>6 DEF ValueInv
<1>7. CASE /\ ~(q = Len(call.frame) \/ n >= call.size)
           /\ mem' = IF q < call.bufferLen THEN [mem EXCEPT ![q] = src[n]] ELSE mem
           /\ n' = IF q < call.bufferLen THEN n + 1 ELSE n
           /\ i' = q + 1 /\ fn' = fn /\ src' = src
  <2>1. q \in 0..(Len(call.frame) - 1) /\ n < call.size /\ call.frame[q + 1] = call.field
    BY <1>3, <1>5, <1>7, ValueNumbers
  <2>2. Inserted(q + 1)'
    BY <1>1, <1>3, <1>7, <2>1, InsertedNext
  <2>3. Inserted(i)'
    BY <1>7, <2>2 DEF Inserted, Fits
  <2>4. i' \in 0..Len(call.frame)
    BY <1>7, <2>1, ValueNumbers
  <2>5. src' = [k \in 0..(call.size - 1) |-> Data[k + 1]]'
    BY <1>1, <1>7 DEF Data
  <2> QED BY <1>1, <1>7, <2>3, <2>4, <2>5 DEF ValueInv
<1> QED BY <1>2, <1>4, <1>6, <1>7 DEF InsertStep, InsertNext

(* An iteration of extractFieldFromBuffer(), or the way to getField(). *)
LEMMA ExtractKept ==
  ASSUME IsValueCall, ValueInv, ExtractStep, call' = call
  PROVE  ValueInv'
<1>1. /\ fn = "extract" /\ call.fn = "setFieldValue"
      /\ i \in 0..Len(call.frame) /\ Extracted(i) /\ src = Sent
  BY DEF ExtractStep, ValueInv, IsValueCall
<1>2. PICK q : q = Found(call.frame, call.field)
  OBVIOUS
<1>3. /\ q \in 0..Len(call.frame) /\ Extracted(q)
      /\ q < Len(call.frame) => call.frame[q + 1] = call.field
  <2>1. /\ q \in i..Len(call.frame)
        /\ q < Len(call.frame) => call.frame[q + 1] = call.field
    BY <1>1, <1>2, ValueNumbers, FoundIs
  <2>2. Extracted(q)
    BY <1>1, <1>2, ExtractedToFound
  <2> QED BY <1>1, <2>1, <2>2, ValueNumbers
<1>4. n \in Nat /\ n <= MaxDataBytes /\ MaxDataBytes \in Nat
  <2>1. q \in Nat /\ n = PlacesTo(q) /\ n <= MaxDataBytes
    BY <1>3, ValueNumbers DEF Extracted
  <2> QED BY <2>1, PlacesToNext, ValueNumbers
<1>5. CASE fn' = "threw"
  BY <1>5 DEF ValueInv
<1>6. CASE /\ q = Len(call.frame) /\ n < MaxDataBytes
           /\ Begin(IF call.switchEndianness THEN "switch" ELSE "convert", 0, n, mem, mem)
  <2>1. /\ fn' = IF call.switchEndianness THEN "switch" ELSE "convert"
        /\ i' = 0 /\ n' = n /\ src' = mem /\ mem' = mem
    BY <1>6 DEF Begin
  <2>2. Extracted(Len(call.frame))
    BY <1>3, <1>6
  <2>3. CASE call.switchEndianness
    <3>1. Switched(0)'
      BY <1>6, <2>1, <2>2, <2>3, SwitchedInit
    <3>2. Switched(i)'
      BY <2>1, <3>1 DEF Switched
    <3>3. i' \in 0..n' /\ fn' = "switch"
      BY <1>4, <2>1, <2>3
    <3> QED BY <3>2, <3>3 DEF ValueInv
  <2>4. CASE ~call.switchEndianness
    <3>1. /\ n = Len(Got) /\ n = PlacesTo(Len(call.frame))
          /\ \A k \in 0..(n - 1) : mem[k] = Got[k + 1]
      BY <1>6, <2>2, ExtractedAll
    <3>2. Received(src)'
      BY <2>1, <2>4, <3>1 DEF Received, Got, Sent, Data, PlacesTo
    <3>3. 0 \in 0..PlacesToShift
      BY <1>4, ValueNumbers DEF PlacesToShift
    <3>4. Read(i)'
      BY <2>1, <3>3 DEF Read, PlacesToShift
    <3>5. fn' = "convert"
      BY <2>1, <2>4
    <3> QED BY <3>2, <3>4, <3>5 DEF ValueInv
  <2> QED BY <2>3, <2>4
<1>7. CASE /\ ~(q = Len(call.frame) \/ n >= MaxDataBytes)
           /\ mem' = [mem EXCEPT ![n] = IF q < call.bufferLen THEN src[q] ELSE @]
           /\ n' = n + 1 /\ i' = q + 1 /\ fn' = fn /\ src' = src
  <2>1. /\ q \in 0..(Len(call.frame) - 1) /\ n < MaxDataBytes
        /\ call.frame[q + 1] = call.field
    BY <1>3, <1>4, <1>7, ValueNumbers
  <2>2. Extracted(q + 1)'
    BY <1>1, <1>3, <1>7, <2>1, ExtractedNext
  <2>3. Extracted(i)'
    BY <1>7, <2>2 DEF Extracted
  <2>4. i' \in 0..Len(call.frame)
    BY <1>7, <2>1, ValueNumbers
  <2>5. src' = Sent'
    BY <1>1, <1>7 DEF Sent, Data
  <2> QED BY <1>1, <1>7, <2>3, <2>4, <2>5 DEF ValueInv
<1>8. n < MaxDataBytes => ~(n >= MaxDataBytes)
  BY <1>4
<1> QED BY <1>2, <1>5, <1>6, <1>7, <1>8 DEF ExtractStep

(* An iteration of switchDataEndianness(), or the way to its conversion. *)
LEMMA SwitchKept ==
  ASSUME IsValueCall, ValueInv, SwitchStep, call' = call
  PROVE  ValueInv'
<1>1. fn = "switch" /\ call.fn = "setFieldValue" /\ i \in 0..n /\ Switched(i)
  BY DEF SwitchStep, ValueInv, IsValueCall
<1>2. n \in Nat /\ i \in Nat
  BY <1>1, GotIs DEF Switched
<1>3. CASE i = n /\ Begin("convert", 0, n, mem, mem)
  <2>1. fn' = "convert" /\ i' = 0 /\ n' = n /\ src' = mem
    BY <1>3 DEF Begin
  <2>2. Received(mem)
    BY <1>1, <1>3, ReceivedSwitched
  <2>3. Received(src)'
    BY <2>1, <2>2 DEF Received, Got, Sent, Data, PlacesTo
  <2>4. 0 \in 0..PlacesToShift
    BY <1>2, ValueNumbers DEF PlacesToShift
  <2>5. Read(i)'
    BY <2>1, <2>4 DEF Read, PlacesToShift
  <2> QED BY <2>1, <2>3, <2>5 DEF ValueInv
<1>4. CASE /\ i < n /\ mem' = [mem EXCEPT ![i] = src[n - i - 1]]
           /\ i' = i + 1 /\ UNCHANGED <<call, fn, n, src, val>>
  <2>1. PICK p \in Nat : p = i
    BY <1>2
  <2>2. Switched(p + 1)'
    BY <1>1, <1>4, <2>1, SwitchedNext
  <2>3. i' = p + 1 /\ i' \in 0..n' /\ fn' = "switch"
    BY <1>1, <1>2, <1>4, <2>1
  <2>4. Switched(i)'
    BY <2>2, <2>3 DEF Switched
  <2> QED BY <2>3, <2>4 DEF ValueInv
<1> QED BY <1>3, <1>4 DEF SwitchStep

(* An iteration of convertFromCString(), or its return. *)
LEMMA FromCStringKept ==
  ASSUME IsValueCall, ValueInv, FromCStringStep, call' = call
  PROVE  ValueInv'
<1>1. fn = "convert" /\ call.fn = "setFieldValue" /\ Received(src) /\ Read(i)
  BY DEF FromCStringStep, ValueInv, IsValueCall
<1>2. n \in Nat /\ PlacesToShift \in Nat /\ i \in Nat
  <2>1. n \in Nat
    BY <1>1, ReceivedBytes
  <2>2. PlacesToShift \in Nat
    BY <2>1, ValueNumbers DEF PlacesToShift
  <2> QED BY <1>1, <2>1, <2>2 DEF Read
<1>3. CASE n = 0 /\ Return(0)
  <2>1. PlacesOfField = n
    <3>1. Positions(call.frame, call.field)
            = PlacesWithin(call.frame, {call.field}, Len(call.frame))
      BY DEF Positions, PlacesWithin
    <3> QED BY <1>1, <3>1 DEF PlacesOfField, Received, PlacesTo, Rank
  <2>2. ~(call.size <= PlacesOfField) /\ ~(call.size = PlacesOfField)
    BY <1>3, <2>1, ValueNumbers
  <2>3. ValuesArrive'
    BY <2>2 DEF ValuesArrive, PlacesOfField
  <2>4. fn' = "done"
    BY <1>3 DEF Return
  <2> QED BY <2>3, <2>4 DEF ValueInv
<1>4. CASE n > 0 /\ i = PlacesToShift /\ Return(val)
  <2>1. fn' = "done" /\ val' = val
    BY <1>4 DEF Return
  <2>2. ValuesArrive'
    BY <1>1, <1>4, <2>1, ValueReturned
  <2> QED BY <2>1, <2>2 DEF ValueInv
<1>5. CASE /\ n > 0 /\ i < PlacesToShift
           /\ val' = IF i = 0 THEN Truncated(Char(src[0]), call.readSize)
                     ELSE Truncated(val * Base + src[i], call.readSize)
           /\ i' = i + 1
           /\ UNCHANGED <<call, fn, n, src, mem>>
  <2>1. PICK p \in Nat : p = i
    BY <1>2
  <2>2. Read(p + 1)'
    <3>1. CASE p = 0
      <4>1. Read(1)'
        BY <1>1, <1>5, <2>1, <3>1, ReadFirst
      <4> QED BY <3>1, <4>1
    <3>2. CASE p # 0
      <4>1. /\ p \in Nat \ {0} /\ p < PlacesToShift /\ Read(p)
            /\ val' = Truncated(val * Base + src[p], call.readSize)
        BY <1>1, <1>5, <2>1, <3>2
      <4> QED BY <1>1, <1>5, <4>1, ReadNext
    <3> QED BY <3>1, <3>2
  <2>3. Read(i)'
    BY <1>5, <2>1, <2>2 DEF Read, PlacesToShift
  <2>4. Received(src)'
    BY <1>1, <1>5 DEF Received, Got, Sent, Data, PlacesTo
  <2> QED BY <1>1, <1>5, <2>3, <2>4 DEF ValueInv
<1> QED BY <1>3, <1>4, <1>5 DEF FromCStringStep

(* Every loop keeps what it knows. *)
LEMMA ValueKept ==
  ASSUME SearchInv, ValueInv, [Next]_vars
  PROVE  ValueInv'
<1> SUFFICES ASSUME call.fn = "setFieldValue" PROVE ValueInv'
  BY CallKept DEF ValueInv
<1>1. call' = call /\ IsValueCall
  BY CallKept, ValueTyped DEF SearchInv
<1>2. fn \in {"setFieldValue", "insert", "extract", "switch", "convert", "done", "threw"}
  BY DEF ValueInv
<1>3. CASE UNCHANGED vars
  <2>1. /\ call' = call /\ fn' = fn /\ i' = i /\ n' = n /\ src' = src /\ mem' = mem
        /\ val' = val
    BY <1>3 DEF vars
  <2>2. Converted => Converted'
    BY <2>1 DEF Converted, Data
  <2>3. Inserted(i) => Inserted(i)'
    BY <2>1 DEF Inserted, Sent, Data, PlacesTo, Fits
  <2>4. Extracted(i) => Extracted(i)'
    BY <2>1 DEF Extracted, Got, Sent, Data, PlacesTo
  <2>5. Switched(i) => Switched(i)'
    BY <2>1 DEF Switched, Got, Sent, Data, PlacesTo
  <2>6. Received(src) => Received(src)'
    BY <2>1 DEF Received, Got, Sent, Data, PlacesTo
  <2>7. Read(i) => Read(i)'
    BY <2>1 DEF Read, PlacesToShift
  <2>8. ValuesArrive => ValuesArrive'
    BY <2>1 DEF ValuesArrive, PlacesOfField
  <2>9. Sent' = Sent /\ Data' = Data
    BY <2>1 DEF Sent, Data
  <2> QED BY <2>1, <2>2, <2>3, <2>4, <2>5, <2>6, <2>7, <2>8, <2>9 DEF ValueInv
<1>4. CASE Next
  <2>1. \/ ToCStringStep \/ InsertStep \/ ExtractStep \/ SwitchStep \/ FromCStringStep
    BY <1>2, <1>4 DEF Next, MemstrStep, CountStep, DeleteStep, AssembleStep, NormalizeStep
  <2> QED BY <1>1, <2>1, ToCStringKept, InsertKept, ExtractKept, SwitchKept, FromCStringKept
<1> QED BY <1>3, <1>4

-----------------------------------------------------------------------------
(* All calls *)

LoopsInv == SearchInv /\ DeleteInv /\ AssembleInv /\ NormalizeInv /\ ValueInv

(* A call begins with what its loop is to know. *)
LEMMA LoopsInit == Init => LoopsInv
<1> SUFFICES ASSUME Init PROVE LoopsInv
  OBVIOUS
<1>1. NormalizeInv
  BY DEF Init, NormalizeInv
<1> QED BY <1>1, SearchInit, DeleteInit, AssembleInit, ValueInit DEF LoopsInv

(* Whatever function runs, every loop keeps what it knows. *)
LEMMA LoopsStep ==
  ASSUME LoopsInv, [Next]_vars
  PROVE  LoopsInv'
BY SearchStep, DeleteKept, AssembleKept, NormalizeKept, ValueKept DEF LoopsInv

(* A loop runs for the call it is of. *)
LEMMA LoopOfCall ==
  ASSUME LoopsInv
  PROVE  /\ call \in Calls
         /\ fn = "delete" => call.fn = "delete"
         /\ fn = "assemble" => call.fn = "assemble"
         /\ fn = "normalize" => call.fn = "normalize"
         /\ fn \in {"setFieldValue", "insert", "extract", "switch", "convert"}
              => call.fn = "setFieldValue" /\ IsValueCall
<1>1. call \in Calls
  BY DEF LoopsInv, SearchInv
<1>2. call.fn \in {"memstr", "count", "delete", "assemble", "normalize", "setFieldValue"}
  BY <1>1, UtilAssumption
<1>3. /\ call.fn = "memstr" => fn \in {"memstr", "done"}
      /\ call.fn = "count" => fn \in {"count", "done"}
  BY DEF LoopsInv, SearchInv, MemstrInv, CountInv
<1>4. call.fn = "delete" => fn \in {"delete", "done", "threw"}
  BY DEF LoopsInv, DeleteInv
<1>5. /\ call.fn = "assemble" => fn \in {"assemble", "done"}
      /\ call.fn = "normalize" => fn \in {"normalize", "done"}
  BY DEF LoopsInv, AssembleInv, NormalizeInv
<1>6. call.fn = "setFieldValue" =>
        fn \in {"setFieldValue", "insert", "extract", "switch", "convert", "done", "threw"}
  BY DEF LoopsInv, ValueInv
<1>7. call.fn = "setFieldValue" => IsValueCall
  BY <1>1, ValueTyped
<1> QED BY <1>1, <1>2, <1>3, <1>4, <1>5, <1>6, <1>7

(* Between the loops, the buffers hold what the other modules say. *)
LEMMA FieldsKnown ==
  ASSUME LoopsInv
  PROVE  FieldsAreExact
<1>1. CASE fn = "extract"
  <2>1. src = Sent
    BY <1>1, LoopOfCall DEF LoopsInv, ValueInv
  <2> QED BY <1>1, <2>1 DEF FieldsAreExact, Sent, Data
<1>2. CASE fn = "convert"
  <2>1. IsValueCall /\ Received(src)
    BY <1>2, LoopOfCall DEF LoopsInv, ValueInv
  <2>2. n = Len(Got) /\ n \in Nat
    BY <2>1, ReceivedBytes DEF Received
  <2>3. ASSUME ~call.switchEndianness, NEW k \in 1..n PROVE src[k - 1] = Got[k]
    <3>1. k - 1 \in 0..(n - 1) /\ (k - 1) + 1 = k
      BY <2>2
    <3> QED BY <2>1, <2>3, <3>1 DEF Received
  <2> QED BY <1>2, <2>2, <2>3 DEF FieldsAreExact, Got, Sent, Data
<1> QED BY <1>1, <1>2 DEF FieldsAreExact

(* The types of the loops' counters, and of a value's buffer. *)
Counters == i \in Int /\ n \in Nat /\ val \in Int

ValueBuffer ==
  call.fn = "setFieldValue" =>
    /\ \A k \in DOMAIN mem : mem[k] \in Byte
    /\ fn = "insert" => DOMAIN mem = 0..(call.bufferLen - 1)
    /\ fn \in {"setFieldValue", "extract", "switch"} => DOMAIN mem = 0..(MaxDataBytes - 1)

DeletionBuffer ==
  call.fn = "delete" => DOMAIN mem = DOMAIN call.buffer /\ mem[call.len] = call.buffer[call.len]

Loops == {"memstr", "count", "delete", "assemble", "normalize", "setFieldValue",
          "insert", "extract", "switch", "convert"}

(* The type invariant is these. *)
LEMMA TypesAre ==
  TypeOK <=> fn \in Loops \cup Ends /\ Counters /\ ValueBuffer /\ DeletionBuffer
BY DEF TypeOK, Loops, Counters, ValueBuffer, DeletionBuffer

(* Calls begin with buffers and counters of their types. *)
LEMMA TypesInit == Init => TypeOK
<1> SUFFICES ASSUME Init PROVE TypeOK
  OBVIOUS
<1>1. call \in Calls /\ fn = call.fn
  BY DEF Init
<1>2. fn \in Loops \cup Ends
  BY <1>1, UtilAssumption DEF Loops
<1>3. Counters
  <2>1. CASE fn = "setFieldValue"
    <3>1. IsValueCall /\ i = call.size - 1 /\ n = 0 /\ val = call.value
      BY <1>1, <2>1, ValueTyped DEF Init
    <3> QED BY <3>1, ValueNumbers DEF Counters
  <2>2. CASE fn = "delete"
    <3>1. i = 0 /\ n = call.len /\ val = 0 /\ call.len \in Nat
      BY <1>1, <2>2, DeletionTyped DEF Init, IsDeletion
    <3> QED BY <3>1 DEF Counters
  <2>3. CASE fn # "setFieldValue" /\ fn # "delete"
    BY <2>3 DEF Init, Counters
  <2> QED BY <2>1, <2>2, <2>3
<1>4. ValueBuffer
  <2> SUFFICES ASSUME call.fn = "setFieldValue" PROVE ValueBuffer
    BY DEF ValueBuffer
  <2>1. mem = Zeros(MaxDataBytes) /\ fn = "setFieldValue" /\ IsValueCall
    BY <1>1, ValueTyped DEF Init
  <2>2. 0 \in Byte
    BY <2>1, ValueNumbers
  <2> QED BY <2>1, <2>2 DEF ValueBuffer, Zeros
<1>5. DeletionBuffer
  BY <1>1 DEF Init, DeletionBuffer
<1> QED BY <1>2, <1>3, <1>4, <1>5, TypesAre

(* A step that leaves the written buffer alone, and goes on or ends. *)
LEMMA BufferLeft ==
  ASSUME TypeOK, call' = call, mem' = mem, fn' = fn \/ fn' \in {"done", "threw", "convert"},
         Counters'
  PROVE  TypeOK'
<1>1. fn' \in Loops \cup Ends
  BY TypesAre DEF Loops, Ends
<1>2. ValueBuffer' /\ DeletionBuffer'
  BY TypesAre DEF ValueBuffer, DeletionBuffer
<1> QED BY <1>1, <1>2 DEF TypeOK, Loops, Counters, ValueBuffer, DeletionBuffer

(* The searches write no buffer. *)
LEMMA SearchTypes ==
  ASSUME TypeOK, MemstrStep \/ CountStep, call' = call
  PROVE  TypeOK'
<1>1. Counters
  BY TypesAre
<1>2. mem' = mem /\ (fn' = fn \/ fn' = "done")
  BY DEF MemstrStep, CountStep, Return
<1>3. Counters'
  BY <1>1 DEF MemstrStep, CountStep, Return, Counters, NotFound
<1> QED BY <1>2, <1>3, BufferLeft

(* The deletion moves bytes within the message. *)
LEMMA DeleteTypes ==
  ASSUME LoopsInv, DeleteInv', TypeOK, DeleteStep, call' = call
  PROVE  TypeOK'
<1>1. Counters /\ DeletionBuffer
  BY TypesAre
<1>2. fn = "delete" /\ call.fn = "delete"
  BY LoopOfCall DEF DeleteStep
<1>3. IsDeletion /\ i \in 0..Len(call.frame)
  BY <1>2, LoopOfCall, DeletionTyped DEF LoopsInv, DeleteInv
<1>4. CASE fn' \in {"done", "threw"} /\ mem' = mem /\ Counters'
  BY <1>4, BufferLeft
<1>5. PICK q : q = Found(call.frame, call.field)
  OBVIOUS
<1>6. CASE /\ call.len >= Len(call.frame) /\ i' = q + 1 /\ n' = n - 1 /\ fn' = fn /\ val' = val
           /\ mem' = [k \in DOMAIN mem |->
                        IF k \in ShiftedIndex(q)..(call.len - 1) THEN mem[k + 1] ELSE mem[k]]
  <2>1. n' \in Nat
    BY <1>2, <1>6 DEF DeleteInv, DeletedTo
  <2>2. i' \in Int
    <3>1. q \in i..Len(call.frame) /\ Len(call.frame) \in Nat /\ i \in Nat
      BY <1>3, <1>5, FoundIs DEF IsDeletion
    <3> QED BY <1>6, <3>1
  <2>3. Counters'
    BY <1>1, <1>6, <2>1, <2>2 DEF Counters
  <2>4. DOMAIN mem = 0..call.len /\ call.len \in Nat
    BY <1>1, <1>2, <1>3 DEF DeletionBuffer, IsDeletion
  <2>5. call.len \in DOMAIN mem /\ call.len \notin ShiftedIndex(q)..(call.len - 1)
    BY <2>4
  <2>6. DeletionBuffer'
    BY <1>1, <1>2, <1>6, <2>5 DEF DeletionBuffer
  <2>7. ValueBuffer' /\ fn' \in Loops \cup Ends
    BY <1>2, <1>6 DEF ValueBuffer, Loops
  <2> QED BY <2>3, <2>6, <2>7 DEF TypeOK, Loops, Counters, ValueBuffer, DeletionBuffer
<1>7. \/ fn' \in {"done", "threw"} /\ mem' = mem /\ i' = i /\ n' = n
           /\ (val' = val \/ val' = n)
      \/ /\ call.len >= Len(call.frame) /\ i' = q + 1 /\ n' = n - 1 /\ fn' = fn /\ val' = val
         /\ mem' = [k \in DOMAIN mem |->
                      IF k \in ShiftedIndex(q)..(call.len - 1) THEN mem[k + 1] ELSE mem[k]]
  BY <1>5 DEF DeleteStep, Return
<1>8. (i' = i /\ n' = n /\ (val' = val \/ val' = n)) => Counters'
  BY <1>1 DEF Counters
<1> QED BY <1>4, <1>6, <1>7, <1>8

(* The functions that make frames count what they have made. *)
LEMMA FrameTypes ==
  ASSUME LoopsInv, TypeOK, AssembleStep \/ NormalizeStep, call' = call
  PROVE  TypeOK'
<1>1. Counters
  BY TypesAre
<1>2. call.fn \in {"assemble", "normalize"} /\ fn \in {"assemble", "normalize"}
  BY LoopOfCall DEF AssembleStep, NormalizeStep
<1>3. fn' \in {"assemble", "done"}
  BY DEF AssembleStep, NormalizeStep, Return
<1>4. Counters'
  <2>1. CASE NormalizeStep
    BY <1>1, <2>1 DEF NormalizeStep, Counters
  <2>2. CASE AssembleStep
    <3>1. fn = "assemble" /\ call.fn = "assemble" /\ AreComponents(call.components)
      BY <2>2, LoopOfCall, UtilAssumption DEF AssembleStep, AreComponents, Component
    <3>2. i \in 0..Len(call.components) /\ Len(call.components) \in Nat
      BY <3>1 DEF LoopsInv, AssembleInv, AreComponents
    <3>3. i = Len(call.components) => Len(mem) \in Nat
      <4>1. i = Len(call.components) => mem = FramesUpTo(call.components)[i]
        BY <3>1 DEF LoopsInv, AssembleInv
      <4>2. FramesUpTo(call.components)[i] \in Seq(Nat)
        BY <3>1, <3>2, FrameSteps
      <4>3. \A s \in Seq(Nat) : Len(s) \in Nat
        OBVIOUS
      <4> QED BY <4>1, <4>2, <4>3
    <3> QED BY <1>1, <2>2, <3>3 DEF AssembleStep, Return, Counters
  <2> QED BY <2>1, <2>2
<1>5. ValueBuffer' /\ DeletionBuffer' /\ fn' \in Loops \cup Ends
  BY <1>2, <1>3 DEF ValueBuffer, DeletionBuffer, Loops, Ends
<1> QED BY <1>4, <1>5 DEF TypeOK, Loops, Counters, ValueBuffer, DeletionBuffer

(* A byte is written into a value's buffer, which keeps its places. *)
LEMMA ByteWritten ==
  ASSUME TypeOK, call.fn = "setFieldValue", call' = call, fn' = fn, Counters',
         fn \in {"setFieldValue", "insert", "extract", "switch"},
         NEW place, NEW byte \in Byte, mem' = [mem EXCEPT ![place] = byte]
  PROVE  TypeOK'
<1>1. ValueBuffer /\ fn \in Loops \cup Ends
  BY TypesAre
<1>2. DOMAIN mem' = DOMAIN mem
  OBVIOUS
<1>3. \A k \in DOMAIN mem' : mem'[k] \in Byte
  BY <1>1, <1>2 DEF ValueBuffer
<1>4. ValueBuffer' /\ DeletionBuffer'
  BY <1>1, <1>2, <1>3 DEF ValueBuffer, DeletionBuffer
<1> QED BY <1>1, <1>4 DEF TypeOK, Loops, Counters, ValueBuffer, DeletionBuffer

(* The next loop begins with an empty buffer, or with the one at hand. *)
LEMMA LoopBegun ==
  ASSUME TypeOK, IsValueCall, call' = call, val' = val, i' = 0, n' \in Nat,
         \/ fn' = "insert" /\ mem' = Zeros(call.bufferLen)
         \/ fn' = "extract" /\ mem' = Zeros(MaxDataBytes)
         \/ fn = "extract" /\ fn' \in {"switch", "convert"} /\ mem' = mem
         \/ fn' = "convert" /\ mem' = mem
  PROVE  TypeOK'
<1>1. Counters /\ ValueBuffer
  BY TypesAre
<1>2. Counters'
  BY <1>1 DEF Counters
<1>3. fn' \in Loops \cup Ends
  BY DEF Loops
<1>4. 0 \in Byte /\ call.fn = "setFieldValue"
  BY ValueNumbers DEF IsValueCall
<1>5. ValueBuffer'
  BY <1>1, <1>4 DEF ValueBuffer, Zeros
<1>6. DeletionBuffer'
  BY <1>4 DEF DeletionBuffer
<1> QED BY <1>2, <1>3, <1>5, <1>6 DEF TypeOK, Loops, Counters, ValueBuffer, DeletionBuffer

(* convertToCString() writes low bytes. *)
LEMMA ToCStringTypes ==
  ASSUME LoopsInv, TypeOK, ToCStringStep, call' = call
  PROVE  TypeOK'
<1>1. Counters /\ fn = "setFieldValue" /\ call.fn = "setFieldValue" /\ IsValueCall
  BY TypesAre, LoopOfCall DEF ToCStringStep
<1>2. Base \in Nat /\ Base > 0
  BY UtilAssumption
<1>3. CASE /\ mem' = [mem EXCEPT ![i] = LowByte(val)] /\ n' = n + 1
           /\ val' = val \div Base /\ i' = i - 1 /\ fn' = fn
  <2>1. LowByte(val) \in Byte /\ val \div Base \in Int
    BY <1>1, <1>2, DivMod DEF LowByte, Byte, Counters
  <2>2. Counters'
    BY <1>1, <1>3, <2>1 DEF Counters
  <2> QED BY <1>1, <1>3, <2>1, <2>2, ByteWritten
<1>4. CASE Begin("insert", 0, 0, [k \in 0..(n - 1) |-> mem[k]], Zeros(call.bufferLen))
  <2>1. /\ fn' = "insert" /\ i' = 0 /\ n' \in Nat /\ val' = val
        /\ mem' = Zeros(call.bufferLen)
    BY <1>4 DEF Begin
  <2> QED BY <1>1, <2>1, LoopBegun
<1> QED BY <1>3, <1>4 DEF ToCStringStep

(* insertFieldToBuffer() writes bytes of the data, into the message only. *)
LEMMA InsertTypes ==
  ASSUME LoopsInv, TypeOK, InsertStep, call' = call
  PROVE  TypeOK'
<1>1. Counters /\ fn = "insert" /\ call.fn = "setFieldValue" /\ IsValueCall
  BY TypesAre, LoopOfCall DEF InsertStep
<1>2. /\ i \in 0..Len(call.frame) /\ src = [k \in 0..(call.size - 1) |-> Data[k + 1]]
      /\ n \in Nat /\ call.size \in Nat
  BY <1>1, ValueNumbers DEF LoopsInv, ValueInv, Counters
<1>3. PICK q : q = Found(call.frame, call.field)
  OBVIOUS
<1>4. q \in Nat
  <2>1. q \in i..Len(call.frame) /\ Len(call.frame) \in Nat /\ i \in Nat
    BY <1>1, <1>2, <1>3, ValueNumbers, FoundIs
  <2> QED BY <2>1
<1>5. Cardinality(DOMAIN src) = call.size
  BY <1>1, <1>2, DataLength
<1>6. CASE Begin("extract", 0, 0, mem, Zeros(MaxDataBytes))
  <2>1. fn' = "extract" /\ i' = 0 /\ n' \in Nat /\ val' = val /\ mem' = Zeros(MaxDataBytes)
    BY <1>6 DEF Begin
  <2> QED BY <1>1, <2>1, LoopBegun
<1>7. CASE /\ ~(n >= call.size)
           /\ mem' = IF q < call.bufferLen THEN [mem EXCEPT ![q] = src[n]] ELSE mem
           /\ n' = IF q < call.bufferLen THEN n + 1 ELSE n
           /\ i' = q + 1 /\ fn' = fn /\ val' = val
  <2>1. Counters'
    BY <1>1, <1>2, <1>4, <1>7 DEF Counters
  <2>2. src[n] \in Byte
    <3>1. n \in 0..(call.size - 1) /\ n + 1 \in 1..call.size
      BY <1>2, <1>7
    <3>2. src[n] = Data[n + 1]
      BY <1>2, <3>1
    <3> QED BY <1>1, <3>1, <3>2, DataIs
  <2>3. CASE q < call.bufferLen
    <3>1. mem' = [mem EXCEPT ![q] = src[n]] /\ fn' = fn
      BY <1>7, <2>3
    <3> QED BY <1>1, <2>1, <2>2, <3>1, ByteWritten
  <2>4. CASE ~(q < call.bufferLen)
    <3>1. mem' = mem /\ fn' = fn
      BY <1>7, <2>4
    <3> QED BY <2>1, <3>1, BufferLeft
  <2> QED BY <2>3, <2>4
<1> QED BY <1>3, <1>5, <1>6, <1>7 DEF InsertStep, InsertNext

(* extractFieldFromBuffer() writes bytes of the message. *)
LEMMA ExtractTypes ==
  ASSUME LoopsInv, TypeOK, ExtractStep, call' = call
  PROVE  TypeOK'
<1>1. /\ Counters /\ ValueBuffer
      /\ fn = "extract" /\ call.fn = "setFieldValue" /\ IsValueCall
  BY TypesAre, LoopOfCall DEF ExtractStep
<1>2. i \in 0..Len(call.frame) /\ src = Sent /\ n \in Nat /\ MaxDataBytes \in Nat
  BY <1>1, ValueNumbers DEF LoopsInv, ValueInv, Counters
<1>3. PICK q : q = Found(call.frame, call.field)
  OBVIOUS
<1>4. q \in Nat
  <2>1. q \in i..Len(call.frame) /\ Len(call.frame) \in Nat /\ i \in Nat
    BY <1>1, <1>2, <1>3, ValueNumbers, FoundIs
  <2> QED BY <2>1
<1>5. CASE fn' = "threw" /\ UNCHANGED <<call, i, n, src, mem, val>>
  <2>1. Counters'
    BY <1>1, <1>5 DEF Counters
  <2> QED BY <1>5, <2>1, BufferLeft
<1>6. CASE Begin(IF call.switchEndianness THEN "switch" ELSE "convert", 0, n, mem, mem)
  <2>1. /\ fn' \in {"switch", "convert"} /\ i' = 0 /\ n' = n /\ val' = val /\ mem' = mem
    BY <1>6 DEF Begin
  <2>2. n' \in Nat
    BY <1>2, <2>1
  <2> QED BY <1>1, <2>1, <2>2, LoopBegun
<1>7. CASE /\ ~(n >= MaxDataBytes)
           /\ mem' = [mem EXCEPT ![n] = IF q < call.bufferLen THEN src[q] ELSE @]
           /\ n' = n + 1 /\ i' = q + 1 /\ fn' = fn /\ val' = val
  <2>1. Counters'
    BY <1>1, <1>2, <1>4, <1>7 DEF Counters
  <2>2. PICK byte : byte = IF q < call.bufferLen THEN src[q] ELSE mem[n]
    OBVIOUS
  <2>3. byte \in Byte
    <3>1. CASE q < call.bufferLen
      <4>1. q \in 0..(call.bufferLen - 1)
        BY <1>1, <1>4, <3>1, ValueNumbers
      <4>2. Sent[q] \in Byte
        BY <1>1, <4>1, SentIs
      <4> QED BY <1>2, <2>2, <3>1, <4>2
    <3>2. CASE ~(q < call.bufferLen)
      <4>1. n \in DOMAIN mem
        <5>1. n \in 0..(MaxDataBytes - 1)
          BY <1>2, <1>7
        <5> QED BY <1>1, <5>1 DEF ValueBuffer
      <4>2. mem[n] \in Byte
        BY <1>1, <4>1 DEF ValueBuffer
      <4> QED BY <2>2, <3>2, <4>2
    <3> QED BY <3>1, <3>2
  <2>4. mem' = [mem EXCEPT ![n] = byte] /\ fn' = fn
    BY <1>7, <2>2
  <2> QED BY <1>1, <2>1, <2>3, <2>4, ByteWritten
<1> QED BY <1>3, <1>5, <1>6, <1>7 DEF ExtractStep

(* switchDataEndianness() writes bytes that were there. *)
LEMMA SwitchTypes ==
  ASSUME LoopsInv, TypeOK, SwitchStep, call' = call
  PROVE  TypeOK'
<1>1. Counters /\ fn = "switch" /\ call.fn = "setFieldValue" /\ IsValueCall
  BY TypesAre, LoopOfCall DEF SwitchStep
<1>2. i \in 0..n /\ Switched(i)
  BY <1>1 DEF LoopsInv, ValueInv
<1>3. n \in Nat /\ n = Len(Got)
  BY <1>1, <1>2, GotIs DEF Switched
<1>4. CASE Begin("convert", 0, n, mem, mem)
  <2>1. fn' = "convert" /\ i' = 0 /\ n' \in Nat /\ val' = val /\ mem' = mem
    BY <1>3, <1>4 DEF Begin
  <2> QED BY <1>1, <2>1, LoopBegun
<1>5. CASE /\ i < n /\ mem' = [mem EXCEPT ![i] = src[n - i - 1]] /\ i' = i + 1
           /\ UNCHANGED <<call, fn, n, src, val>>
  <2>1. PICK k : k = n - i - 1
    OBVIOUS
  <2>2. k \in 0..(n - 1) /\ k + 1 \in 1..Len(Got)
    BY <1>2, <1>3, <1>5, <2>1
  <2>3. src[k] = Got[k + 1]
    BY <1>2, <2>2 DEF Switched
  <2>4. src[k] \in Byte
    BY <1>1, <2>2, <2>3, GotIs
  <2>5. Counters'
    BY <1>1, <1>5 DEF Counters
  <2> QED BY <1>1, <1>5, <2>1, <2>4, <2>5, ByteWritten
<1> QED BY <1>4, <1>5 DEF SwitchStep

(* convertFromCString() writes no buffer. *)
LEMMA FromCStringTypes ==
  ASSUME LoopsInv, TypeOK, FromCStringStep, call' = call
  PROVE  TypeOK'
<1>1. Counters /\ fn = "convert" /\ call.fn = "setFieldValue" /\ IsValueCall
  BY TypesAre, LoopOfCall DEF FromCStringStep
<1>2. Received(src) /\ Read(i)
  BY <1>1 DEF LoopsInv, ValueInv
<1>3. n \in Nat /\ i \in Nat /\ PlacesToShift \in Nat /\ PlacesToShift <= n
  <2>1. n \in Nat
    BY <1>1, <1>2, ReceivedBytes
  <2>2. PlacesToShift \in Nat /\ PlacesToShift <= n
    BY <1>1, <2>1, ValueNumbers DEF PlacesToShift
  <2> QED BY <1>2, <2>1, <2>2 DEF Read
<1>4. \A v \in Int : Truncated(v, call.readSize) \in Int
  <2>1. PICK p \in Nat : p = Power[call.readSize] /\ p > 0
    BY <1>1, ValueNumbers, Powers
  <2>2. \A v \in Int : v % p \in Int
    BY <2>1
  <2> QED BY <2>1, <2>2 DEF Truncated
<1>5. CASE mem' = mem /\ i' = i /\ n' = n /\ fn' = "done" /\ (val' = 0 \/ val' = val)
  <2>1. Counters'
    BY <1>1, <1>5 DEF Counters
  <2> QED BY <1>5, <2>1, BufferLeft
<1>6. CASE /\ n > 0 /\ i < PlacesToShift
           /\ val' = IF i = 0 THEN Truncated(Char(src[0]), call.readSize)
                     ELSE Truncated(val * Base + src[i], call.readSize)
           /\ i' = i + 1
           /\ UNCHANGED <<call, fn, n, src, mem>>
  <2>1. src[0] \in Byte /\ src[i] \in Byte
    <3>1. 0 \in 0..(n - 1) /\ i \in 0..(n - 1)
      BY <1>3, <1>6
    <3> QED BY <1>1, <1>2, <3>1, ReceivedBytes
  <2>2. Base \in Nat /\ \A b \in Byte : b \in Int
    BY UtilAssumption DEF Byte
  <2>3. Char(src[0]) \in Int
    BY <2>1, <2>2 DEF Char
  <2>4. val * Base + src[i] \in Int
    BY <1>1, <2>1, <2>2 DEF Counters
  <2>5. val' \in Int
    BY <1>4, <1>6, <2>3, <2>4
  <2>6. Counters'
    BY <1>1, <1>3, <1>6, <2>5 DEF Counters
  <2> QED BY <1>6, <2>6, BufferLeft
<1> QED BY <1>5, <1>6 DEF FromCStringStep, Return

(* A step of any function keeps the types. *)
LEMMA TypesStep ==
  ASSUME LoopsInv, TypeOK, [Next]_vars
  PROVE  TypeOK'
<1>1. call' = call
  BY CallKept
<1>2. DeleteInv'
  BY LoopsStep DEF LoopsInv
<1>3. CASE UNCHANGED vars
  <2>1. /\ call' = call /\ fn' = fn /\ i' = i /\ n' = n /\ mem' = mem /\ val' = val
    BY <1>3 DEF vars
  <2> QED BY <2>1 DEF TypeOK
<1>4. CASE MemstrStep \/ CountStep
  BY <1>1, <1>4, SearchTypes
<1>5. CASE DeleteStep
  BY <1>1, <1>2, <1>5, DeleteTypes
<1>6. CASE AssembleStep \/ NormalizeStep
  BY <1>1, <1>6, FrameTypes
<1>7. CASE ToCStringStep
  BY <1>1, <1>7, ToCStringTypes
<1>8. CASE InsertStep
  BY <1>1, <1>8, InsertTypes
<1>9. CASE ExtractStep
  BY <1>1, <1>9, ExtractTypes
<1>10. CASE SwitchStep
  BY <1>1, <1>10, SwitchTypes
<1>11. CASE FromCStringStep
  BY <1>1, <1>11, FromCStringTypes
<1> QED BY <1>3, <1>4, <1>5, <1>6, <1>7, <1>8, <1>9, <1>10, <1>11 DEF Next

-----------------------------------------------------------------------------
(* memstr() and countInString() return the first place of the needle and   *)
(* the number of hits, for every haystack, needle and string: the loops of *)
(* util.cpp compute what SerialFrames says.                                *)
THEOREM SearchesCorrect == Spec => []SearchesAreExact
<1>1. Init => SearchInv
  BY SearchInit
<1>2. SearchInv /\ [Next]_vars => SearchInv'
  BY SearchStep
<1>3. SearchInv => SearchesAreExact
  BY DEF SearchInv, MemstrInv, CountInv, SearchesAreExact
<1> QED BY <1>1, <1>2, <1>3, PTL DEF Spec

(* deleteFieldAndShiftBuffer() leaves the other bytes of the message in    *)
(* their order, and moves up what lies behind the message, for every       *)
(* frame, field and buffer; the byte that every memmove() reads from       *)
(* behind the buffer never ends up below the length that is returned.      *)
THEOREM DeletionCorrect == Spec => []DeletesOnlyTheField
<1>1. Init => SearchInv /\ DeleteInv
  BY SearchInit, DeleteInit
<1>2. SearchInv /\ DeleteInv /\ [Next]_vars => SearchInv' /\ DeleteInv'
  BY SearchStep, DeleteKept
<1>3. DeleteInv => DeletesOnlyTheField
  BY DEF DeleteInv, DeletesOnlyTheField
<1> QED BY <1>1, <1>2, <1>3, PTL DEF Spec

(* assembleSerialFrame() gives every component its places, one after the   *)
(* other, and normalizeSerialFrame() rotates a frame to its sync field     *)
(* without tearing it apart, for every sequence of components and every    *)
(* frame.                                                                  *)
THEOREM FramesCorrect == Spec => []FramesAreBuilt
<1>1. Init => SearchInv /\ AssembleInv /\ NormalizeInv
  <2> SUFFICES ASSUME Init PROVE SearchInv /\ AssembleInv /\ NormalizeInv
    OBVIOUS
  <2>1. NormalizeInv
    BY DEF Init, NormalizeInv
  <2> QED BY <2>1, SearchInit, AssembleInit
<1>2. SearchInv /\ AssembleInv /\ NormalizeInv /\ [Next]_vars
        => SearchInv' /\ AssembleInv' /\ NormalizeInv'
  BY SearchStep, AssembleKept, NormalizeKept
<1>3. AssembleInv /\ NormalizeInv => FramesAreBuilt
  BY DEF AssembleInv, NormalizeInv, Normalized, FramesAreBuilt
<1> QED BY <1>1, <1>2, <1>3, PTL DEF Spec

(* Whatever frame, field, data and buffer, insertFieldToBuffer() and       *)
(* extractFieldFromBuffer() pack and parse a field as the other modules    *)
(* say, a place at a time, also if places or data are left over.           *)
THEOREM FieldsCorrect == Spec => []FieldsAreExact
<1>1. LoopsInv /\ [Next]_vars => LoopsInv'
  BY LoopsStep
<1>2. LoopsInv => FieldsAreExact
  BY FieldsKnown
<1> QED BY <1>1, <1>2, LoopsInit, PTL DEF Spec

(* A value of any size that is set on one side is read on the other side,  *)
(* extended by its sign if a wider type is read, and with its bytes        *)
(* reversed if only the receiver switches endianness.                      *)
THEOREM ValuesCorrect == Spec => []ValuesArrive
<1>1. LoopsInv /\ [Next]_vars => LoopsInv'
  BY LoopsStep
<1>2. LoopsInv => ValuesArrive
  BY DEF LoopsInv, ValueInv, ValuesArrive
<1> QED BY <1>1, <1>2, LoopsInit, PTL DEF Spec

(* The loops of util.cpp and of the conversions write bytes, and only      *)
(* within their buffers; a deletion leaves the byte behind its buffer.     *)
THEOREM UtilTypeCorrect == Spec => []TypeOK
<1>1. Init => LoopsInv /\ TypeOK
  BY LoopsInit, TypesInit
<1>2. LoopsInv /\ TypeOK /\ [Next]_vars => LoopsInv' /\ TypeOK'
  BY LoopsStep, TypesStep
<1> QED BY <1>1, <1>2, PTL DEF Spec
=============================================================================
