------------------------------- MODULE MCUtil -------------------------------
(***************************************************************************)
(* Short haystacks, buffers and frames, and all values of types of up to   *)
(* three bytes.  The byte behind a buffer is 9, which no other is.         *)
(***************************************************************************)
EXTENDS UtilProperties

F == 1   \* the field that is looked at
X == 2   \* another one

Upto(S, len) == UNION {[1..k -> S] : k \in 0..len}

Buffer(seq) == [k \in 0..(Len(seq) - 1) |-> seq[k + 1]]

Searches ==
  {[fn |-> "memstr", haystack |-> Buffer(h), numHaystack |-> Len(h), needle |-> d] :
     h \in Upto({0, 1}, 5), d \in Upto({0, 1}, 3)}
  \cup {[fn |-> "count", string |-> s, char |-> 1] : s \in Upto({0, 1}, 4)}

Deletions ==
  {[fn |-> "delete", frame |-> f, field |-> F, len |-> len,
    buffer |-> [k \in 0..len |-> IF k = len THEN 9 ELSE k]] :
     f \in Upto({F, X}, 4), len \in 2..6}

FrameCalls ==
  {[fn |-> "assemble", components |-> c] :
     c \in Upto([field : {1, 255, 257}, places : 0..2], 2)}
  \cup {[fn |-> "normalize", frame |-> f] : f \in Upto({F, X, FIELD_SYNC}, 4)}

Values(size) == 0..(Power[size] - 1)

ValueCalls ==
  {[fn |-> "setFieldValue", value |-> vs[1], size |-> vs[2], frame |-> f, field |-> F,
    bufferLen |-> len, readSize |-> r, switchEndianness |-> e] :
     vs \in UNION {Values(size) \X {size} : size \in 1..3},
     f \in Upto({F, X}, 4), len \in {3, 4}, r \in 1..3, e \in BOOLEAN}

MCCalls == Searches \cup Deletions \cup FrameCalls \cup ValueCalls
=============================================================================
