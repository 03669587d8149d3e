----------------------------- MODULE MemoryQueue ------------------------------
(***************************************************************************)
(* libs/bsw/io, MemoryQueue.h: a queue of slices of bytes between one      *)
(* writer and one reader, without a lock.  Two indices run modulo twice    *)
(* the capacity; `sent' is written by the writer only and `received' by    *)
(* the reader only.  A slice is stored behind its size and never wraps.    *)
(*                                                                         *)
(* The writer and the reader run concurrently: an action reads or writes   *)
(* what the other side shares at most once, and the bytes of a slice are   *)
(* written and read in steps of their own.  A byte is known by the message *)
(* it belongs to and its place in it; a byte of a size field by the size.  *)
(***************************************************************************)
EXTENDS Integers, Sequences

CONSTANTS Capacity,     \* CAPACITY, in bytes
          MaxElement,   \* MAX_ELEMENT_SIZE
          SizeBytes,    \* sizeof(SIZE_TYPE)
          Tags,         \* what tells messages apart
          Blank         \* no message

\* The static_assert of the class.
ASSUME QueueAssumption ==
  /\ Capacity \in Nat /\ MaxElement \in Nat \ {0} /\ SizeBytes \in Nat \ {0}
  /\ Capacity >= MaxElement + SizeBytes /\ Blank \notin Tags

VARIABLES
  sent, received,  \* the two indices
  data,            \* the array
  allocated,       \* of the writer: the bytes of the last allocation, 0 if there is none
  minAvailable,
  filled,          \* the writer's user: the tag it has filled the slice with
  committing,      \* commit() has stored the size, not yet the index
  span             \* of the reader: the slice peek() has returned, or NoSpan

writerVars == <<sent, allocated, minAvailable, filled, committing>>
vars == <<writerVars, received, data, span>>

Sizes    == 1 .. MaxElement
NoSpan   == [index |-> 0, size |-> 0]
Index    == 0 .. 2 * Capacity - 1

\* A byte: of a size field (tag Blank) or of a message.
Byte == [tag : Tags \cup {Blank}, value : 0 .. MaxElement]

TypeOK ==
  /\ sent \in Index /\ received \in Index
  /\ data \in [0 .. Capacity - 1 -> Byte]
  /\ allocated \in 0 .. MaxElement /\ minAvailable \in 0 .. Capacity
  /\ filled \in Tags \cup {Blank} /\ committing \in BOOLEAN
  /\ span \in [index : 0 .. Capacity - 1, size : 0 .. MaxElement]

Init ==
  /\ sent = 0 /\ received = 0
  /\ data = [k \in 0 .. Capacity - 1 |-> [tag |-> Blank, value |-> 0]]
  /\ allocated = 0 /\ minAvailable = Capacity
  /\ filled = Blank /\ committing = FALSE
  /\ span = NoSpan
-------------------------------------------------------------------------------
\* The contiguous bytes an allocation may need.
Room == MaxElement + SizeBytes

\* Mutant: the piece at the end of the array is not skipped.
AdvanceNoSkip(index, size) == (index + size + SizeBytes) % (2 * Capacity)

\* advanceIndex(): past the slice, and past the end of the array if too little is left.
AdvanceIndex(index, size) ==
  LET next  == (index + size + SizeBytes) % (2 * Capacity)
      space == (2 * Capacity - next) % Capacity
  IN IF space < Room THEN (next + space) % (2 * Capacity) ELSE next

\* The bytes from the reader's index to the writer's.
UsedBytes(w, r) == IF w < r THEN w + 2 * Capacity - r ELSE w - r

\* Mutant: whatever is left counts as available.
AvailableAny(w, r) == Capacity - UsedBytes(w, r)

\* TxData::available().
Available(w, r) ==
  LET freeBytes == Capacity - UsedBytes(w, r)
  IN IF freeBytes < Room THEN 0 ELSE freeBytes

\* Writer::allocate(); it may be called again before commit(), to trim the slice (what has
\* been written stays) or to get a larger one.
Allocate(size) ==
  /\ ~committing
  /\ LET freeBytes == Available(sent, received)
         asked == size \in Sizes
     IN /\ allocated' = IF asked /\ freeBytes > 0 THEN size ELSE 0
        /\ minAvailable' = IF asked /\ freeBytes < minAvailable THEN freeBytes ELSE minAvailable
        /\ filled' = IF asked /\ freeBytes > 0 /\ size <= allocated THEN filled ELSE Blank
  /\ UNCHANGED <<sent, committing, received, data, span>>

\* The user writes to the slice.
Fill(tag) ==
  /\ allocated > 0 /\ ~committing
  /\ filled' = tag
  /\ LET first == (sent % Capacity) + SizeBytes
     IN data' = [k \in DOMAIN data |-> IF k \in first .. first + allocated - 1
                                       THEN [tag |-> tag, value |-> k - first + 1]
                                       ELSE data[k]]
  /\ UNCHANGED <<sent, allocated, minAvailable, committing, received, span>>

\* Mutant: the index is published before the size.
CommitPublishFirst ==
  /\ allocated > 0 /\ filled # Blank /\ ~committing
  /\ committing' = TRUE
  /\ sent' = AdvanceIndex(sent, allocated)
  /\ UNCHANGED <<allocated, minAvailable, filled, received, data, span>>

\* Writer::commit() stores the size in front of the slice ...
CommitSize ==
  /\ allocated > 0 /\ filled # Blank /\ ~committing
  /\ committing' = TRUE
  /\ LET first == sent % Capacity
     IN data' = [k \in DOMAIN data |-> IF k \in first .. first + SizeBytes - 1
                                       THEN [tag |-> Blank, value |-> allocated]
                                       ELSE data[k]]
  /\ UNCHANGED <<sent, allocated, minAvailable, filled, received, span>>

\* ... and then the index, which makes the slice visible.
CommitIndex ==
  /\ committing
  /\ committing' = FALSE
  /\ sent' = AdvanceIndex(sent, allocated)
  /\ allocated' = 0 /\ filled' = Blank
  /\ UNCHANGED <<minAvailable, received, data, span>>

\* Writer::resetMinAvailable().
ResetMinAvailable ==
  /\ ~committing
  /\ minAvailable' = Available(sent, received)
  /\ UNCHANGED <<sent, allocated, filled, committing, received, data, span>>

Empty == received = sent

\* The size in front of the slice at an index of the reader.
SizeAt(r) == data[r % Capacity].value

\* Reader::peek(); the reader keeps the slice and reads it later.
Peek ==
  /\ ~Empty
  /\ span' = [index |-> ((received % Capacity) + SizeBytes) % Capacity, size |-> SizeAt(received)]
  /\ UNCHANGED <<writerVars, received, data>>

\* Reader::release(), also a step of clear(): the size is read again, the slice is gone.
Release ==
  /\ ~Empty
  /\ received' = AdvanceIndex(received, SizeAt(received))
  /\ span' = NoSpan
  /\ UNCHANGED <<writerVars, data>>

Next == \/ \E size \in 0 .. MaxElement + 1 : Allocate(size)
        \/ \E tag \in Tags : Fill(tag)
        \/ CommitSize \/ CommitIndex \/ ResetMinAvailable \/ Peek \/ Release

Spec == Init /\ [][Next]_vars
-------------------------------------------------------------------------------
\* The bytes of a slice.
Slice(index, size) == [k \in 1 .. size |-> data[(index + k - 1) % Capacity]]

\* The positions of the stored slices: Position[n] is where the reader is after n releases.
Position[n \in 0 .. Capacity] ==
  IF n = 0 THEN received
  ELSE IF Position[n - 1] = sent THEN sent
  ELSE AdvanceIndex(Position[n - 1], SizeAt(Position[n - 1]))

\* The slices the reader will get, decoded from the array as peek() and release() do.
Stored ==
  LET count == CHOOSE n \in 0 .. Capacity + 1 :
                 /\ n <= Capacity => Position[n] = sent
                 /\ \A k \in 0 .. n - 1 : Position[k] # sent
  IN [n \in 1 .. count |-> Slice((Position[n - 1] % Capacity) + SizeBytes, SizeAt(Position[n - 1]))]

\* What a user may put into a slice.
MessageOf(tag, size) == [k \in 1 .. size |-> [tag |-> tag, value |-> k]]
AllMessages == {MessageOf(tag, size) : tag \in Tags, size \in Sizes}

Abstract == INSTANCE Fifo WITH queue <- Stored, Messages <- AllMessages

\* The array, read from `received' to `sent', is a queue: a commit appends the message the
\* user has written, whole; a release takes the first one; allocating, filling and storing
\* the size change nothing the reader can see, whatever the two sides do at the same time.
ImplementsFifo == Abstract!Spec

\* The slice the reader has peeked stays what it was until the reader releases it: it is
\* the first message of the queue, and no byte of it is written.
PeekIsIntact ==
  span # NoSpan => /\ ~Empty
                   /\ Slice(span.index, span.size) = Stored[1]

\* "they will never point to an index where not at least MAX_ELEMENT_SIZE +
\* sizeof(SIZE_TYPE) bytes are the difference to the end of the data array"
\* (MemoryQueue.h:143-146), no more bytes are in use than there are, and an allocation is
\* outside of what the reader may still read.
AllocationIsFree ==
  /\ \A i \in {sent, received} : Capacity - (i % Capacity) >= Room
  /\ UsedBytes(sent, received) <= Capacity
  /\ allocated > 0 => UsedBytes(sent, received) + Room <= Capacity
===============================================================================
