--------------------------- MODULE RingBufferProofs ---------------------------
(***************************************************************************)
(* The log of the UI shows its own end, for a buffer of any size: what     *)
(* internal/telemetry/ring_buffer.go promises.                             *)
(***************************************************************************)
EXTENDS RingBuffer, TLAPS

\* Numbers that are less than n apart have different remainders: a slot is not written
\* again before the buffer has gone round.
LEMMA Apart ==
  ASSUME NEW n \in Nat \ {0}, NEW a \in Nat, NEW b \in Nat, a < b, b - a < n
  PROVE  a % n # b % n
<1> DEFINE p == a \div n
           q == b \div n
<1>1. p \in Nat /\ q \in Nat
  OBVIOUS
<1>2. a % n = a - n * p
  OBVIOUS
<1>3. b % n = b - n * q
  OBVIOUS
<1> HIDE DEF p, q
<1>4. SUFFICES ASSUME a % n = b % n PROVE FALSE
  OBVIOUS
<1>5. n * q - n * p = b - a
  BY <1>1, <1>2, <1>3, <1>4
<1>6. CASE q <= p
  <2>1. n * q <= n * p
    BY <1>1, <1>6
  <2> QED
    BY <2>1, <1>1, <1>5
<1>7. CASE q > p
  <2>1. n * q >= n * (p + 1)
    BY <1>1, <1>7
  <2>2. n * (p + 1) = n * p + n
    BY <1>1
  <2> QED
    BY <2>1, <2>2, <1>1, <1>5
<1> QED
  BY <1>1, <1>6, <1>7

\* The entries that are not older than the buffer are each in their slot.
InPlace ==
  \A i \in 1 .. Len(written) : Len(written) - i < Size => buf[(i - 1) % Size] = written[i]

IInv == TypeOK /\ InPlace

LEMMA SlotOf == ASSUME SizeAssumption, NEW i \in Nat PROVE i % Size \in Slots
BY DEF SizeAssumption, Slots

LEMMA StartsInPlace == ASSUME SizeAssumption, Init PROVE IInv
BY DEF Init, IInv, TypeOK, InPlace, Slots

LEMMA PushKeepsPlaces ==
  ASSUME SizeAssumption, IInv, NEW e \in Entry, Push(e)
  PROVE  IInv'
<1>1. total \in Nat /\ total = Len(written) /\ written \in Seq(Entry)
  BY DEF IInv, TypeOK
<1>2. total % Size \in Slots
  BY <1>1, SlotOf
<1>3. written' = Append(written, e) /\ Len(written') = total + 1 /\ total' = total + 1
  BY <1>1 DEF Push
<1>4. TypeOK'
  BY <1>1, <1>2, <1>3 DEF IInv, TypeOK, Push
<1>5. InPlace'
  <2> SUFFICES ASSUME NEW i \in 1 .. total + 1, total + 1 - i < Size
               PROVE  buf'[(i - 1) % Size] = written'[i]
    BY <1>1, <1>3 DEF InPlace, SizeAssumption
  <2>1. CASE i = total + 1
    BY <2>1, <1>1, <1>2, <1>3 DEF Push, IInv, TypeOK
  <2>2. CASE i # total + 1
    <3>1. i \in 1 .. total /\ i - 1 \in Nat /\ total - i < Size
      BY <2>2, <1>1 DEF SizeAssumption
    <3>2. (i - 1) % Size # total % Size
      <4>1. i - 1 < total /\ total - (i - 1) < Size /\ Size \in Nat \ {0}
        BY <3>1, <1>1 DEF SizeAssumption
      <4> QED
        BY <4>1, <3>1, <1>1, Apart
    <3>3. buf[(i - 1) % Size] = written[i]
      BY <3>1, <1>1 DEF IInv, InPlace
    <3>4. (i - 1) % Size \in Slots
      BY <3>1, SlotOf
    <3>5. buf'[(i - 1) % Size] = buf[(i - 1) % Size]
      BY <3>2, <3>4 DEF Push, IInv, TypeOK
    <3> QED
      BY <3>1, <3>3, <3>5, <1>1, <1>3
  <2> QED
    BY <2>1, <2>2
<1> QED
  BY <1>4, <1>5 DEF IInv

\* Any request is answered with a number of entries that there are.
LEMMA Clamped ==
  ASSUME SizeAssumption, total \in Nat, NEW n \in Int
  PROVE  /\ Count(n) \in 0 .. Size /\ Count(n) <= total
         /\ n \in 0 .. Size /\ n <= total => Count(n) = n
BY DEF SizeAssumption, Count

LEMMA PlacesShowTail == ASSUME SizeAssumption, IInv PROVE LogShowsTail
<1>1. total \in Nat /\ total = Len(written)
  BY DEF IInv, TypeOK
<1> SUFFICES ASSUME NEW n \in -1 .. Size + 1
             PROVE  /\ Count(n) \in 0 .. Size
                    /\ Count(n) <= Len(written)
                    /\ n \in 0 .. Size /\ n <= Len(written) => Count(n) = n
                    /\ \A k \in 1 .. Count(n) :
                         Last(n)[k] = written[Len(written) - Count(n) + k]
  BY DEF LogShowsTail
<1>2. n \in Int /\ Size \in Nat
  BY DEF SizeAssumption
<1>3. /\ Count(n) \in 0 .. Size /\ Count(n) <= total
      /\ n \in 0 .. Size /\ n <= total => Count(n) = n
  BY <1>1, <1>2, Clamped
<1>4. ASSUME NEW k \in 1 .. Count(n)
      PROVE  Last(n)[k] = written[total - Count(n) + k]
  <2> DEFINE i == total - Count(n) + k
  <2>1. i \in 1 .. total /\ total - i < Size
    BY <1>1, <1>2, <1>3
  <2>2. total - Count(n) + k - 1 = i - 1
    BY <1>1, <1>2, <1>3
  <2>3. Last(n)[k] = buf[(total - Count(n) + k - 1) % Size]
    BY DEF Last
  <2> QED
    BY <2>1, <2>2, <2>3, <1>1 DEF IInv, InPlace
<1> QED
  BY <1>1, <1>3, <1>4

LEMMA PlacesKept == ASSUME SizeAssumption, IInv, [Next]_ringVars PROVE IInv'
<1>1. ASSUME NEW e \in Entry, Push(e) PROVE IInv'
  BY <1>1, PushKeepsPlaces
<1>2. CASE UNCHANGED ringVars
  BY <1>2 DEF ringVars, IInv, TypeOK, InPlace
<1> QED
  BY <1>1, <1>2 DEF Next

\* The array, the counter and what was written have their types, and agree.
THEOREM RingBufferTypeSafety == ASSUME SizeAssumption PROVE Spec => []TypeOK
<1>1. Init => IInv
  BY StartsInPlace
<1>2. IInv /\ [Next]_ringVars => IInv'
  BY PlacesKept
<1>3. IInv => TypeOK
  BY DEF IInv
<1> QED
  BY <1>1, <1>2, <1>3, PTL DEF Spec

\* Last(n) is the end of the log, for every n and every size of the buffer.
THEOREM TailShown == ASSUME SizeAssumption PROVE Spec => []LogShowsTail
<1>1. Init => IInv
  BY StartsInPlace
<1>2. IInv /\ [Next]_ringVars => IInv'
  BY PlacesKept
<1>3. IInv => LogShowsTail
  BY PlacesShowTail
<1> QED
  BY <1>1, <1>2, <1>3, PTL DEF Spec
=============================================================================
