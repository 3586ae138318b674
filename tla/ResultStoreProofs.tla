-------------------------- MODULE ResultStoreProofs --------------------------
(***************************************************************************)
(* Proofs about ResultStore: what a client puts together from pages is a   *)
(* prefix of its own result, and a stored result is lost only for a reason *)
(* the store documents.                                                    *)
(*                                                                         *)
(* The inductive invariant says of the store that its entries carry the    *)
(* key of the process and sequence numbers in use, and that the running    *)
(* total is the sum of their bytes; and of each client that it has read    *)
(* the first k characters of its text, holds the byte offset of the k-th   *)
(* and an identifier that names no result but its own, now or later.       *)
(***************************************************************************)
EXTENDS ResultStore, DataLemmas

Chars == DOMAIN CharLen

Pcs == {"idle", "reading", "complete", "refused", "unavailable"}

Entries ==
    [id : Nat \X Nat, project_root : Roots, json : Texts, stored_at : Nat, bytes : Nat]

(* What the store may hold. *)
StoreOK(s) ==
    /\ s = [entries |-> s.entries, retained_bytes |-> s.retained_bytes]
    /\ s.entries \in Seq(Entries)
    /\ s.retained_bytes = Retained(s.entries)
    /\ Len(s.entries) <= MaxStored
    /\ s.retained_bytes <= MaxBytes

(* The entries are results of this process, under identifiers it has used. *)
OwnIds(s) ==
    \A i \in 1 .. Len(s.entries) :
        LET e == s.entries[i]
        IN  /\ e.id[1] = process_key /\ e.id[2] < next_sequence
            /\ e.bytes = RetainedSize(e.json)

IdUsed(id) ==
    \/ id = <<>>
    \/ /\ id \in Nat \X Nat
       /\ id[1] < process_key \/ (id[1] = process_key /\ id[2] < next_sequence)

HasRead(q, k) ==
    q.got = SubSeq(q.text, 1, k) /\ q.offset = Bytes(SubSeq(q.text, 1, k))

(* What a client may hold. *)
ClientOK(q) ==
    /\ q = [pc |-> q.pc, root |-> q.root, text |-> q.text, id |-> q.id, at |-> q.at,
            offset |-> q.offset, got |-> q.got]
    /\ q.pc \in Pcs
    /\ q.pc = "idle" => q = Idle
    /\ q.pc \in {"refused", "unavailable"} => q.got = <<>> /\ q.text = <<>>
    /\ q.pc = "complete" => q.text \in Texts /\ q.got = q.text
    /\ q.pc = "reading" => q.text \in Texts /\ \E k \in 0 .. (Len(q.text) - 1) : HasRead(q, k)

(* A client's identifier names no other result. *)
NamesItsOwn(q, s) ==
    \A i \in 1 .. Len(s.entries) :
        s.entries[i].id = q.id => s.entries[i].json = q.text /\ s.entries[i].stored_at = q.at

IInv ==
    /\ next_sequence \in Nat /\ process_key \in Nat /\ now \in Nat
    /\ StoreOK(store)
    /\ OwnIds(store)
    /\ client \in [Clients -> {client[c] : c \in Clients}]
    /\ \A c \in Clients : ClientOK(client[c]) /\ IdUsed(client[c].id)
                          /\ NamesItsOwn(client[c], store)

(* Nothing that is stored ever exceeds the limits of the store, and the    *)
(* running total is what is really retained (insert, evict_oldest).        *)
StoreBounded ==
    /\ Len(store.entries) <= MaxStored
    /\ store.retained_bytes <= MaxBytes
    /\ store.retained_bytes = Retained(store.entries)

(* A cursor that the server issued is a boundary of the result it was      *)
(* issued for, and a page always holds a character (decode_cursor,         *)
(* fit_page): no client sees either error.                                 *)
NoReadFails ==
    \A c \in Clients : client[c].pc \notin {"invalid_cursor", "limit_too_small"}

USE StoreAssumption
-----------------------------------------------------------------------------
(* The lengths and the costs of a text, as sequences of numbers. *)
LensOf(t) == [i \in DOMAIN t |-> CharLen[t[i]]]
CostsOf(t) == [i \in DOMAIN t |-> CharCost[t[i]]]
SizesOf(es) == [i \in DOMAIN es |-> es[i].bytes]

LEMMA TextNumbers ==
    ASSUME NEW t \in Texts
    PROVE  /\ LensOf(t) \in Seq(Nat) /\ Len(LensOf(t)) = Len(t)
           /\ \A i \in 1 .. Len(t) : LensOf(t)[i] > 0
           /\ CostsOf(t) \in Seq(Nat) /\ Len(CostsOf(t)) = Len(t)
           /\ \A i \in 1 .. Len(t) : CostsOf(t)[i] <= PageBudget
           /\ t \in Seq(Chars) /\ DOMAIN t = 1 .. Len(t) /\ Len(t) \in Nat
<1>1. t \in Seq(Chars) /\ DOMAIN t = 1 .. Len(t) /\ Len(t) \in Nat
  BY DEF Chars, StoreAssumption
<1>2. \A i \in 1 .. Len(t) : CharLen[t[i]] \in Nat \ {0} /\ CharCost[t[i]] \in 0 .. PageBudget
                             /\ PageBudget \in Nat
  BY <1>1 DEF StoreAssumption
<1> QED
  BY <1>1, <1>2 DEF LensOf, CostsOf

LEMMA PieceNumbers ==
    ASSUME NEW t \in Texts, NEW a \in 1 .. (Len(t) + 1), NEW b \in (a - 1) .. Len(t)
    PROVE  /\ Bytes(SubSeq(t, a, b)) = SumFunction(SubSeq(LensOf(t), a, b))
           /\ Cost(SubSeq(t, a, b)) = SumFunction(SubSeq(CostsOf(t), a, b))
<1>1. /\ t \in Seq(Chars) /\ DOMAIN t = 1 .. Len(t) /\ Len(t) \in Nat
      /\ LensOf(t) \in Seq(Nat) /\ Len(LensOf(t)) = Len(t)
      /\ CostsOf(t) \in Seq(Nat) /\ Len(CostsOf(t)) = Len(t)
  BY TextNumbers
<1>2. /\ SubSeq(t, a, b) = [i \in 1 .. (b - (a - 1)) |-> t[i + a - 1]]
      /\ SubSeq(LensOf(t), a, b) = [i \in 1 .. (b - (a - 1)) |-> LensOf(t)[i + a - 1]]
      /\ SubSeq(CostsOf(t), a, b) = [i \in 1 .. (b - (a - 1)) |-> CostsOf(t)[i + a - 1]]
  BY <1>1
<1>3. /\ [i \in DOMAIN SubSeq(t, a, b) |-> CharLen[SubSeq(t, a, b)[i]]] = SubSeq(LensOf(t), a, b)
      /\ [i \in DOMAIN SubSeq(t, a, b) |-> CharCost[SubSeq(t, a, b)[i]]] = SubSeq(CostsOf(t), a, b)
  <2>1. \A i \in 1 .. (b - (a - 1)) : i + a - 1 \in 1 .. Len(t)
    BY <1>1
  <2> QED
    BY <1>1, <1>2, <2>1 DEF LensOf, CostsOf
<1> QED
  BY <1>3 DEF Bytes, Cost

(* Two prefixes of as many bytes are the same prefix. *)
LEMMA BoundaryUnique ==
    ASSUME NEW t \in Texts, NEW j \in 0 .. Len(t), NEW k \in 0 .. Len(t),
           Bytes(SubSeq(t, 1, j)) = Bytes(SubSeq(t, 1, k))
    PROVE  j = k
<1>1. /\ LensOf(t) \in Seq(Nat) /\ Len(LensOf(t)) = Len(t) /\ Len(t) \in Nat
      /\ \A i \in 1 .. Len(LensOf(t)) : LensOf(t)[i] > 0
  BY TextNumbers
<1>2. \A m \in 0 .. Len(t) : Bytes(SubSeq(t, 1, m)) = SumFunction(SubSeq(LensOf(t), 1, m))
                             /\ SumFunction(SubSeq(LensOf(t), 1, m)) \in Nat
  <2> SUFFICES ASSUME NEW m \in 0 .. Len(t)
               PROVE  Bytes(SubSeq(t, 1, m)) = SumFunction(SubSeq(LensOf(t), 1, m))
                      /\ SumFunction(SubSeq(LensOf(t), 1, m)) \in Nat
    OBVIOUS
  <2>1. 1 \in 1 .. (Len(t) + 1) /\ m \in (1 - 1) .. Len(t)
        /\ 1 \in 1 .. (Len(LensOf(t)) + 1) /\ m \in (1 - 1) .. Len(LensOf(t))
    BY <1>1
  <2>2. SubSeq(LensOf(t), 1, m) \in Seq(Nat)
    BY <1>1, <2>1, SeqSumPiece
  <2> QED
    BY <2>1, <2>2, PieceNumbers, SeqSum
<1>3. ASSUME NEW m \in 0 .. Len(t), NEW n \in 0 .. Len(t), m < n
      PROVE  SumFunction(SubSeq(LensOf(t), 1, m)) < SumFunction(SubSeq(LensOf(t), 1, n))
  <2>1. n \in 0 .. Len(LensOf(t)) /\ m \in 0 .. (n - 1)
    BY <1>1, <1>3
  <2> QED
    BY <1>1, <2>1, SeqSumGrows
<1>4. CASE j < k
  BY <1>2, <1>3, <1>4
<1>5. CASE k < j
  BY <1>2, <1>3, <1>5
<1> QED
  BY <1>1, <1>4, <1>5

-----------------------------------------------------------------------------
(* The store. *)
LEMMA SizesNumbers ==
    ASSUME NEW es \in Seq(Entries)
    PROVE  /\ SizesOf(es) \in Seq(Nat) /\ Len(SizesOf(es)) = Len(es)
           /\ Retained(es) = SumFunction(SizesOf(es)) /\ Retained(es) \in Nat
<1>1. SizesOf(es) \in Seq(Nat) /\ Len(SizesOf(es)) = Len(es)
  <2>1. DOMAIN es = 1 .. Len(es) /\ Len(es) \in Nat /\ \A i \in 1 .. Len(es) : es[i] \in Entries
    OBVIOUS
  <2>2. \A i \in 1 .. Len(es) : es[i].bytes \in Nat
    BY <2>1 DEF Entries
  <2> QED
    BY <2>1, <2>2 DEF SizesOf
<1>2. Retained(es) = SumFunction(SizesOf(es))
  BY DEF Retained, SizesOf
<1> QED
  BY <1>1, <1>2, SeqSum

LEMMA RetainedPiece ==
    ASSUME NEW es \in Seq(Entries), NEW a \in 1 .. (Len(es) + 1), NEW b \in (a - 1) .. Len(es)
    PROVE  /\ SubSeq(es, a, b) \in Seq(Entries)
           /\ Retained(SubSeq(es, a, b)) = SumFunction(SubSeq(SizesOf(es), a, b))
<1>1. SubSeq(es, a, b) \in Seq(Entries) /\ Len(es) \in Nat
  OBVIOUS
<1>2. SizesOf(es) \in Seq(Nat) /\ Len(SizesOf(es)) = Len(es)
  BY SizesNumbers
<1>3. /\ SubSeq(es, a, b) = [i \in 1 .. (b - (a - 1)) |-> es[i + a - 1]]
      /\ SubSeq(SizesOf(es), a, b) = [i \in 1 .. (b - (a - 1)) |-> SizesOf(es)[i + a - 1]]
  BY <1>2
<1>4. \A i \in 1 .. (b - (a - 1)) : i + a - 1 \in 1 .. Len(es)
  OBVIOUS
<1>5. [i \in DOMAIN SubSeq(es, a, b) |-> SubSeq(es, a, b)[i].bytes] = SubSeq(SizesOf(es), a, b)
  BY <1>3, <1>4 DEF SizesOf
<1> QED
  BY <1>1, <1>5 DEF Retained

LEMMA RetainedSplits ==
    ASSUME NEW es \in Seq(Entries), NEW k \in 0 .. Len(es)
    PROVE  /\ Retained(SubSeq(es, 1, k)) \in Nat
           /\ Retained(SubSeq(es, k + 1, Len(es))) \in Nat
           /\ Retained(es) = Retained(SubSeq(es, 1, k)) + Retained(SubSeq(es, k + 1, Len(es)))
<1>1. SizesOf(es) \in Seq(Nat) /\ Len(SizesOf(es)) = Len(es) /\ Retained(es) = SumFunction(SizesOf(es))
  BY SizesNumbers
<1>2. 1 \in 1 .. (Len(es) + 1) /\ k \in (1 - 1) .. Len(es)
      /\ k + 1 \in 1 .. (Len(es) + 1) /\ Len(es) \in ((k + 1) - 1) .. Len(es)
  OBVIOUS
<1>3. /\ SubSeq(es, 1, k) \in Seq(Entries)
      /\ Retained(SubSeq(es, 1, k)) = SumFunction(SubSeq(SizesOf(es), 1, k))
  BY <1>2, RetainedPiece
<1>4. /\ SubSeq(es, k + 1, Len(es)) \in Seq(Entries)
      /\ Retained(SubSeq(es, k + 1, Len(es))) = SumFunction(SubSeq(SizesOf(es), k + 1, Len(es)))
  BY <1>2, RetainedPiece
<1>5. SumFunction(SizesOf(es)) = SumFunction(SubSeq(SizesOf(es), 1, k))
                               + SumFunction(SubSeq(SizesOf(es), k + 1, Len(es)))
  <2>1. k \in 0 .. Len(SizesOf(es))
    BY <1>1
  <2> QED
    BY <1>1, <2>1, SeqSumSplits
<1> QED
  BY <1>1, <1>3, <1>4, <1>5, SizesNumbers

LEMMA RetainedAppend ==
    ASSUME NEW es \in Seq(Entries), NEW e \in Entries
    PROVE  Append(es, e) \in Seq(Entries) /\ Retained(Append(es, e)) = Retained(es) + e.bytes
<1>1. SizesOf(es) \in Seq(Nat) /\ Retained(es) = SumFunction(SizesOf(es))
  BY SizesNumbers
<1>2. Append(es, e) \in Seq(Entries) /\ e.bytes \in Nat
  BY DEF Entries
<1>3. SizesOf(Append(es, e)) = Append(SizesOf(es), e.bytes)
  <2>1. /\ DOMAIN Append(es, e) = 1 .. (Len(es) + 1) /\ Len(es) \in Nat /\ DOMAIN es = 1 .. Len(es)
        /\ \A i \in 1 .. (Len(es) + 1) :
              Append(es, e)[i] = IF i = Len(es) + 1 THEN e ELSE es[i]
    OBVIOUS
  <2>2. SizesOf(Append(es, e)) = [i \in 1 .. (Len(es) + 1) |->
                                   IF i = Len(es) + 1 THEN e.bytes ELSE es[i].bytes]
    BY <2>1 DEF SizesOf
  <2>3. Len(SizesOf(es)) = Len(es) /\ \A i \in 1 .. Len(es) : SizesOf(es)[i] = es[i].bytes
    BY SizesNumbers DEF SizesOf
  <2>4. Append(SizesOf(es), e.bytes) = [i \in 1 .. (Len(es) + 1) |->
                                   IF i = Len(es) + 1 THEN e.bytes ELSE es[i].bytes]
    <3>1. /\ DOMAIN Append(SizesOf(es), e.bytes) = 1 .. (Len(es) + 1)
          /\ \A i \in 1 .. (Len(es) + 1) : Append(SizesOf(es), e.bytes)[i]
                = IF i = Len(es) + 1 THEN e.bytes ELSE SizesOf(es)[i]
          /\ Append(SizesOf(es), e.bytes) \in Seq(Nat)
      BY <1>1, <1>2, <2>3
    <3>2. \A i \in 1 .. (Len(es) + 1) : i # Len(es) + 1 => i \in 1 .. Len(es)
      BY <2>1
    <3> QED
      BY <2>3, <3>1, <3>2
  <2> QED
    BY <2>2, <2>4
<1>4. Retained(Append(es, e)) = SumFunction(Append(SizesOf(es), e.bytes))
  BY <1>2, <1>3, SizesNumbers
<1> QED
  BY <1>1, <1>2, <1>4, SeqSumAppend

(* s without its k oldest results. *)
Without(s, k, v) ==
    /\ v = [entries |-> v.entries, retained_bytes |-> v.retained_bytes]
    /\ v.entries = SubSeq(s.entries, k + 1, Len(s.entries))
    /\ v.entries \in Seq(Entries)
    /\ Len(v.entries) = Len(s.entries) - k
    /\ \A i \in 1 .. Len(v.entries) : i + k \in 1 .. Len(s.entries)
                                      /\ v.entries[i] = s.entries[i + k]
    /\ v.retained_bytes = Retained(v.entries)
    /\ v.retained_bytes \in Nat
    /\ v.retained_bytes <= s.retained_bytes

LEMMA EvictWithout ==
    ASSUME NEW s, StoreOK(s), NEW k \in 0 .. Len(s.entries)
    PROVE  Without(s, k, Evict(s, k)) /\ StoreOK(Evict(s, k))
<1> DEFINE es == s.entries
           v == Evict(s, k)
           rest == SubSeq(es, k + 1, Len(es))
<1>1. es \in Seq(Entries) /\ s.retained_bytes = Retained(es) /\ Len(es) <= MaxStored
      /\ s.retained_bytes <= MaxBytes /\ Len(es) \in Nat /\ k \in 0 .. Len(es)
      /\ MaxStored \in Nat /\ MaxBytes \in Nat
  BY DEF StoreOK, StoreAssumption
<1>2. v.entries = rest /\ v.retained_bytes = Retained(es) - Retained(SubSeq(es, 1, k))
      /\ v = [entries |-> v.entries, retained_bytes |-> v.retained_bytes]
  BY <1>1 DEF Evict
<1>3. rest \in Seq(Entries) /\ Len(rest) = Len(es) - k
      /\ \A i \in 1 .. Len(rest) : i + k \in 1 .. Len(es) /\ rest[i] = es[i + k]
  BY <1>1, SeqRest
<1>4. /\ Retained(SubSeq(es, 1, k)) \in Nat /\ Retained(rest) \in Nat
      /\ Retained(es) = Retained(SubSeq(es, 1, k)) + Retained(rest)
  BY <1>1, RetainedSplits
<1> HIDE DEF es, v, rest
<1>5. v.retained_bytes = Retained(rest) /\ v.retained_bytes <= s.retained_bytes
      /\ v.retained_bytes \in Nat /\ v.retained_bytes <= MaxBytes
  <2> DEFINE a == Retained(SubSeq(es, 1, k))
             b == Retained(rest)
  <2>1. a \in Nat /\ b \in Nat /\ Retained(es) = a + b /\ v.retained_bytes = Retained(es) - a
        /\ s.retained_bytes = Retained(es) /\ s.retained_bytes <= MaxBytes
    BY <1>1, <1>2, <1>4
  <2> HIDE DEF a, b
  <2>2. v.retained_bytes = b /\ b <= a + b /\ b <= MaxBytes
    BY <1>1, <2>1
  <2> QED
    BY <2>1, <2>2 DEF b
<1>6. Without(s, k, v)
  BY <1>2, <1>3, <1>5 DEF Without, es, rest
<1>7. StoreOK(v)
  <2>1. Len(v.entries) <= MaxStored
    BY <1>1, <1>2, <1>3
  <2> QED
    BY <1>2, <1>3, <1>5, <2>1 DEF StoreOK
<1> QED
  BY <1>6, <1>7 DEF v

LEMMA ExpireIs ==
    ASSUME NEW s, StoreOK(s), NEW time \in Nat
    PROVE  \E k \in 0 .. Len(s.entries) :
              /\ Without(s, k, Expire(s, time)) /\ StoreOK(Expire(s, time))
              /\ \A i \in 1 .. k : time - s.entries[i].stored_at >= Ttl
<1> DEFINE T == {k \in 0 .. Len(s.entries) :
                     k < Len(s.entries) => time - s.entries[k + 1].stored_at < Ttl}
           k == Min(T)
<1>1. s.entries \in Seq(Entries) /\ Len(s.entries) \in Nat /\ Ttl \in Nat
  BY DEF StoreOK, StoreAssumption
<1>2. Len(s.entries) \in T /\ T \subseteq Nat
  BY <1>1
<1>3. k \in T /\ \A y \in T : k <= y
  <2> HIDE DEF T
  <2> QED
    BY <1>2, MinIs
<1> HIDE DEF k
<1>4. k \in 0 .. Len(s.entries)
  BY <1>3
<1>5. ASSUME NEW i \in 1 .. k
      PROVE  time - s.entries[i].stored_at >= Ttl
  <2>1. i - 1 \in 0 .. Len(s.entries) /\ i - 1 < Len(s.entries) /\ (i - 1) + 1 = i /\ ~(k <= i - 1)
        /\ i \in 1 .. Len(s.entries)
    BY <1>1, <1>4
  <2>2. i - 1 \notin T
    BY <1>3, <2>1
  <2>3. ~(time - s.entries[i].stored_at < Ttl)
    BY <2>1, <2>2
  <2>4. s.entries[i].stored_at \in Nat
    <3>1. s.entries[i] \in Entries
      BY <1>1, <2>1
    <3> QED
      BY <3>1 DEF Entries
  <2>5. \A a, b, c \in Nat : ~(a - b < c) => a - b >= c
    OBVIOUS
  <2> QED
    BY <1>1, <2>3, <2>4, <2>5, Zenon
<1>6. Expire(s, time) = Evict(s, k)
  BY DEF Expire, k
<1> QED
  BY <1>4, <1>5, <1>6, EvictWithout

LEMMA MakeRoomIs ==
    ASSUME NEW s, StoreOK(s), NEW bytes \in Nat, bytes <= MaxBytes
    PROVE  \E k \in 0 .. Len(s.entries) :
              /\ Without(s, k, MakeRoom(s, bytes)) /\ StoreOK(MakeRoom(s, bytes))
              /\ ~Full(MakeRoom(s, bytes), bytes)
              /\ \A i \in 1 .. k : Full(Evict(s, i - 1), bytes)
<1> DEFINE T == {k \in 0 .. Len(s.entries) : k < Len(s.entries) => ~Full(Evict(s, k), bytes)}
           k == Min(T)
<1>1. s.entries \in Seq(Entries) /\ Len(s.entries) \in Nat /\ MaxStored \in Nat \ {0}
  BY DEF StoreOK, StoreAssumption
<1>2. Len(s.entries) \in T /\ T \subseteq Nat
  BY <1>1
<1>3. k \in T /\ \A y \in T : k <= y
  <2> HIDE DEF T
  <2> QED
    BY <1>2, MinIs
<1> HIDE DEF k
<1>4. k \in 0 .. Len(s.entries)
  BY <1>3
<1>5. ASSUME NEW i \in 1 .. k
      PROVE  Full(Evict(s, i - 1), bytes)
  <2>1. i - 1 \in 0 .. Len(s.entries) /\ i - 1 < Len(s.entries) /\ ~(k <= i - 1)
    BY <1>1, <1>4
  <2>2. i - 1 \notin T
    BY <1>3, <2>1
  <2> QED
    BY <2>1, <2>2
<1>6. MakeRoom(s, bytes) = Evict(s, k)
  BY DEF MakeRoom, k
<1>7. Without(s, k, Evict(s, k)) /\ StoreOK(Evict(s, k))
  BY <1>4, EvictWithout
<1>8. ~Full(Evict(s, k), bytes)
  <2>1. CASE k < Len(s.entries)
    BY <1>3, <2>1
  <2>2. CASE k = Len(s.entries)
    <3> DEFINE v == Evict(s, k)
    <3>1. v.entries \in Seq(Entries) /\ Len(v.entries) = 0 /\ v.retained_bytes = Retained(v.entries)
      BY <1>1, <1>7, <2>2 DEF Without
    <3> HIDE DEF v
    <3>2. v.entries = <<>>
      BY <3>1
    <3>3. Retained(<<>>) = 0
      <4>1. [i \in DOMAIN <<>> |-> <<>>[i].bytes] = <<>>
        OBVIOUS
      <4> QED
        BY <4>1, SeqSumEmpty DEF Retained
    <3>4. Len(v.entries) = 0 /\ v.retained_bytes = 0
      BY <3>1, <3>2, <3>3
    <3>5. ~Full(v, bytes)
      BY <1>1, <3>4 DEF Full, StoreAssumption
    <3> QED
      BY <3>5 DEF v
  <2> QED
    BY <1>1, <1>4, <2>1, <2>2
<1> QED
  BY <1>4, <1>5, <1>6, <1>7, <1>8

LEMMA InsertIs ==
    ASSUME NEW s, StoreOK(s), NEW e \in Entries, e.bytes <= MaxBytes
    PROVE  \E k \in 0 .. Len(s.entries) :
              /\ Insert(s, e).entries = Append(SubSeq(s.entries, k + 1, Len(s.entries)), e)
              /\ StoreOK(Insert(s, e))
              /\ \A i \in 1 .. k :
                    \/ Len(SubSeq(s.entries, i, Len(s.entries))) + 1 > MaxStored
                    \/ Retained(SubSeq(s.entries, i, Len(s.entries))) + e.bytes > MaxBytes
<1>1. e.bytes \in Nat /\ s.entries \in Seq(Entries) /\ Len(s.entries) \in Nat
      /\ MaxStored \in Nat /\ MaxBytes \in Nat
  BY DEF StoreOK, Entries, StoreAssumption
<1> DEFINE v == MakeRoom(s, e.bytes)
           w == Push(v, e)
<1>2. PICK k \in 0 .. Len(s.entries) :
              /\ Without(s, k, v) /\ StoreOK(v) /\ ~Full(v, e.bytes)
              /\ \A i \in 1 .. k : Full(Evict(s, i - 1), e.bytes)
  BY <1>1, MakeRoomIs
<1>3. Insert(s, e) = w
  BY <1>1 DEF Insert
<1> HIDE DEF v
<1>4. w.entries = Append(v.entries, e) /\ w.retained_bytes = v.retained_bytes + e.bytes
      /\ w = [entries |-> w.entries, retained_bytes |-> w.retained_bytes]
  BY DEF Push
<1>5. v.entries \in Seq(Entries) /\ v.retained_bytes = Retained(v.entries)
      /\ v.entries = SubSeq(s.entries, k + 1, Len(s.entries)) /\ v.retained_bytes \in Nat
  BY <1>2 DEF Without
<1>6. Append(v.entries, e) \in Seq(Entries) /\ Retained(Append(v.entries, e)) = Retained(v.entries) + e.bytes
      /\ Len(Append(v.entries, e)) = Len(v.entries) + 1 /\ Len(v.entries) \in Nat
  <2>1. \A q \in Seq(Entries) : Len(Append(q, e)) = Len(q) + 1 /\ Len(q) \in Nat
    OBVIOUS
  <2> QED
    BY <1>5, <2>1, RetainedAppend, Zenon
<1>7. Len(v.entries) < MaxStored /\ v.retained_bytes + e.bytes <= MaxBytes
  BY <1>1, <1>2, <1>5, <1>6 DEF Full
<1> HIDE DEF w
<1>8. StoreOK(w)
  <2>1. Len(w.entries) <= MaxStored
    BY <1>1, <1>4, <1>6, <1>7
  <2>2. w.retained_bytes = Retained(w.entries) /\ w.retained_bytes <= MaxBytes
        /\ w.entries \in Seq(Entries)
    BY <1>4, <1>5, <1>6, <1>7
  <2> QED
    BY <1>4, <2>1, <2>2 DEF StoreOK
<1>9. ASSUME NEW i \in 1 .. k
      PROVE  \/ Len(SubSeq(s.entries, i, Len(s.entries))) + 1 > MaxStored
             \/ Retained(SubSeq(s.entries, i, Len(s.entries))) + e.bytes > MaxBytes
  <2> DEFINE u == Evict(s, i - 1)
  <2>1. i - 1 \in 0 .. Len(s.entries) /\ (i - 1) + 1 = i
    BY <1>1
  <2>2. Without(s, i - 1, u) /\ Full(u, e.bytes)
    BY <1>2, <2>1, EvictWithout
  <2> HIDE DEF u
  <2>3. u.entries = SubSeq(s.entries, i, Len(s.entries)) /\ u.retained_bytes = Retained(u.entries)
        /\ Len(u.entries) = Len(s.entries) - (i - 1)
    BY <2>1, <2>2 DEF Without
  <2> QED
    BY <1>1, <2>2, <2>3 DEF Full
<1> QED
  BY <1>3, <1>4, <1>5, <1>8, <1>9

-----------------------------------------------------------------------------
(* A page. *)
LEMMA BoundaryIs ==
    ASSUME NEW t \in Texts, NEW k \in 0 .. (Len(t) - 1)
    PROVE  Boundaries(t, Bytes(SubSeq(t, 1, k))) = {k}
<1>1. Len(t) \in Nat
  BY TextNumbers
<1>2. k \in Boundaries(t, Bytes(SubSeq(t, 1, k)))
  BY DEF Boundaries
<1>3. ASSUME NEW j \in Boundaries(t, Bytes(SubSeq(t, 1, k)))
      PROVE  j = k
  <2>1. j \in 0 .. Len(t) /\ k \in 0 .. Len(t) /\ Bytes(SubSeq(t, 1, j)) = Bytes(SubSeq(t, 1, k))
    BY <1>1 DEF Boundaries
  <2> QED
    BY <2>1, BoundaryUnique
<1> QED
  BY <1>2, <1>3

LEMMA PageEndIs ==
    ASSUME NEW t \in Texts, NEW k \in 0 .. (Len(t) - 1)
    PROVE  PageEnd(t, k) \in (k + 1) .. Len(t)
<1> DEFINE T == {m \in k .. Len(t) : Cost(SubSeq(t, k + 1, m)) <= PageBudget}
           n == Len(t)
<1>1. /\ n \in Nat /\ CostsOf(t) \in Seq(Nat) /\ Len(CostsOf(t)) = n
      /\ \A i \in 1 .. n : CostsOf(t)[i] <= PageBudget
  BY TextNumbers
<1>2. Cost(SubSeq(t, k + 1, k + 1)) <= PageBudget
  <2> DEFINE f == CostsOf(t)
             b == k + 1
  <2>1. b \in 1 .. (n + 1) /\ b \in (b - 1) .. n /\ b \in 1 .. n
    BY <1>1
  <2>2. Cost(SubSeq(t, b, b)) = SumFunction(SubSeq(f, b, b))
    BY <2>1, PieceNumbers
  <2>3. SumFunction(SubSeq(f, b, b)) = SumFunctionOnSet(f, b .. b)
    <3>1. b \in 1 .. (Len(f) + 1) /\ b \in (b - 1) .. Len(f) /\ f \in Seq(Nat)
      BY <1>1, <2>1
    <3> HIDE DEF f, b
    <3> QED
      BY <3>1, SeqSumPiece
  <2>4. SumFunctionOnSet(f, b .. b) = f[b]
    <3>1. b .. b = {} \cup {b} /\ IsFiniteSet({}) /\ f[b] \in Nat
          /\ (\A y \in {} : f[y] \in Nat) /\ b \notin {}
      BY <1>1, <2>1, FS_EmptySet
    <3> HIDE DEF f, b
    <3>2. SumFunctionOnSet(f, {} \cup {b}) = f[b] + SumFunctionOnSet(f, {})
      BY <3>1, SumAdds
    <3> QED
      BY <3>1, <3>2, SumOfNothing
  <2> QED
    BY <1>1, <2>1, <2>2, <2>3, <2>4
<1>3. k + 1 \in T /\ T \subseteq Int /\ \A x \in T : x <= n
  BY <1>1, <1>2
<1>4. PageEnd(t, k) = Max(T)
  BY DEF PageEnd
<1>5. Max(T) \in T /\ \A y \in T : y <= Max(T)
  <2> HIDE DEF T
  <2>1. n \in Int
    BY <1>1
  <2> QED
    BY <1>3, <2>1, MaxIs
<1> QED
  BY <1>1, <1>3, <1>4, <1>5

LEMMA PageIs ==
    ASSUME NEW q, ClientOK(q), q.pc = "reading"
    PROVE  LET r == WithPage(q, q.text)
           IN  ClientOK(r) /\ r.id = q.id /\ r.at = q.at /\ r.text = q.text
               /\ r.pc \in {"reading", "complete"}
<1> DEFINE t == q.text
           r == WithPage(q, t)
<1>1. t \in Texts
  BY DEF ClientOK
<1>2. PICK k \in 0 .. (Len(t) - 1) : HasRead(q, k)
  BY DEF ClientOK
<1> DEFINE end == PageEnd(t, k)
<1>3. t \in Seq(Chars) /\ Len(t) \in Nat
  BY <1>1, TextNumbers
<1>4. end \in (k + 1) .. Len(t)
  BY <1>1, PageEndIs
<1>5. Boundaries(t, q.offset) = {k}
  BY <1>1, <1>2, BoundaryIs DEF HasRead
<1>6. (CHOOSE j \in {k} : TRUE) = k /\ {k} # {}
  OBVIOUS
<1>7. r = [q EXCEPT !.got = q.got \o SubSeq(t, k + 1, end),
                    !.offset = Bytes(SubSeq(t, 1, end)),
                    !.pc = IF end = Len(t) THEN "complete" ELSE q.pc]
  <2>1. end # k
    BY <1>3, <1>4
  <2> HIDE DEF end
  <2> QED
    BY <1>5, <1>6, <2>1 DEF WithPage, NextCursor, end
<1> HIDE DEF end, r, t
<1>8. r = [pc |-> IF end = Len(t) THEN "complete" ELSE "reading", root |-> q.root, text |-> q.text,
           id |-> q.id, at |-> q.at,
           offset |-> Bytes(SubSeq(t, 1, end)), got |-> q.got \o SubSeq(t, k + 1, end)]
  <2>1. q = [pc |-> q.pc, root |-> q.root, text |-> q.text, id |-> q.id, at |-> q.at,
             offset |-> q.offset, got |-> q.got]
    BY DEF ClientOK
  <2> QED
    BY <1>7, <2>1
<1>9. q.got \o SubSeq(t, k + 1, end) = SubSeq(t, 1, end)
  <2>1. q.got = SubSeq(t, 1, k)
    BY <1>2 DEF HasRead, t
  <2>2. SubSeq(t, 1, k) \o SubSeq(t, k + 1, end) = SubSeq(t, 1, end)
    BY <1>3, <1>4
  <2> QED
    BY <2>1, <2>2
<1>10. r.text = t /\ t = q.text /\ r.got = SubSeq(t, 1, end) /\ r.offset = Bytes(SubSeq(t, 1, end))
       /\ r.id = q.id /\ r.at = q.at
       /\ r.pc = (IF end = Len(t) THEN "complete" ELSE "reading")
       /\ r = [pc |-> r.pc, root |-> r.root, text |-> r.text, id |-> r.id, at |-> r.at,
               offset |-> r.offset, got |-> r.got]
  BY <1>8, <1>9 DEF t
<1>11. CASE end = Len(t)
  <2>1. SubSeq(t, 1, Len(t)) = t
    BY <1>3
  <2> QED
    BY <1>1, <1>10, <1>11, <2>1 DEF ClientOK, Pcs, r, t
<1>12. CASE end # Len(t)
  <2>1. end \in 0 .. (Len(t) - 1)
    BY <1>3, <1>4, <1>12
  <2>2. HasRead(r, end)
    BY <1>10 DEF HasRead
  <2>3. ClientOK(r)
    BY <1>1, <1>10, <1>12, <2>1, <2>2 DEF ClientOK, Pcs
  <2> QED
    BY <1>10, <1>12, <2>3 DEF r, t
<1> QED
  BY <1>11, <1>12

-----------------------------------------------------------------------------
(* The invariant. *)
THEOREM InitOK == Init => IInv
<1> SUFFICES ASSUME Init PROVE IInv
  OBVIOUS
<1>1. store.entries = <<>> /\ store.retained_bytes = 0 /\ Len(<<>>) = 0 /\ <<>> \in Seq(Entries)
      /\ store = [entries |-> store.entries, retained_bytes |-> store.retained_bytes]
  BY DEF Init, EmptyStore
<1>2. Retained(<<>>) = 0
  <2>1. [i \in DOMAIN <<>> |-> <<>>[i].bytes] = <<>>
    OBVIOUS
  <2> QED
    BY <2>1, SeqSumEmpty DEF Retained
<1>3. StoreOK(store)
  BY <1>1, <1>2 DEF StoreOK, StoreAssumption
<1>4. OwnIds(store) /\ \A c \in Clients : NamesItsOwn(client[c], store)
  BY <1>1 DEF OwnIds, NamesItsOwn
<1>5. \A c \in Clients : client[c] = Idle
  BY DEF Init
<1>6. ClientOK(Idle) /\ IdUsed(Idle.id)
  BY DEF ClientOK, Idle, Client, IdUsed, Pcs
<1>7. client \in [Clients -> {client[c] : c \in Clients}]
  BY DEF Init
<1> QED
  BY <1>3, <1>4, <1>5, <1>6, <1>7 DEF IInv, Init

LEMMA PairNotEmpty == \A p \in Nat \X Nat : p # <<>>
<1> SUFFICES ASSUME NEW p \in Nat \X Nat
             PROVE  p # <<>>
  OBVIOUS
<1>1. PICK a \in Nat, b \in Nat : p = <<a, b>>
  OBVIOUS
<1>2. Len(<<a, b>>) = 2 /\ Len(<<>>) = 0
  OBVIOUS
<1> QED
  BY <1>1, <1>2

(* Every entry of v is one of s. *)
From(v, s) ==
    \A i \in 1 .. Len(v.entries) : \E j \in 1 .. Len(s.entries) : v.entries[i] = s.entries[j]

LEMMA FromWithout ==
    ASSUME NEW s, NEW v, NEW k \in Nat, Without(s, k, v)
    PROVE  From(v, s)
BY DEF From, Without

LEMMA FromKeeps ==
    ASSUME NEW s, NEW v, From(v, s)
    PROVE  /\ OwnIds(s) => OwnIds(v)
           /\ \A q : NamesItsOwn(q, s) => NamesItsOwn(q, v)
<1>1. ASSUME OwnIds(s) PROVE OwnIds(v)
  <2> SUFFICES ASSUME NEW i \in 1 .. Len(v.entries)
               PROVE  LET e == v.entries[i]
                      IN  /\ e.id[1] = process_key /\ e.id[2] < next_sequence
                          /\ e.bytes = RetainedSize(e.json)
    BY DEF OwnIds
  <2>1. PICK j \in 1 .. Len(s.entries) : v.entries[i] = s.entries[j]
    BY DEF From
  <2> QED
    BY <1>1, <2>1 DEF OwnIds
<1>2. ASSUME NEW q, NamesItsOwn(q, s) PROVE NamesItsOwn(q, v)
  <2> SUFFICES ASSUME NEW i \in 1 .. Len(v.entries), v.entries[i].id = q.id
               PROVE  v.entries[i].json = q.text /\ v.entries[i].stored_at = q.at
    BY DEF NamesItsOwn
  <2>1. PICK j \in 1 .. Len(s.entries) : v.entries[i] = s.entries[j]
    BY DEF From
  <2> QED
    BY <1>2, <2>1 DEF NamesItsOwn
<1> QED
  BY <1>1, <1>2

(* A client that gets a new state, with the same identifier. *)
LEMMA ClientSteps ==
    ASSUME IInv, NEW c \in Clients, NEW r, ClientOK(r),
           r.id = <<>> \/ (r.id = client[c].id /\ r.text = client[c].text /\ r.at = client[c].at),
           client' = [client EXCEPT ![c] = r], UNCHANGED <<next_sequence, process_key, now>>,
           From(store', store), StoreOK(store')
    PROVE  IInv'
<1>1. OwnIds(store) /\ \A d \in Clients : NamesItsOwn(client[d], store)
  BY DEF IInv
<1>2. OwnIds(store') /\ \A d \in Clients : NamesItsOwn(client[d], store')
  BY <1>1, FromKeeps
<1>3. OwnIds(store)'
  BY <1>2 DEF OwnIds
<1>4. client' \in [Clients -> {client'[d] : d \in Clients}] /\ client'[c] = r
      /\ \A d \in Clients \ {c} : client'[d] = client[d]
  BY DEF IInv
<1>5. NamesItsOwn(r, store')
  <2>1. CASE r.id = <<>>
    <3>1. \A i \in 1 .. Len(store'.entries) : store'.entries[i].id # <<>>
      <4> SUFFICES ASSUME NEW i \in 1 .. Len(store'.entries)
                   PROVE  store'.entries[i].id # <<>>
        OBVIOUS
      <4>0. store'.entries \in Seq(Entries)
        BY DEF StoreOK
      <4>1. store'.entries[i] \in Entries
        BY <4>0
      <4>2. store'.entries[i].id \in Nat \X Nat
        BY <4>1 DEF Entries
      <4> QED
        BY <4>2, PairNotEmpty
    <3> QED
      BY <2>1, <3>1 DEF NamesItsOwn
  <2>2. CASE r.id = client[c].id /\ r.text = client[c].text /\ r.at = client[c].at
    BY <1>2, <2>2 DEF NamesItsOwn
  <2> QED
    BY <2>1, <2>2
<1>6. ASSUME NEW d \in Clients
      PROVE  ClientOK(client'[d]) /\ IdUsed(client[d].id)' /\ NamesItsOwn(client'[d], store')
  <2>1. CASE d = c
    <3>1. IdUsed(r.id)
      BY DEF IInv, IdUsed
    <3>2. IdUsed(client[d].id)'
      BY <1>4, <2>1, <3>1 DEF IdUsed
    <3> QED
      BY <1>4, <1>5, <2>1, <3>2
  <2>2. CASE d # c
    <3>1. client'[d] = client[d] /\ ClientOK(client[d]) /\ IdUsed(client[d].id)
      BY <1>4, <2>2 DEF IInv
    <3>2. IdUsed(client[d].id)'
      BY <3>1 DEF IdUsed
    <3> QED
      BY <1>2, <3>1, <3>2
  <2> QED
    BY <2>1, <2>2
<1>7. \A d \in Clients : ClientOK(client[d])' /\ IdUsed(client[d].id)' /\ NamesItsOwn(client[d], store)'
  BY <1>6
<1>8. StoreOK(store)'
  BY DEF StoreOK, Retained, Entries
<1> QED
  BY <1>3, <1>4, <1>7, <1>8 DEF IInv

LEMMA ReadPageOK ==
    ASSUME IInv, NEW c \in Clients, ReadPage(c)
    PROVE  IInv'
<1> DEFINE live == Expire(store, now)
           Found(root) == {e \in Range(live.entries) : e.id = client[c].id /\ e.project_root = root}
<1>1. PICK root \in Roots :
         /\ store' = live
         /\ \/ /\ Found(root) = {}
               /\ client' = [client EXCEPT ![c] =
                     IF root = client[c].root THEN Client("unavailable", "none", <<>>, <<>>, 0, <<>>) ELSE client[c]]
            \/ \E e \in Found(root) :
                  client' = [client EXCEPT ![c] = WithPage(client[c], e.json)]
  BY DEF ReadPage
<1>2. UNCHANGED <<next_sequence, process_key, now>> /\ client[c].pc = "reading"
  BY DEF ReadPage
<1>3. StoreOK(store) /\ now \in Nat /\ ClientOK(client[c]) /\ NamesItsOwn(client[c], store)
  BY DEF IInv
<1>4. PICK k \in 0 .. Len(store.entries) : Without(store, k, live) /\ StoreOK(live)
  BY <1>3, ExpireIs
<1> HIDE DEF live
<1>5. From(store', store) /\ StoreOK(store') /\ NamesItsOwn(client[c], live)
  <2>1. From(live, store)
    <3>1. k \in Nat
      OBVIOUS
    <3> QED
      BY <1>4, <3>1, FromWithout
  <2> QED
    BY <1>1, <1>3, <1>4, <2>1, FromKeeps
<1>6. CASE client' = [client EXCEPT ![c] =
                     IF root = client[c].root THEN Client("unavailable", "none", <<>>, <<>>, 0, <<>>) ELSE client[c]]
  <2> DEFINE r == IF root = client[c].root THEN Client("unavailable", "none", <<>>, <<>>, 0, <<>>) ELSE client[c]
  <2>1. ClientOK(r) /\ (r.id = <<>> \/ r = client[c])
    <3>1. CASE root = client[c].root
      <4>1. r = [pc |-> "unavailable", root |-> "none", text |-> <<>>, id |-> <<>>, at |-> 0,
                 offset |-> 0, got |-> <<>>]
        BY <3>1 DEF Client
      <4> QED
        BY <4>1 DEF ClientOK, Pcs
    <3> QED
      BY <1>3, <3>1
  <2>2. client' = [client EXCEPT ![c] = r]
    BY <1>6
  <2> HIDE DEF r
  <2> QED
    BY <1>2, <1>5, <2>1, <2>2, ClientSteps
<1>7. ASSUME NEW e \in Found(root), client' = [client EXCEPT ![c] = WithPage(client[c], e.json)]
      PROVE  IInv'
  <2>1. e.json = client[c].text
    <3>1. live.entries \in Seq(Entries)
      BY <1>4 DEF StoreOK
    <3>2. PICK i \in 1 .. Len(live.entries) : e = live.entries[i]
      BY <3>1 DEF Range
    <3> QED
      BY <1>5, <3>2 DEF NamesItsOwn
  <2> DEFINE r == WithPage(client[c], client[c].text)
  <2>2. ClientOK(r) /\ r.id = client[c].id /\ r.at = client[c].at /\ r.text = client[c].text
    BY <1>2, <1>3, PageIs
  <2>3. client' = [client EXCEPT ![c] = r]
    BY <1>7, <2>1
  <2> HIDE DEF r
  <2> QED
    BY <1>2, <1>5, <2>2, <2>3, ClientSteps
<1> QED
  BY <1>1, <1>6, <1>7

LEMMA BytesNat ==
    ASSUME NEW t \in Texts
    PROVE  Bytes(t) \in Nat /\ Cost(t) \in Nat /\ RetainedSize(t) \in Nat
           /\ Bytes(<<>>) = 0 /\ Cost(<<>>) = 0
<1>1. Bytes(t) = SumFunction(LensOf(t)) /\ Cost(t) = SumFunction(CostsOf(t))
  BY DEF Bytes, Cost, LensOf, CostsOf
<1>2. Bytes(t) \in Nat /\ Cost(t) \in Nat
  BY <1>1, TextNumbers, SeqSum
<1>3. Bytes(<<>>) = 0 /\ Cost(<<>>) = 0
  <2>1. [i \in DOMAIN <<>> |-> CharLen[<<>>[i]]] = <<>> /\ [i \in DOMAIN <<>> |-> CharCost[<<>>[i]]] = <<>>
    OBVIOUS
  <2> QED
    BY <2>1, SeqSumEmpty DEF Bytes, Cost
<1> QED
  BY <1>2, <1>3 DEF RetainedSize, StoreAssumption

(* A client that called and reads its stored result. *)
LEMMA NewReaderOK ==
    ASSUME NEW t \in Texts, Cost(t) > DirectBudget, NEW r,
           r.text = t, r.got = <<>>, r.offset = 0, r.pc = "reading",
           r = [pc |-> r.pc, root |-> r.root, text |-> r.text, id |-> r.id, at |-> r.at,
                offset |-> r.offset, got |-> r.got]
    PROVE  ClientOK(r)
<1>1. t \in Seq(Chars) /\ Len(t) \in Nat /\ Cost(t) \in Nat /\ DirectBudget \in Nat
  BY TextNumbers, BytesNat DEF StoreAssumption
<1>2. t # <<>>
  BY <1>1, BytesNat
<1>3. 0 \in 0 .. (Len(t) - 1) /\ SubSeq(t, 1, 0) = <<>>
  BY <1>1, <1>2
<1>4. HasRead(r, 0)
  BY <1>3, BytesNat DEF HasRead
<1> QED
  BY <1>3, <1>4 DEF ClientOK, Pcs

(* What the store holds once e, with the next identifier, was added. *)
Added(live, e) ==
    \A i \in 1 .. Len(store'.entries) :
         \/ store'.entries[i] = e
         \/ \E m \in 1 .. Len(live.entries) : store'.entries[i] = live.entries[m]

LEMMA AddedOwnIds ==
    ASSUME NEW live, StoreOK(live), OwnIds(live), next_sequence \in Nat, NEW e,
           e.id[1] = process_key, e.id[2] = next_sequence, e.bytes = RetainedSize(e.json),
           Added(live, e), next_sequence' = next_sequence + 1, process_key' = process_key
    PROVE  OwnIds(store)'
<1> SUFFICES ASSUME NEW i \in 1 .. Len(store'.entries)
             PROVE  /\ store'.entries[i].id[1] = process_key
                    /\ store'.entries[i].id[2] < next_sequence + 1
                    /\ store'.entries[i].bytes = RetainedSize(store'.entries[i].json)
  BY DEF OwnIds
<1>1. CASE store'.entries[i] = e
  BY <1>1
<1>2. ASSUME NEW m \in 1 .. Len(live.entries), store'.entries[i] = live.entries[m]
      PROVE  /\ store'.entries[i].id[1] = process_key
             /\ store'.entries[i].id[2] < next_sequence + 1
             /\ store'.entries[i].bytes = RetainedSize(store'.entries[i].json)
  <2>1. live.entries \in Seq(Entries)
    BY DEF StoreOK
  <2>2. live.entries[m] \in Entries
    BY <2>1
  <2>3. live.entries[m].id[2] \in Nat
    BY <2>2 DEF Entries
  <2>4. live.entries[m].id[1] = process_key /\ live.entries[m].id[2] < next_sequence
        /\ live.entries[m].bytes = RetainedSize(live.entries[m].json)
    BY DEF OwnIds
  <2>5. \A a, b \in Nat : a < b => a < b + 1
    OBVIOUS
  <2>6. live.entries[m].id[2] < next_sequence + 1
    BY <2>3, <2>4, <2>5
  <2> QED
    BY <1>2, <2>4, <2>6, Zenon
<1> QED
  BY <1>1, <1>2 DEF Added

LEMMA AddedOthers ==
    ASSUME NEW live, NEW e, Added(live, e), NEW q, NamesItsOwn(q, live), e.id # q.id
    PROVE  NamesItsOwn(q, store')
<1> SUFFICES ASSUME NEW i \in 1 .. Len(store'.entries), store'.entries[i].id = q.id
             PROVE  store'.entries[i].json = q.text /\ store'.entries[i].stored_at = q.at
  BY DEF NamesItsOwn
<1>1. PICK m \in 1 .. Len(live.entries) : store'.entries[i] = live.entries[m]
  BY DEF Added
<1> QED
  BY <1>1 DEF NamesItsOwn

LEMMA AddedReader ==
    ASSUME NEW live, StoreOK(live), OwnIds(live), next_sequence \in Nat, NEW e,
           e.id[2] = next_sequence, Added(live, e),
           NEW q, q.id = e.id, q.text = e.json, q.at = e.stored_at
    PROVE  NamesItsOwn(q, store')
<1> SUFFICES ASSUME NEW i \in 1 .. Len(store'.entries), store'.entries[i].id = q.id
             PROVE  store'.entries[i] = e
  BY DEF NamesItsOwn
<1> SUFFICES ASSUME NEW m \in 1 .. Len(live.entries), store'.entries[i] = live.entries[m]
             PROVE  FALSE
  BY DEF Added
<1>1. live.entries[m].id[2] < next_sequence
  BY DEF OwnIds
<1>2. live.entries[m].id[2] = next_sequence
  OBVIOUS
<1>3. ~(next_sequence < next_sequence)
  OBVIOUS
<1> QED
  BY <1>1, <1>2, <1>3, Zenon

LEMMA IdStaysUsed ==
    ASSUME NEW id, IdUsed(id), next_sequence \in Nat, process_key \in Nat,
           next_sequence' = next_sequence + 1, process_key' = process_key,
           NEW e, e \in Nat \X Nat, e[1] = process_key, e[2] = next_sequence
    PROVE  /\ \/ id = <<>>
              \/ /\ id \in Nat \X Nat
                 /\ id[1] < process_key' \/ (id[1] = process_key' /\ id[2] < next_sequence')
           /\ e # id
<1>1. CASE id = <<>>
  BY <1>1, PairNotEmpty
<1>2. CASE /\ id \in Nat \X Nat
           /\ id[1] < process_key \/ (id[1] = process_key /\ id[2] < next_sequence)
  <2>1. id[1] \in Nat /\ id[2] \in Nat
    BY <1>2
  <2>2. id[1] < process_key \/ (id[1] = process_key /\ id[2] < next_sequence + 1)
    BY <1>2, <2>1
  <2>3. e # id
    BY <1>2, <2>1
  <2> QED
    BY <1>2, <2>2, <2>3
<1> QED
  BY <1>1, <1>2 DEF IdUsed

(* A refused call uses an identifier up and stores nothing. *)
LEMMA RefusedOK ==
    ASSUME IInv, NEW c \in Clients, NEW live, StoreOK(live), From(live, store),
           store' = live, next_sequence' = next_sequence + 1, UNCHANGED <<process_key, now>>,
           NEW r, ClientOK(r), r.id = <<>>, client' = [client EXCEPT ![c] = r]
    PROVE  IInv'
<1>1. now \in Nat /\ next_sequence \in Nat /\ process_key \in Nat
      /\ process_key' = process_key /\ OwnIds(store) /\ \A d \in Clients : NamesItsOwn(client[d], store)
  BY DEF IInv
<1>2. OwnIds(live) /\ \A d \in Clients : NamesItsOwn(client[d], live)
  BY <1>1, FromKeeps
<1>3. live.entries \in Seq(Entries)
  BY DEF StoreOK
<1>4. \A i \in 1 .. Len(live.entries) : live.entries[i].id \in Nat \X Nat
  <2> SUFFICES ASSUME NEW i \in 1 .. Len(live.entries)
               PROVE  live.entries[i].id \in Nat \X Nat
    OBVIOUS
  <2>1. live.entries[i] \in Entries
    BY <1>3
  <2> QED
    BY <2>1 DEF Entries
<1>5. OwnIds(store)'
  <2> SUFFICES ASSUME NEW i \in 1 .. Len(live.entries)
               PROVE  /\ live.entries[i].id[1] = process_key
                      /\ live.entries[i].id[2] < next_sequence + 1
                      /\ live.entries[i].bytes = RetainedSize(live.entries[i].json)
    BY DEF OwnIds
  <2>1. live.entries[i].id[1] = process_key /\ live.entries[i].id[2] < next_sequence
        /\ live.entries[i].bytes = RetainedSize(live.entries[i].json)
    BY <1>2 DEF OwnIds
  <2>2. live.entries[i].id[2] \in Nat
    BY <1>4
  <2>3. \A a, b \in Nat : a < b => a < b + 1
    OBVIOUS
  <2>4. live.entries[i].id[2] < next_sequence + 1
    BY <1>1, <2>1, <2>2, <2>3
  <2> QED
    BY <2>1, <2>4
<1>6. client' \in [Clients -> {client'[d] : d \in Clients}] /\ client'[c] = r
      /\ \A d \in Clients \ {c} : client'[d] = client[d]
  BY DEF IInv
<1>7. NamesItsOwn(r, live)
  BY <1>4, PairNotEmpty DEF NamesItsOwn
<1>8. ASSUME NEW d \in Clients
      PROVE  ClientOK(client'[d]) /\ IdUsed(client[d].id)' /\ NamesItsOwn(client'[d], live)
  <2>1. CASE d = c
    <3>1. IdUsed(client[d].id)'
      BY <1>6, <2>1 DEF IdUsed
    <3> QED
      BY <1>6, <1>7, <2>1, <3>1
  <2>2. CASE d # c
    <3>1. client'[d] = client[d] /\ ClientOK(client[d]) /\ IdUsed(client[d].id)
      BY <1>6, <2>2 DEF IInv
    <3> DEFINE e == <<process_key, next_sequence>>
               id == client[d].id
    <3>2. e \in Nat \X Nat /\ e[1] = process_key /\ e[2] = next_sequence /\ IdUsed(id)
      BY <1>1, <3>1
    <3> HIDE DEF e, id
    <3>3. \/ id = <<>>
          \/ /\ id \in Nat \X Nat
             /\ id[1] < process_key' \/ (id[1] = process_key' /\ id[2] < next_sequence')
      BY <1>1, <3>2, IdStaysUsed
    <3>4. IdUsed(client[d].id)'
      BY <3>1, <3>3 DEF IdUsed, id
    <3> QED
      BY <1>2, <3>1, <3>4
  <2> QED
    BY <2>1, <2>2
<1>9. \A d \in Clients : ClientOK(client[d])' /\ IdUsed(client[d].id)' /\ NamesItsOwn(client[d], store)'
  BY <1>8
<1>10. (next_sequence \in Nat /\ process_key \in Nat /\ now \in Nat)' /\ StoreOK(store')
  BY <1>1
<1> QED
  BY <1>5, <1>6, <1>9, <1>10 DEF IInv

Stores(live, e) ==
    /\ StoreOK(live) /\ OwnIds(live) /\ \A d \in Clients : NamesItsOwn(client[d], live)
    /\ e \in Entries /\ e.id[1] = process_key /\ e.id[2] = next_sequence
    /\ e.bytes = RetainedSize(e.json)
    /\ Added(live, e)

Reads(r, e) == ClientOK(r) /\ r.id = e.id /\ r.text = e.json /\ r.at = e.stored_at

(* The new result is stored under an identifier no client holds. *)
LEMMA StoredOK ==
    ASSUME IInv, NEW c \in Clients, NEW live, NEW e, Stores(live, e), StoreOK(store'),
           next_sequence' = next_sequence + 1, UNCHANGED <<process_key, now>>,
           NEW r, Reads(r, e), client' = [client EXCEPT ![c] = r]
    PROVE  IInv'
<1> USE DEF Stores, Reads
<1>1. now \in Nat /\ next_sequence \in Nat /\ process_key \in Nat /\ e.id \in Nat \X Nat
      /\ process_key' = process_key
  BY DEF IInv, Entries
<1>2. OwnIds(store)'
  BY <1>1, AddedOwnIds
<1>3. client' \in [Clients -> {client'[d] : d \in Clients}] /\ client'[c] = r
       /\ \A d \in Clients \ {c} : client'[d] = client[d]
  BY DEF IInv
<1>4. ASSUME NEW d \in Clients, d # c
      PROVE  ClientOK(client'[d]) /\ IdUsed(client[d].id)' /\ NamesItsOwn(client'[d], store')
  <2>1. client'[d] = client[d] /\ ClientOK(client[d]) /\ IdUsed(client[d].id)
        /\ NamesItsOwn(client[d], live)
    BY <1>3, <1>4 DEF IInv
  <2> DEFINE id == client[d].id
  <2>2. IdUsed(id)
    BY <2>1
  <2> HIDE DEF id
  <2>3. /\ \/ id = <<>>
           \/ /\ id \in Nat \X Nat
              /\ id[1] < process_key' \/ (id[1] = process_key' /\ id[2] < next_sequence')
        /\ e.id # id
    BY <1>1, <2>2, IdStaysUsed
  <2>4. IdUsed(client[d].id)'
    BY <2>1, <2>3 DEF IdUsed, id
  <2>5. NamesItsOwn(client[d], store')
    BY <2>1, <2>3, AddedOthers DEF id
  <2> QED
    BY <2>1, <2>4, <2>5
<1>5. IdUsed(client[c].id)'
  <2>1. client'[c].id = e.id
    BY <1>3
  <2>2. e.id[1] = process_key' /\ e.id[2] < next_sequence'
    BY <1>1
  <2> QED
    BY <1>1, <2>1, <2>2 DEF IdUsed
<1>6. NamesItsOwn(r, store')
  BY <1>1, AddedReader
<1>7. \A d \in Clients : ClientOK(client[d])' /\ IdUsed(client[d].id)' /\ NamesItsOwn(client[d], store)'
  <2>1. ClientOK(client'[c]) /\ NamesItsOwn(client'[c], store')
    BY <1>3, <1>6
  <2> QED
    BY <1>4, <1>5, <2>1
<1>8. (next_sequence \in Nat /\ process_key \in Nat /\ now \in Nat)'
  BY <1>1
<1> QED
  BY <1>2, <1>3, <1>7, <1>8 DEF IInv

LEMMA CallToolOK ==
    ASSUME IInv, NEW c \in Clients, CallTool(c)
    PROVE  IInv'
<1>0. PICK t \in Texts, root \in Roots :
         LET entry == [id |-> NextId, project_root |-> root, json |-> t,
                        stored_at |-> now, bytes |-> RetainedSize(t)]
         IN   \/ /\ Cost(t) <= DirectBudget
                 /\ client' = [client EXCEPT ![c] =
                        Client("complete", "none", t, <<>>, 0, t)]
                 /\ UNCHANGED <<store, next_sequence>>
              \/ /\ Cost(t) > DirectBudget
                 /\ next_sequence' = next_sequence + 1
                 /\ store' = Insert(Expire(store, now), entry)
                 /\ client' = [client EXCEPT ![c] =
                        IF entry.bytes > MaxBytes
                        THEN Client("refused", "none", <<>>, <<>>, 0, <<>>)
                        ELSE Client("reading", root, t, NextId, now, <<>>)]
  BY DEF CallTool
<1>1. StoreOK(store) /\ OwnIds(store) /\ now \in Nat /\ next_sequence \in Nat /\ process_key \in Nat
      /\ client[c] = Idle /\ (\A d \in Clients : NamesItsOwn(client[d], store))
      /\ UNCHANGED <<process_key, now>>
  BY DEF IInv, ClientOK, CallTool
<1> DEFINE e == [id |-> NextId, project_root |-> root, json |-> t,
                 stored_at |-> now, bytes |-> RetainedSize(t)]
           live == Expire(store, now)
<1>2. CASE /\ Cost(t) <= DirectBudget
           /\ client' = [client EXCEPT ![c] = Client("complete", "none", t, <<>>, 0, t)]
           /\ UNCHANGED <<store, next_sequence>>
  <2> DEFINE r == [pc |-> "complete", root |-> "none", text |-> t, id |-> <<>>, at |-> 0,
                   offset |-> 0, got |-> t]
  <2>1. client' = [client EXCEPT ![c] = r]
    BY <1>2 DEF Client
  <2>2. ClientOK(r) /\ r.id = <<>>
    BY DEF ClientOK, Pcs
  <2>3. From(store', store) /\ StoreOK(store')
    BY <1>1, <1>2 DEF From
  <2> HIDE DEF r
  <2> QED
    BY <1>1, <1>2, <2>1, <2>2, <2>3, ClientSteps
<1>3. PICK k \in 0 .. Len(store.entries) : Without(store, k, live) /\ StoreOK(live)
  BY <1>1, ExpireIs
<1>4. From(live, store)
  <2>1. k \in Nat
    OBVIOUS
  <2> QED
    BY <1>3, <2>1, FromWithout
<1>5. OwnIds(live) /\ \A d \in Clients : NamesItsOwn(client[d], live)
  BY <1>1, <1>4, FromKeeps
<1>6. e \in Entries /\ e.id = <<process_key, next_sequence>> /\ e.json = t /\ e.stored_at = now
      /\ e.bytes = RetainedSize(e.json) /\ e.id[1] = process_key /\ e.id[2] = next_sequence
  BY <1>1, BytesNat DEF Entries, NextId
<1> HIDE DEF live
<1>7. CASE /\ Cost(t) > DirectBudget
           /\ next_sequence' = next_sequence + 1
           /\ store' = Insert(live, e)
           /\ e.bytes > MaxBytes
           /\ client' = [client EXCEPT ![c] = Client("refused", "none", <<>>, <<>>, 0, <<>>)]
  <2> DEFINE r == [pc |-> "refused", root |-> "none", text |-> <<>>, id |-> <<>>, at |-> 0,
                   offset |-> 0, got |-> <<>>]
  <2>1. client' = [client EXCEPT ![c] = r]
    BY <1>7 DEF Client
  <2>2. ClientOK(r) /\ r.id = <<>>
    BY DEF ClientOK, Pcs
  <2>3. store' = live
    BY <1>7 DEF Insert
  <2> HIDE DEF r, e
  <2> QED
    BY <1>1, <1>3, <1>4, <1>7, <2>1, <2>2, <2>3, RefusedOK
<1>8. CASE /\ Cost(t) > DirectBudget
           /\ next_sequence' = next_sequence + 1
           /\ store' = Insert(live, e)
           /\ e.bytes <= MaxBytes
           /\ client' = [client EXCEPT ![c] = Client("reading", root, t, NextId, now, <<>>)]
  <2> DEFINE r == [pc |-> "reading", root |-> root, text |-> t, id |-> NextId, at |-> now,
                   offset |-> 0, got |-> <<>>]
  <2>1. client' = [client EXCEPT ![c] = r]
    BY <1>8 DEF Client
  <2>2. r.id = e.id /\ r.text = e.json /\ r.at = e.stored_at /\ r.text = t /\ r.got = <<>>
        /\ r.offset = 0 /\ r.pc = "reading"
        /\ r = [pc |-> r.pc, root |-> r.root, text |-> r.text, id |-> r.id, at |-> r.at,
                offset |-> r.offset, got |-> r.got]
    OBVIOUS
  <2> HIDE DEF r, e
  <2>3. ClientOK(r)
    BY <1>8, <2>2, NewReaderOK
  <2>4. PICK j \in 0 .. Len(live.entries) :
           store'.entries = Append(SubSeq(live.entries, j + 1, Len(live.entries)), e)
           /\ StoreOK(store')
    BY <1>3, <1>6, <1>8, InsertIs
  <2>5. Added(live, e)
    <3>1. live.entries \in Seq(Entries)
      BY <1>3 DEF StoreOK
    <3>2. ElementsFrom(Append(SubSeq(live.entries, j + 1, Len(live.entries)), e), e, live.entries)
      BY <1>6, <3>1, SeqRestAppend
    <3> QED
      BY <2>4, <3>2 DEF Added, ElementsFrom
  <2> QED
    <3>1. Stores(live, e) /\ Reads(r, e)
      BY <1>3, <1>5, <1>6, <2>2, <2>3, <2>5 DEF Stores, Reads
    <3> QED
      BY <1>1, <1>8, <2>1, <2>4, <3>1, StoredOK
<1>9. e.bytes \in Nat /\ MaxBytes \in Nat
  BY <1>6 DEF Entries, StoreAssumption
<1> QED
  BY <1>0, <1>2, <1>7, <1>8, <1>9 DEF live

LEMMA TickOK ==
    ASSUME IInv, Tick
    PROVE  IInv'
<1>1. now' \in Nat /\ UNCHANGED <<store, next_sequence, process_key, client>>
  BY DEF IInv, Tick
<1> QED
  BY <1>1 DEF IInv, OwnIds, IdUsed

LEMMA RestartOK ==
    ASSUME IInv, Restart
    PROVE  IInv'
<1>1. store'.entries = <<>> /\ store'.retained_bytes = 0 /\ Len(<<>>) = 0 /\ <<>> \in Seq(Entries)
      /\ store' = [entries |-> store'.entries, retained_bytes |-> store'.retained_bytes]
  BY DEF Restart, EmptyStore
<1>2. Retained(<<>>) = 0
  <2>1. [i \in DOMAIN <<>> |-> <<>>[i].bytes] = <<>>
    OBVIOUS
  <2> QED
    BY <2>1, SeqSumEmpty DEF Retained
<1>3. StoreOK(store')
  BY <1>1, <1>2 DEF StoreOK, StoreAssumption
<1>4. OwnIds(store)' /\ \A c \in Clients : NamesItsOwn(client[c], store')
  BY <1>1 DEF OwnIds, NamesItsOwn
<1>5. client' = client /\ process_key' = process_key + 1 /\ next_sequence' = 0 /\ now' = now
      /\ process_key \in Nat /\ now \in Nat /\ next_sequence \in Nat
  BY DEF Restart, IInv
<1>6. ASSUME NEW c \in Clients
      PROVE  IdUsed(client[c].id)'
  <2>1. IdUsed(client[c].id)
    BY DEF IInv
  <2>2. CASE client[c].id = <<>>
    BY <1>5, <2>2 DEF IdUsed
  <2>3. CASE client[c].id \in Nat \X Nat
    <3>1. client[c].id[1] \in Nat
      BY <2>3
    <3>2. client[c].id # <<>>
      BY <2>3, PairNotEmpty
    <3>3. client[c].id[1] <= process_key
      BY <1>5, <2>1, <3>1, <3>2 DEF IdUsed
    <3>4. client[c].id[1] < process_key + 1
      BY <1>5, <3>1, <3>3
    <3> QED
      BY <1>5, <2>3, <3>4 DEF IdUsed
  <2> QED
    BY <2>1, <2>2, <2>3 DEF IdUsed
<1> QED
  BY <1>3, <1>4, <1>5, <1>6 DEF IInv

(* Every call, page, tick and restart keeps the invariant of the store. *)
THEOREM NextOK == IInv /\ [Next]_vars => IInv'
<1> SUFFICES ASSUME IInv, [Next]_vars
             PROVE  IInv'
  OBVIOUS
<1>1. ASSUME NEW c \in Clients, CallTool(c)
      PROVE  IInv'
  BY <1>1, CallToolOK
<1>2. ASSUME NEW c \in Clients, ReadPage(c)
      PROVE  IInv'
  BY <1>2, ReadPageOK
<1>3. CASE Tick
  BY <1>3, TickOK
<1>4. CASE Restart
  BY <1>4, RestartOK
<1>5. CASE UNCHANGED vars
  BY <1>5 DEF vars, IInv, OwnIds, IdUsed
<1> QED
  BY <1>1, <1>2, <1>3, <1>4, <1>5 DEF Next

(* The invariant holds in every reachable state. *)
THEOREM Invariance == Spec => []IInv
BY InitOK, NextOK, PTL DEF Spec

LEMMA PagesFollow == IInv => PagesConcatenate
<1> SUFFICES ASSUME IInv, NEW c \in Clients
             PROVE  /\ IsPrefix(client[c].got, client[c].text)
                    /\ client[c].pc = "complete" => client[c].got = client[c].text
  BY DEF PagesConcatenate
<1> DEFINE q == client[c]
<1>1. ClientOK(q)
  BY DEF IInv
<1>2. CASE q.got = q.text
  BY <1>1, <1>2 DEF IsPrefix, ClientOK
<1>3. CASE q.pc = "reading"
  <2>1. q.text \in Texts
    BY <1>1, <1>3 DEF ClientOK
  <2>2. PICK k \in 0 .. (Len(q.text) - 1) : q.got = SubSeq(q.text, 1, k)
    BY <1>1, <1>3 DEF ClientOK, HasRead
  <2>3. q.text \in Seq(Chars)
    BY <2>1, TextNumbers
  <2> HIDE DEF q
  <2>4. Len(q.got) = k /\ SubSeq(q.got, 1, k) = q.got /\ k <= Len(q.text)
    <3>1. \A t \in Seq(Chars) : \A m \in 0 .. (Len(t) - 1) :
             Len(SubSeq(t, 1, m)) = m /\ SubSeq(SubSeq(t, 1, m), 1, m) = SubSeq(t, 1, m) /\ m <= Len(t)
      OBVIOUS
    <3> QED
      BY <2>2, <2>3, <3>1
  <2>5. IsPrefix(q.got, q.text)
    BY <2>2, <2>4 DEF IsPrefix
  <2> QED
    BY <1>3, <2>5 DEF q
<1>4. CASE q.pc # "reading"
  <2>1. q.got = q.text
    BY <1>1, <1>4 DEF ClientOK, Pcs, Idle, Client
  <2> QED
    BY <1>2, <2>1
<1> QED
  BY <1>3, <1>4

(* Whatever mix of pages, expiries, evictions and restarts happens: what a *)
(* client has put together is a prefix of its own result, and all of it    *)
(* once the server says complete.                                          *)
THEOREM PagesConcatenateAlways == Spec => []PagesConcatenate
BY Invariance, PagesFollow, PTL

(* The store never exceeds its two limits and its running total is exact.  *)
THEOREM StoreBoundedAlways == Spec => []StoreBounded
<1>1. IInv => StoreBounded
  BY DEF IInv, StoreOK, StoreBounded
<1> QED
  BY <1>1, Invariance, PTL

(* No cursor that was issued is refused, and no page is empty.             *)
THEOREM NoReadFailsAlways == Spec => []NoReadFails
<1>1. IInv => NoReadFails
  BY DEF IInv, ClientOK, Pcs, NoReadFails
<1> QED
  BY <1>1, Invariance, PTL

-----------------------------------------------------------------------------
(* Why a result is lost. *)
Room(d, c) ==
    /\ client[d].pc = "idle" /\ client'[d].pc = "reading"
    /\ \E i \in DOMAIN store.entries :
          LET since == SubSeq(store.entries, i, Len(store.entries))
          IN /\ store.entries[i].id = client[c].id
             /\ \/ Len(since) + 1 > MaxStored
                \/ Retained(since) + RetainedSize(client'[d].text) > MaxBytes

Reason(c) ==
    \/ now - client[c].at >= Ttl
    \/ process_key' # process_key
    \/ \E d \in Clients : Room(d, c)

Gone(id) == \A i \in 1 .. Len(store'.entries) : store'.entries[i].id # id

(* Expiry alone takes what is too old. *)
LEMMA ExpiryReason ==
    ASSUME IInv, NEW c \in Clients, NEW i \in 1 .. Len(store.entries),
           store.entries[i].id = client[c].id, NEW live, NEW k \in 0 .. Len(store.entries),
           Without(store, k, live), \A j \in 1 .. k : now - store.entries[j].stored_at >= Ttl
    PROVE  \/ now - client[c].at >= Ttl
           \/ /\ i - k \in 1 .. Len(live.entries)
              /\ live.entries[i - k] = store.entries[i]
<1>1. CASE i <= k
  <2>1. i \in 1 .. k
    BY <1>1
  <2>2. store.entries[i].stored_at = client[c].at
    <3>1. NamesItsOwn(client[c], store)
      BY DEF IInv
    <3> QED
      BY <3>1 DEF NamesItsOwn
  <2> QED
    BY <2>1, <2>2
<1>2. CASE ~(i <= k)
  <2>1. Len(live.entries) = Len(store.entries) - k /\ Len(store.entries) \in Nat
        /\ \A m \in 1 .. Len(live.entries) : live.entries[m] = store.entries[m + k]
    <3>1. store.entries \in Seq(Entries)
      BY DEF IInv, StoreOK
    <3>2. Len(store.entries) \in Nat
      BY <3>1
    <3>3. Len(live.entries) = Len(store.entries) - k
          /\ \A m \in 1 .. Len(live.entries) : live.entries[m] = store.entries[m + k]
      BY DEF Without
    <3> QED
      BY <3>2, <3>3
  <2>2. i - k \in 1 .. Len(live.entries) /\ (i - k) + k = i
    BY <1>2, <2>1
  <2> QED
    BY <2>1, <2>2
<1> QED
  BY <1>1, <1>2

LEMMA ReadPageReason ==
    ASSUME IInv, NEW c \in Clients, NEW b \in Clients, ReadPage(b),
           NEW i \in 1 .. Len(store.entries), store.entries[i].id = client[c].id,
           Gone(client[c].id)
    PROVE  Reason(c)
<1>1. store' = Expire(store, now) /\ StoreOK(store) /\ now \in Nat
  BY DEF ReadPage, IInv
<1>2. PICK k \in 0 .. Len(store.entries) : Without(store, k, store')
         /\ \A j \in 1 .. k : now - store.entries[j].stored_at >= Ttl
  BY <1>1, ExpireIs
<1>3. \/ now - client[c].at >= Ttl
      \/ i - k \in 1 .. Len(store'.entries) /\ store'.entries[i - k] = store.entries[i]
  BY <1>2, ExpiryReason
<1> QED
  BY <1>3 DEF Gone, Reason

LEMMA CallToolReason ==
    ASSUME IInv, NEW c \in Clients, NEW b \in Clients, CallTool(b),
           NEW i \in 1 .. Len(store.entries), store.entries[i].id = client[c].id,
           Gone(client[c].id)
    PROVE  Reason(c)
<1>0. PICK t \in Texts, root \in Roots :
         LET entry == [id |-> NextId, project_root |-> root, json |-> t,
                        stored_at |-> now, bytes |-> RetainedSize(t)]
         IN   \/ UNCHANGED store
              \/ /\ store' = Insert(Expire(store, now), entry)
                 /\ client' = [client EXCEPT ![b] =
                        IF entry.bytes > MaxBytes
                        THEN Client("refused", "none", <<>>, <<>>, 0, <<>>)
                        ELSE Client("reading", root, t, NextId, now, <<>>)]
  BY DEF CallTool
<1>1. StoreOK(store) /\ now \in Nat /\ next_sequence \in Nat /\ process_key \in Nat
      /\ client[b].pc = "idle" /\ MaxBytes \in Nat
  BY DEF CallTool, IInv, StoreAssumption
<1>2. CASE UNCHANGED store
  BY <1>2 DEF Gone
<1> DEFINE live == Expire(store, now)
           e == [id |-> NextId, project_root |-> root, json |-> t,
                 stored_at |-> now, bytes |-> RetainedSize(t)]
<1>3. PICK k \in 0 .. Len(store.entries) : Without(store, k, live) /\ StoreOK(live)
         /\ \A j \in 1 .. k : now - store.entries[j].stored_at >= Ttl
  BY <1>1, ExpireIs
<1>4. CASE now - client[c].at >= Ttl
  BY <1>4 DEF Reason
<1> HIDE DEF live
<1>5. CASE /\ ~(now - client[c].at >= Ttl)
           /\ store' = Insert(live, e)
           /\ client' = [client EXCEPT ![b] =
                        IF e.bytes > MaxBytes
                        THEN Client("refused", "none", <<>>, <<>>, 0, <<>>)
                        ELSE Client("reading", root, t, NextId, now, <<>>)]
  <2>1. i - k \in 1 .. Len(live.entries) /\ live.entries[i - k] = store.entries[i]
    BY <1>3, <1>5, ExpiryReason
  <2>2. e \in Entries /\ e.bytes = RetainedSize(t)
    BY <1>1, BytesNat DEF Entries, NextId
  <2> HIDE DEF e
  <2>3. e.bytes <= MaxBytes
    <3> SUFFICES ASSUME e.bytes > MaxBytes
                 PROVE  FALSE
      BY <1>1, <2>2 DEF Entries
    <3>1. store' = live
      BY <1>5 DEF Insert
    <3> QED
      BY <2>1, <3>1 DEF Gone
  <2>4. PICK j \in 0 .. Len(live.entries) :
           /\ store'.entries = Append(SubSeq(live.entries, j + 1, Len(live.entries)), e)
           /\ \A m \in 1 .. j :
                 \/ Len(SubSeq(live.entries, m, Len(live.entries))) + 1 > MaxStored
                 \/ Retained(SubSeq(live.entries, m, Len(live.entries))) + e.bytes > MaxBytes
    BY <1>3, <1>5, <2>2, <2>3, InsertIs
  <2>5. \A m \in 1 .. Len(store'.entries) : store'.entries[m] # store.entries[i]
    BY DEF Gone
  <2>6. \/ Len(SubSeq(store.entries, i, Len(store.entries))) + 1 > MaxStored
        \/ Retained(SubSeq(store.entries, i, Len(store.entries))) + e.bytes > MaxBytes
    <3>0. PICK es \in Seq(Entries) : es = store.entries
      BY <1>1 DEF StoreOK
    <3>1. PICK ls, new : es = store.entries /\ ls = live.entries /\ new = store'.entries
      BY <3>0
    <3>2. ls = SubSeq(es, k + 1, Len(es)) /\ Len(ls) = Len(es) - k /\ k \in 0 .. Len(es)
          /\ i \in 1 .. Len(es) /\ i - k \in 1 .. Len(ls) /\ j \in 0 .. Len(ls)
          /\ new = Append(SubSeq(ls, j + 1, Len(ls)), e)
      BY <1>3, <2>1, <2>4, <3>1 DEF Without
    <3>3. i > k
      BY <3>2
    <3>4. (\A m \in 1 .. j : \/ Len(SubSeq(ls, m, Len(ls))) + 1 > MaxStored
                              \/ Retained(SubSeq(ls, m, Len(ls))) + e.bytes > MaxBytes)
          /\ \A m \in 1 .. Len(new) : new[m] # es[i]
      BY <2>4, <2>5, <3>1
    <3>5. i - k \in 1 .. j /\ SubSeq(ls, i - k, Len(ls)) = SubSeq(es, i, Len(es))
      <4>1. Drops(es, k, ls, i, e, j, new)
        BY <3>2, <3>3, <3>4 DEF Drops
      <4>2. Dropped(es, k, ls, i, j)
        BY <2>2, <3>0, <4>1, SeqRestDrops
      <4> QED
        BY <4>2 DEF Dropped
    <3>6. \/ Len(SubSeq(es, i, Len(es))) + 1 > MaxStored
          \/ Retained(SubSeq(es, i, Len(es))) + e.bytes > MaxBytes
      BY <3>4, <3>5
    <3> QED
      BY <3>1, <3>6
  <2>7. client'[b].pc = "reading" /\ client'[b].text = t
    <3>1. ~(e.bytes > MaxBytes)
      BY <1>1, <2>2, <2>3 DEF Entries
    <3>2. client'[b] = Client("reading", root, t, NextId, now, <<>>)
      BY <1>5, <3>1 DEF IInv
    <3> QED
      BY <3>2 DEF Client
  <2>8. i \in DOMAIN store.entries
    BY <1>1 DEF StoreOK
  <2>9. Room(b, c)
    BY <1>1, <2>2, <2>6, <2>7, <2>8 DEF Room
  <2> QED
    BY <2>9 DEF Reason
<1> QED
  BY <1>0, <1>2, <1>4, <1>5 DEF live

Lost(c) ==
    LET before == {e \in Range(store.entries) : e.id = client[c].id}
        after == {e \in Range(store'.entries) : e.id = client[c].id}
    IN  before # {} /\ after = {}

LEMMA LostHasReason ==
    ASSUME IInv, [Next]_vars, IInv', NEW c \in Clients, Lost(c)
    PROVE  Reason(c)
<1>1. store.entries \in Seq(Entries) /\ store'.entries \in Seq(Entries)
  BY DEF IInv, StoreOK
<1>2. PICK i \in 1 .. Len(store.entries) : store.entries[i].id = client[c].id
  <2>1. PICK e \in Range(store.entries) : e.id = client[c].id
    BY DEF Lost
  <2> QED
    BY <1>1, <2>1 DEF Range
<1>3. Gone(client[c].id)
  <2> SUFFICES ASSUME NEW j \in 1 .. Len(store'.entries), store'.entries[j].id = client[c].id
               PROVE  FALSE
    BY DEF Gone
  <2>1. store'.entries[j] \in Range(store'.entries)
    BY <1>1 DEF Range
  <2> QED
    BY <2>1 DEF Lost
<1>4. ASSUME NEW b \in Clients, CallTool(b)
      PROVE  Reason(c)
  BY <1>2, <1>3, <1>4, CallToolReason
<1>5. ASSUME NEW b \in Clients, ReadPage(b)
      PROVE  Reason(c)
  BY <1>2, <1>3, <1>5, ReadPageReason
<1>6. CASE Restart
  <2>1. process_key' # process_key
    BY <1>6 DEF Restart, IInv
  <2> QED
    BY <2>1 DEF Reason
<1>7. CASE UNCHANGED store
  BY <1>2, <1>3, <1>7 DEF Gone
<1> QED
  BY <1>4, <1>5, <1>6, <1>7 DEF Next, Tick, vars

(* A result that a client can still read is lost only to its age, to a     *)
(* restart, or to a newer result that does not fit together with it and    *)
(* what came after it: no room is lost to results that are gone.           *)
THEOREM LostOnlyForAReasonAlways == Spec => LostOnlyForAReason
<1>1. IInv /\ IInv' /\ [Next]_vars
        => [\A c \in Clients : Lost(c) => Reason(c)]_vars
  BY LostHasReason
<1>2. [\A c \in Clients : Lost(c) => Reason(c)]_vars
        => [\A c \in Clients :
          LET before == {e \in Range(store.entries) : e.id = client[c].id}
              after == {e \in Range(store'.entries) : e.id = client[c].id}
          IN  before # {} /\ after = {} =>
                 \/ now - client[c].at >= Ttl
                 \/ process_key' # process_key
                 \/ \E d \in Clients :
                      /\ client[d].pc = "idle" /\ client'[d].pc = "reading"
                      /\ \E i \in DOMAIN store.entries :
                         LET since == SubSeq(store.entries, i, Len(store.entries))
                         IN /\ store.entries[i].id = client[c].id
                            /\ \/ Len(since) + 1 > MaxStored
                               \/ Retained(since) + RetainedSize(client'[d].text) > MaxBytes]_vars
  BY Zenon DEF Lost, Reason, Room
<1> QED
  BY <1>1, <1>2, Invariance, PTL DEF Spec, LostOnlyForAReason
=============================================================================
