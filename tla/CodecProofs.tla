---------------------------- MODULE CodecProofs ----------------------------
(***************************************************************************)
(* Proofs about the codec services: Encoder for any number of pictures,    *)
(* buffers and sizes, and Mps for any number of threads, channels, units   *)
(* and sensors.                                                            *)
(***************************************************************************)
EXTENDS Encoder, Mps, SublistsProofs, FiniteSetTheorems, SequenceTheorems

USE DEF app, flags, memory, scratch, header, codec, seen, ends,
        codecVars, service, capture, devices

-----------------------------------------------------------------------------
(* Lists of pictures and packets *)

LEMMA EncoderFacts ==
  /\ MaxFrames \in Nat /\ MaxFrames >= 1 /\ NoPicture \in Pictures
  /\ Sizes \subseteq Nat /\ None \notin Bufs /\ 0 \notin Sizes
  BY EncoderConstants DEF NoPicture, Pictures

LEMMA SizeFacts == \A z \in {0} \cup Sizes : z \in Nat
  BY EncoderConstants

LEMMA EntryFacts ==
  ASSUME NEW x \in Jobs \cup {Eos}
  PROVE  /\ x.n \in Nat /\ x.buf \in Bufs \cup {None}
         /\ x # Eos => x \in Jobs /\ x.n >= 1 /\ x.n <= MaxFrames /\ x.buf \in Bufs
         /\ x = Eos => x.n = 0 /\ x.buf = None /\ x \notin Jobs
  BY EncoderFacts DEF Jobs, Eos

LEMMA BitsFacts ==
  ASSUME NEW b \in Bits
  PROVE  b.n \in Nat /\ b.kind \in {"head", "frame"} /\ Rank(b) \in Nat /\ b # NoBits
         /\ Rank(b) = (IF b.kind = "frame" THEN 2 * b.n + 1 ELSE 2 * b.n)
  BY EncoderFacts DEF Bits, Rank, NoBits

\* A list with an entry more.
LEMMA BufsAppend ==
  ASSUME NEW S, NEW w \in Seq(S), NEW x \in S
  PROVE  /\ BufsIn(Append(w, x)) = BufsIn(w) \cup ({x.buf} \ {None})
         /\ InOnce(w) /\ (\A i \in DOMAIN w : w[i].buf # x.buf) => InOnce(Append(w, x))
<1> DEFINE v == Append(w, x)
           L == Len(v)
<1>1. /\ DOMAIN v = DOMAIN w \cup {L} /\ v[L] = x
      /\ \A i \in DOMAIN w : v[i] = w[i]
  BY AppendWork
<1> HIDE DEF v, L
<1>2. BufsIn(v) = BufsIn(w) \cup ({x.buf} \ {None})
  BY <1>1, Zenon DEF BufsIn
<1>3. ASSUME InOnce(w), \A i \in DOMAIN w : w[i].buf # x.buf
      PROVE  InOnce(v)
  BY <1>1, <1>3, Zenon DEF InOnce
<1> QED
  BY <1>2, <1>3 DEF v

\* A list without its first entry.
LEMMA BufsTail ==
  ASSUME NEW S, NEW w \in Seq(S), w # <<>>
  PROVE  /\ BufsIn(w) = BufsIn(Tail(w)) \cup ({Head(w).buf} \ {None})
         /\ InOnce(w) => InOnce(Tail(w)) /\ \A i \in DOMAIN Tail(w) : Tail(w)[i].buf # Head(w).buf
<1> DEFINE v == Tail(w)
<1>1. /\ Head(w) = w[1] /\ 1 \in DOMAIN w
      /\ \A i \in DOMAIN v : i \in Nat /\ i >= 1 /\ i + 1 \in DOMAIN w /\ v[i] = w[i + 1]
  BY TailWork
<1>2. \A j \in DOMAIN w : j # 1 => j - 1 \in DOMAIN v /\ v[j - 1] = w[j]
  OBVIOUS
<1> HIDE DEF v
<1>3. BufsIn(w) \subseteq BufsIn(v) \cup ({Head(w).buf} \ {None})
  <2> SUFFICES ASSUME NEW j \in DOMAIN w, w[j].buf # None, j # 1
               PROVE  w[j].buf \in BufsIn(v)
    BY <1>1 DEF BufsIn
  <2> QED
    BY <1>2 DEF BufsIn
<1>4. BufsIn(v) \cup ({Head(w).buf} \ {None}) \subseteq BufsIn(w)
  BY <1>1 DEF BufsIn
<1>5. ASSUME InOnce(w) PROVE InOnce(v) /\ \A i \in DOMAIN v : v[i].buf # Head(w).buf
  <2>1. ASSUME NEW i \in DOMAIN v, NEW j \in DOMAIN v, v[i].buf = v[j].buf PROVE i = j
    <3>1. i + 1 \in DOMAIN w /\ j + 1 \in DOMAIN w /\ w[i + 1].buf = w[j + 1].buf
          /\ i \in Nat /\ j \in Nat
      BY <1>1, <2>1
    <3>2. i + 1 = j + 1
      BY <1>5, <3>1 DEF InOnce
    <3> QED
      BY <3>1, <3>2
  <2>2. ASSUME NEW i \in DOMAIN v, v[i].buf = Head(w).buf PROVE FALSE
    <3>1. i + 1 \in DOMAIN w /\ w[i + 1].buf = w[1].buf /\ i \in Nat /\ i >= 1 /\ 1 \in DOMAIN w
      BY <1>1, <2>2
    <3>2. i + 1 = 1
      BY <1>5, <3>1 DEF InOnce
    <3> QED
      BY <3>1, <3>2
  <2> QED
    BY <2>1, <2>2 DEF InOnce
<1> QED
  BY <1>3, <1>4, <1>5 DEF v

\* A picture joins the library's work, the number of the last picture grows.
LEMMA JoinJob ==
  ASSUME out \in Seq(Bits), packets \in Seq(Bits), head_pkg_ \in Bits \cup {NoBits},
         NEW w \in Seq(Jobs \cup {Eos}), NEW last \in Int, NEW x \in Jobs, x.n = last + 1,
         Emitted(last), Follows(w, last)
  PROVE  Follows(Append(w, x), last + 1)
<1> DEFINE v == Append(w, x)
           L == Len(v)
<1>1. /\ DOMAIN v = DOMAIN w \cup {L} /\ v[L] = x /\ L \in Nat
      /\ \A i \in DOMAIN w : v[i] = w[i] /\ i \in Nat /\ i < L /\ w[i] \in Jobs \cup {Eos}
  <2>1. x \in Jobs \cup {Eos}
    OBVIOUS
  <2> QED
    BY <2>1, AppendWork
<1> HIDE DEF v, L
<1>2. \A i \in DOMAIN w : w[i].n \in Nat /\ w[i].n <= last
  BY <1>1, EntryFacts DEF Follows
<1>3. \A i \in DOMAIN v : v[i].n <= last + 1
  BY <1>1, <1>2
<1>4. ASSUME NEW i \in DOMAIN v, NEW j \in DOMAIN v, i < j, v[j] # Eos PROVE v[i].n < v[j].n
  <2>1. i # L
    BY <1>1, <1>4
  <2>2. i \in DOMAIN w /\ v[i] = w[i]
    BY <1>1, <2>1
  <2>3. CASE j = L
    BY <1>1, <1>2, <2>2, <2>3
  <2>4. CASE j # L
    BY <1>1, <1>4, <2>2, <2>4 DEF Follows
  <2> QED
    BY <2>3, <2>4
<1>5. /\ \A i \in DOMAIN out : out[i].n \in Nat /\ out[i].n < x.n
      /\ \A i \in DOMAIN packets : packets[i].n \in Nat /\ packets[i].n < x.n
      /\ KeptBack => head_pkg_.n < x.n
  <2>1. /\ \A i \in DOMAIN out : out[i].n \in Nat
        /\ \A i \in DOMAIN packets : packets[i].n \in Nat
        /\ KeptBack => head_pkg_.n \in Nat
    BY BitsFacts DEF KeptBack
  <2> QED
    BY <2>1 DEF Emitted
<1>6. \A j \in DOMAIN v : v[j] # Eos =>
        /\ \A i \in DOMAIN out : out[i].n < v[j].n
        /\ \A i \in DOMAIN packets : packets[i].n < v[j].n
        /\ KeptBack => head_pkg_.n < v[j].n
  BY <1>1, <1>5 DEF Follows
<1> QED
  BY <1>3, <1>4, <1>6 DEF Follows, v

LEMMA JoinEos ==
  ASSUME NEW w \in Seq(Jobs \cup {Eos}), NEW last \in Int, last >= 0, Follows(w, last)
  PROVE  Follows(Append(w, Eos), last)
<1> DEFINE v == Append(w, Eos)
           L == Len(v)
<1>1. /\ DOMAIN v = DOMAIN w \cup {L} /\ v[L] = Eos /\ L \in Nat
      /\ \A i \in DOMAIN w : v[i] = w[i] /\ i \in Nat /\ i < L
  <2>1. Eos \in Jobs \cup {Eos}
    OBVIOUS
  <2> QED
    BY <2>1, AppendWork
<1> HIDE DEF v, L
<1>2. \A i \in DOMAIN v : v[i].n <= last
  BY <1>1, EntryFacts DEF Follows, Eos
<1>3. ASSUME NEW i \in DOMAIN v, NEW j \in DOMAIN v, i < j, v[j] # Eos PROVE v[i].n < v[j].n
  <2>1. i # L /\ j # L
    BY <1>1, <1>3
  <2> QED
    BY <1>1, <1>3, <2>1 DEF Follows
<1>4. \A j \in DOMAIN v : v[j] # Eos => j \in DOMAIN w /\ v[j] = w[j]
  BY <1>1
<1> QED
  BY <1>2, <1>3, <1>4 DEF Follows, v

\* What SendFrame(nullptr) hands to the library.
LEMMA FlushedList ==
  ASSUME TypeOK, NEW refused
  PROVE  /\ Flushed(refused) \in Seq(Jobs)
         /\ Len(Flushed(refused)) \in Nat /\ Len(Flushed(refused)) <= Len(cnframe_queue_)
         /\ \A i \in DOMAIN Flushed(refused) :
              \E k \in DOMAIN cnframe_queue_ : Flushed(refused)[i] = cnframe_queue_[k]
<1> DEFINE q == cnframe_queue_
           N == 1 .. Len(q)
           all == [i \in 1 .. Len(q) |-> i]
           sent == Without(all, refused)
<1>1. q \in Seq(Jobs) /\ Len(q) \in Nat /\ DOMAIN q = N /\ \A k \in N : q[k] \in Jobs
  BY DEF TypeOK
<1>2. all \in Seq(N) /\ Len(all) = Len(q)
  BY <1>1
<1>3. sent \in Seq(N) /\ Len(sent) <= Len(q)
  BY <1>2, WithoutProperties, WithoutLength
<1>4. Flushed(refused) = [i \in 1 .. Len(sent) |-> q[sent[i]]]
  BY DEF Flushed
<1> HIDE DEF sent, q, N
<1>5. /\ Len(sent) \in Nat /\ \A i \in 1 .. Len(sent) : sent[i] \in N
  BY <1>3
<1>6. Flushed(refused) \in [1 .. Len(sent) -> Jobs]
  BY <1>1, <1>4, <1>5
<1>7. Flushed(refused) \in Seq(Jobs) /\ Len(Flushed(refused)) = Len(sent)
      /\ DOMAIN Flushed(refused) = 1 .. Len(sent)
  BY <1>5, <1>6
<1> QED
  BY <1>1, <1>3, <1>4, <1>5, <1>7 DEF q

-----------------------------------------------------------------------------
(* What the parts of the invariant look at *)

LEMMA LastInt == ASSUME TypeOK PROVE LastPicture \in Int /\ LastPicture <= nframes
  BY EncoderFacts DEF TypeOK, LastPicture

LEMMA FlowFrame ==
  ASSUME TypeOK, TypeOK', Flowing, LastPicture' >= LastPicture,
         UNCHANGED <<platform, work, out, packets, first_frame_, head_pkg_>>
  PROVE  Flowing'
<1> SUFFICES ASSUME platform = "MLU370" PROVE Emitted(LastPicture)' /\ Follows(work, LastPicture)'
  BY DEF Flowing
<1>1. Emitted(LastPicture) /\ Follows(work, LastPicture)
  BY DEF Flowing
<1>2. LastPicture \in Int /\ LastPicture' \in Int
  BY EncoderFacts DEF TypeOK, LastPicture
<1>3. /\ \A i \in DOMAIN out : out[i].n \in Nat
      /\ \A i \in DOMAIN packets : packets[i].n \in Nat
      /\ \A i \in DOMAIN work : work[i].n \in Nat
      /\ KeptBack => head_pkg_.n \in Nat
  BY BitsFacts, EntryFacts DEF TypeOK, KeptBack
<1> HIDE DEF LastPicture
<1>4. Emitted(LastPicture)'
  <2>1. /\ \A i \in DOMAIN out : out[i].n <= LastPicture'
        /\ \A i \in DOMAIN packets : packets[i].n <= LastPicture'
        /\ KeptBack => head_pkg_.n <= LastPicture'
    BY <1>1, <1>2, <1>3 DEF Emitted
  <2> QED
    BY <1>1, <2>1 DEF Emitted, Sorted, Rank, KeptBack
<1>5. Follows(work, LastPicture)'
  <2>1. \A i \in DOMAIN work : work[i].n <= LastPicture'
    BY <1>1, <1>2, <1>3 DEF Follows
  <2> QED
    BY <1>1, <2>1 DEF Follows, KeptBack
<1> QED
  BY <1>4, <1>5

LEMMA ApartFrame ==
  ASSUME Apart, UNCHANGED <<platform, work, avail, cnframe_queue_, cn_frame>>
  PROVE  Apart'
  BY DEF Apart, InOnce, BufsIn

LEMMA AllThereFrame ==
  ASSUME AllThere, UNCHANGED <<platform, params>>,
         platform = "MLU370" /\ created_' /\ ~eos_sent_' => created_ /\ ~eos_sent_ /\ InUse' = InUse
  PROVE  AllThere'
  BY DEF AllThere

LEMMA InUseFrame ==
  ASSUME UNCHANGED <<work, avail, cnframe_queue_, cn_frame>>
  PROVE  InUse' = InUse
  BY DEF InUse, BufsIn

-----------------------------------------------------------------------------
LEMMA InitEncoder == Init => EncoderInv
<1> SUFFICES ASSUME Init PROVE EncoderInv
  OBVIOUS
<1> USE DEF Init
<1>1. /\ cnframe_queue_ = <<>> /\ work = <<>> /\ out = <<>> /\ packets = <<>>
      /\ <<>> \in Seq(Jobs) /\ <<>> \in Seq(Jobs \cup {Eos}) /\ <<>> \in Seq(Bits)
  OBVIOUS
<1>2. TypeOK
  <2>1. /\ platform \in Platforms /\ params \in Params /\ pic \in Pictures
        /\ nframes \in 0 .. MaxFrames /\ frame_count_ \in 0 .. 2 * MaxFrames
        /\ Len(cnframe_queue_) <= 2 * MaxFrames
    BY <1>1, EncoderFacts
  <2>2. /\ created_ \in BOOLEAN /\ eos_sent_ \in BOOLEAN /\ first_frame_ \in BOOLEAN
        /\ gaveup \in BOOLEAN /\ crashed \in BOOLEAN
        /\ overrun \in BOOLEAN /\ nomemory \in BOOLEAN /\ usedfreed \in BOOLEAN
    OBVIOUS
  <2> QED
    BY <1>1, <2>1, <2>2 DEF TypeOK
<1>3. Counted /\ InHand /\ LeftOver /\ ScratchCovers /\ DestroyDrains /\ AllThere
  BY EncoderFacts DEF Counted, Pending, InHand, LeftOver, ScratchCovers, DestroyDrains, AllThere
<1>4. EosOnce
  BY DEF EosOnce, EosReported
<1>5. Apart
  BY EncoderFacts DEF Apart, InOnce, BufsIn
<1>6. Flowing
  BY DEF Flowing, Emitted, Follows, Sorted, KeptBack
<1> QED
  BY <1>2, <1>3, <1>4, <1>5, <1>6 DEF EncoderInv

\* The scratch memory holds what is copied to it, unless there was no memory for it.
LEMMA ScratchStep ==
  ASSUME EncoderInv, NEW ok \in BOOLEAN, UseScratch(ok)
  PROVE  /\ ScratchCovers' /\ nomemory' \in BOOLEAN /\ overrun' \in BOOLEAN
         /\ src_mlu_' \in {"null", "live", "freed"} /\ src_size_' \in {0} \cup Sizes
         /\ usedfreed' \in BOOLEAN
<1> USE DEF EncoderInv
<1>1. /\ pic.size \in {0} \cup Sizes /\ src_size_ \in {0} \cup Sizes
      /\ src_mlu_ \in {"null", "live", "freed"} /\ nomemory \in BOOLEAN
      /\ overrun = FALSE /\ (src_mlu_ = "freed" \/ usedfreed => nomemory)
  BY Zenon DEF TypeOK, Pictures, ScratchCovers
<1>2. pic.size \in Nat /\ src_size_ \in Nat
  BY <1>1, SizeFacts
<1>3. /\ overrun' = (overrun \/ (ok /\ pic.size > src_size_'))
      /\ usedfreed' = (usedfreed \/ (pic.size # 0 /\ src_mlu_ = "freed"))
  BY DEF UseScratch
<1>4. CASE TooSmall(pic.size)
  <2>1. /\ src_mlu_' = IF ok THEN "live" ELSE IF src_mlu_ = "null" THEN "null" ELSE "freed"
        /\ src_size_' = IF ok THEN pic.size ELSE src_size_
        /\ nomemory' = (nomemory \/ ~ok)
    BY <1>4 DEF UseScratch, Allocate
  <2>2. ~(ok /\ pic.size > src_size_')
    BY <1>2, <2>1
  <2>3. src_mlu_' = "freed" \/ usedfreed' => nomemory'
    BY <1>1, <1>3, <2>1
  <2>4. overrun' = FALSE
    BY <1>1, <1>3, <2>2
  <2>5. nomemory' \in BOOLEAN /\ usedfreed' \in BOOLEAN
    BY <1>1, <1>3, <2>1, Zenon DEF TypeOK
  <2> QED
    BY <1>1, <2>1, <2>3, <2>4, <2>5 DEF ScratchCovers
<1>5. CASE ~TooSmall(pic.size)
  <2>1. /\ ok
        /\ src_mlu_' = src_mlu_ /\ src_size_' = src_size_ /\ nomemory' = nomemory
    BY <1>5 DEF UseScratch
  <2>2. ~(pic.size > src_size_')
    BY <1>2, <1>5, <2>1 DEF TooSmall
  <2>3. src_mlu_' = "freed" \/ usedfreed' => nomemory'
    BY <1>1, <1>3, <2>1
  <2>4. overrun' = FALSE
    BY <1>1, <1>3, <2>2
  <2>5. usedfreed' \in BOOLEAN
    BY <1>1, <1>3, Zenon DEF TypeOK
  <2> QED
    BY <1>1, <2>1, <2>3, <2>4, <2>5 DEF ScratchCovers
<1> QED
  BY <1>4, <1>5

\* Steps that move no buffer, picture or packet.
LEMMA QuietStep ==
  ASSUME EncoderInv, Refused \/ Transform \/ DestroyWait \/ CallOnEos
  PROVE  EncoderInv'
<1> USE DEF EncoderInv
<1>1. UNCHANGED <<platform, params, cn_frame, nframes, cnframe_queue_, frame_count_, created_,
                  eos_sent_, header, avail, work, out, packets, crashed, ended, gaveup, pic>>
  BY DEF Refused, Transform, DestroyWait, CallOnEos
<1>2. TypeOK' /\ ScratchCovers'
  <2>1. CASE Refused
    BY <2>1 DEF Refused, TypeOK, ScratchCovers
  <2>2. CASE Transform
    <3>1. UseScratch(TRUE) /\ TRUE \in BOOLEAN
      BY <2>2 DEF Transform
    <3>2. /\ ScratchCovers' /\ nomemory' \in BOOLEAN /\ overrun' \in BOOLEAN
          /\ src_mlu_' \in {"null", "live", "freed"} /\ src_size_' \in {0} \cup Sizes
          /\ usedfreed' \in BOOLEAN
      BY <3>1, ScratchStep
    <3> QED
      BY <2>2, <3>2 DEF Transform, TypeOK
  <2>3. CASE DestroyWait
    BY <2>3 DEF DestroyWait, TypeOK, ScratchCovers
  <2>4. CASE CallOnEos
    BY <2>4 DEF CallOnEos, TypeOK, ScratchCovers, EosOnce
  <2> QED
    BY <2>1, <2>2, <2>3, <2>4
<1>3. Counted' /\ InHand'
  <2>1. /\ Pending' \in Nat /\ Pending \in Nat /\ Pending' <= Pending
        /\ (apc' \in {"transform", "send"}) <=> (apc \in {"transform", "send"})
    <3>1. CASE Refused
      BY <3>1 DEF Pending, Refused
    <3>2. CASE Transform
      BY <3>2 DEF Pending, Transform
    <3>3. CASE DestroyWait
      BY <3>3 DEF Pending, DestroyWait
    <3>4. CASE CallOnEos
      BY <3>4 DEF Pending, CallOnEos
    <3> QED
      BY <3>1, <3>2, <3>3, <3>4
  <2>2. frame_count_ \in Nat /\ Len(cnframe_queue_) \in Nat /\ nframes \in Nat
    BY EncoderFacts DEF TypeOK
  <2>3. Counted'
    BY <1>1, <2>1, <2>2 DEF Counted
  <2> QED
    BY <1>1, <2>1, <2>3 DEF InHand
<1>4. EosOnce'
  <2>1. CASE Refused
    BY <1>1, <2>1 DEF EosOnce, EosReported, Refused
  <2>2. CASE Transform
    BY <1>1, <2>2 DEF EosOnce, EosReported, Transform
  <2>3. CASE DestroyWait
    BY <1>1, <2>3 DEF EosOnce, EosReported, DestroyWait
  <2>4. CASE CallOnEos
    BY <1>1, <2>4 DEF EosOnce, EosReported, CallOnEos, TypeOK
  <2> QED
    BY <2>1, <2>2, <2>3, <2>4
<1>5. LeftOver' /\ DestroyDrains'
  BY <1>1 DEF LeftOver, DestroyDrains
<1>6. Apart' /\ AllThere'
  BY <1>1, ApartFrame, AllThereFrame, InUseFrame
<1>7. Flowing'
  <2>1. LastPicture' = LastPicture /\ LastPicture \in Int
    BY <1>1, LastInt DEF LastPicture
  <2> QED
    BY <1>1, <1>2, <2>1, FlowFrame
<1> QED
  BY <1>2, <1>3, <1>4, <1>5, <1>6, <1>7

LEMMA CreatedStep ==
  ASSUME EncoderInv, Create
  PROVE  EncoderInv'
<1> USE DEF EncoderInv, Create
<1>1. PICK B \in SUBSET Bufs : avail' = B /\ Cardinality(B) = InputBuffers(params.input_buf_num)
  OBVIOUS
<1>2. work = <<>> /\ work' = <<>> /\ ~eos_sent_ /\ cn_frame = None /\ None \notin Bufs
  BY EncoderFacts DEF EosOnce, InHand
<1>3. TypeOK'
  BY <1>1 DEF TypeOK
<1>4. Counted' /\ InHand' /\ LeftOver' /\ ScratchCovers' /\ DestroyDrains'
  BY DEF Counted, Pending, InHand, LeftOver, ScratchCovers, DestroyDrains
<1>5. EosOnce'
  BY <1>2 DEF EosOnce, EosReported
<1>6. Apart' /\ AllThere'
  <2>1. cnframe_queue_ = <<>> /\ cnframe_queue_' = <<>>
    BY DEF EosOnce
  <2>2. BufsIn(<<>>) = {} /\ InOnce(<<>>)
    BY DEF BufsIn, InOnce
  <2>3. InUse' = B
    BY <1>1, <1>2, <2>1, <2>2 DEF InUse
  <2> QED
    BY <1>1, <1>2, <2>1, <2>2, <2>3 DEF Apart, AllThere
<1>7. Flowing'
  <2>1. LastPicture' = LastPicture /\ LastPicture \in Int
    BY LastInt DEF LastPicture
  <2> QED
    BY <1>3, <2>1, FlowFrame
<1> QED
  BY <1>3, <1>4, <1>5, <1>6, <1>7

\* SendFrame takes a buffer, left over or from the library.
LEMMA SendFrameStep ==
  ASSUME EncoderInv, NEW size \in {0} \cup Sizes, NEW b \in Bufs, SendFrame(size, b)
  PROVE  EncoderInv'
<1> USE DEF EncoderInv, SendFrame
<1>1. /\ nframes \in 0 .. MaxFrames /\ nframes' \in 0 .. MaxFrames /\ nframes' = nframes + 1
      /\ nframes \in Nat /\ pic' \in Pictures /\ pic'.n = nframes'
  BY EncoderFacts DEF TypeOK, Pictures
<1>2. b # None /\ cn_frame = None /\ cn_frame' = b
  BY EncoderFacts DEF InHand
<1>3. cnframe_queue_ \in Seq(Jobs) /\ Len(cnframe_queue_) \in Nat /\ frame_count_ \in Nat
  BY DEF TypeOK
<1>4. /\ cnframe_queue_' \in Seq(Jobs) /\ Len(cnframe_queue_') <= Len(cnframe_queue_)
      /\ Len(cnframe_queue_') \in Nat /\ avail' \in SUBSET Bufs
      /\ BufsIn(cnframe_queue_') \subseteq BufsIn(cnframe_queue_)
      /\ avail' \subseteq avail
  <2>1. CASE cnframe_queue_ # <<>> /\ cnframe_queue_' = Tail(cnframe_queue_) /\ UNCHANGED avail
    BY <1>3, <2>1, BufsTail DEF TypeOK
  <2>2. CASE cnframe_queue_ = <<>> /\ UNCHANGED cnframe_queue_ /\ avail' = avail \ {b}
    BY <1>3, <2>2 DEF TypeOK
  <2> QED
    BY <2>1, <2>2 DEF RequestFrame
<1>5. TypeOK'
  BY <1>1, <1>2, <1>3, <1>4, EncoderFacts DEF TypeOK
<1>6. Counted'
  BY <1>1, <1>3, <1>4 DEF Counted, Pending
<1>7. EosOnce'
  BY DEF EosOnce, EosReported
<1>8. InHand' /\ ScratchCovers' /\ DestroyDrains'
  BY <1>1, <1>2 DEF InHand, ScratchCovers, DestroyDrains
<1>9. ASSUME platform = "MLU370"
      PROVE  /\ cnframe_queue_' = <<>> /\ InUse' = InUse
             /\ avail' \cap BufsIn(work) = {} /\ b \notin avail' \cup BufsIn(work)
  <2>1. /\ avail \cap BufsIn(work) = {} /\ avail \cap BufsIn(cnframe_queue_) = {}
        /\ BufsIn(work) \cap BufsIn(cnframe_queue_) = {} /\ Len(cnframe_queue_) <= 1
    BY <1>9 DEF Apart, LeftOver
  <2>2. BufsIn(<<>>) = {} /\ work' = work
    BY DEF BufsIn
  <2>3. CASE cnframe_queue_ # <<>> /\ b = Head(cnframe_queue_).buf
             /\ cnframe_queue_' = Tail(cnframe_queue_) /\ UNCHANGED avail
    <3>1. cnframe_queue_' = <<>>
      BY <1>3, <2>1, <2>3
    <3>2. BufsIn(cnframe_queue_) = {b}
      BY <1>2, <1>3, <2>2, <2>3, <3>1, BufsTail
    <3> QED
      BY <1>2, <2>1, <2>2, <2>3, <3>1, <3>2 DEF InUse
  <2>4. CASE cnframe_queue_ = <<>> /\ b \in avail /\ UNCHANGED cnframe_queue_ /\ avail' = avail \ {b}
    BY <1>2, <2>1, <2>2, <2>4 DEF InUse
  <2> QED
    BY <2>3, <2>4 DEF RequestFrame
<1>10. LeftOver' /\ Apart'
  <2>1. ASSUME platform = "MLU370" PROVE BufsIn(cnframe_queue_') = {} /\ Len(cnframe_queue_') <= 1
    BY <1>9, <2>1 DEF BufsIn
  <2> QED
    BY <1>2, <1>9, <2>1 DEF LeftOver, Apart, InOnce, BufsIn
<1>11. AllThere'
  BY <1>9, AllThereFrame
<1>12. Flowing'
  <2>1. LastPicture' = nframes
    BY <1>1, <1>2 DEF LastPicture
  <2> QED
    BY <1>5, <2>1, LastInt, FlowFrame
<1> QED
  BY <1>5, <1>6, <1>7, <1>8, <1>10, <1>11, <1>12

\* The picture SendFrame has in its hand.
LEMMA JobFacts ==
  ASSUME EncoderInv, apc \in {"transform", "send"}
  PROVE  /\ cn_frame \in Bufs /\ cn_frame # None /\ Job \in Jobs /\ Job # Eos
         /\ Job.n = nframes /\ Job.buf = cn_frame /\ nframes \in 1 .. MaxFrames
         /\ platform = "MLU370" => cnframe_queue_ = <<>> /\ LastPicture = nframes - 1
<1>1. cn_frame \in Bufs /\ cn_frame # None /\ pic.n = nframes
  BY DEF EncoderInv, TypeOK, InHand
<1>2. pic.n \in 1 .. MaxFrames
  BY DEF EncoderInv, TypeOK, Pictures
<1>3. Job \in Jobs /\ Job.n = nframes /\ Job.buf = cn_frame
  BY <1>1, <1>2 DEF Job, Jobs
<1>4. platform = "MLU370" => cnframe_queue_ = <<>> /\ LastPicture = nframes - 1
  BY <1>1 DEF EncoderInv, LeftOver, LastPicture
<1> QED
  BY <1>1, <1>2, <1>3, <1>4, EntryFacts

\* A conversion or a transmission that fails keeps the buffer for the next call.
LEMMA KeepStep ==
  ASSUME EncoderInv, TransformFails \/ SendFailed
  PROVE  EncoderInv'
<1> USE DEF EncoderInv
<1>0. /\ ScratchCovers' /\ nomemory' \in BOOLEAN /\ overrun' \in BOOLEAN
      /\ src_mlu_' \in {"null", "live", "freed"} /\ src_size_' \in {0} \cup Sizes
      /\ usedfreed' \in BOOLEAN
  <2>1. CASE UNCHANGED scratch
    BY <2>1, Zenon DEF TypeOK, ScratchCovers
  <2>2. CASE \E ok \in BOOLEAN : UseScratch(ok)
    BY <2>2, ScratchStep
  <2> QED
    BY <2>1, <2>2 DEF TransformFails, SendFailed, TransformScratch
<1>1. /\ apc \in {"transform", "send"} /\ cnframe_queue_' = Append(cnframe_queue_, Job)
      /\ UNCHANGED <<platform, params, pic, nframes, flags, frame_count_, header,
                     codec, seen, ends>>
      /\ \/ apc' = "open" /\ cn_frame' = None
         \/ apc = "transform" /\ apc' = "send" /\ platform = "MLU590" /\ UNCHANGED cn_frame
  BY DEF TransformFails, SendFailed, TransformFails370, TransformFails590
<1>2. /\ cn_frame \in Bufs /\ cn_frame # None /\ Job \in Jobs
      /\ Job.n = nframes /\ Job.buf = cn_frame /\ nframes \in 1 .. MaxFrames
      /\ platform = "MLU370" => cnframe_queue_ = <<>> /\ LastPicture = nframes - 1
  BY <1>1, JobFacts
<1>3. /\ cnframe_queue_ \in Seq(Jobs) /\ cnframe_queue_' \in Seq(Jobs)
      /\ Len(cnframe_queue_') = Len(cnframe_queue_) + 1 /\ Len(cnframe_queue_) \in Nat
      /\ frame_count_ \in Nat
  BY <1>1, <1>2 DEF TypeOK
<1>4. Counted'
  BY <1>1, <1>2, <1>3 DEF Counted, Pending
<1>5. TypeOK'
  <2>1. /\ src_mlu_' \in {"null", "live", "freed"} /\ src_size_' \in {0} \cup Sizes
        /\ nomemory' \in BOOLEAN /\ overrun' \in BOOLEAN /\ usedfreed' \in BOOLEAN
    BY <1>0
  <2>2. Len(cnframe_queue_') <= 2 * MaxFrames
    <3>1. frame_count_ + Len(cnframe_queue_') + Pending' <= 2 * nframes
      BY <1>1, <1>4 DEF Counted
    <3>2. Pending' \in Nat
      BY DEF Pending
    <3> QED
      BY <1>2, <1>3, <3>1, <3>2, EncoderFacts
  <2>3. apc' \in {"open", "send"} /\ cn_frame' \in Bufs \cup {None}
    BY <1>1, <1>2
  <2> QED
    BY <1>1, <1>3, <2>1, <2>2, <2>3 DEF TypeOK
<1>6. EosOnce'
  BY <1>1 DEF EosOnce, EosReported
<1>7. InHand' /\ ScratchCovers' /\ DestroyDrains'
  BY <1>0, <1>1 DEF InHand, DestroyDrains
<1>8. ASSUME platform = "MLU370"
      PROVE  /\ Len(cnframe_queue_') = 1 /\ cnframe_queue_'[1].n = nframes
             /\ cn_frame' = None /\ BufsIn(cnframe_queue_') = {cn_frame} /\ BufsIn(cnframe_queue_) = {}
  <2>1. cnframe_queue_ = <<>> /\ cnframe_queue_' = Append(cnframe_queue_, Job)
    BY <1>1, <1>2, <1>8
  <2>2. BufsIn(<<>>) = {}
    BY DEF BufsIn
  <2>3. BufsIn(cnframe_queue_') = BufsIn(cnframe_queue_) \cup ({cn_frame} \ {None})
    BY <1>2, <1>3, <2>1, BufsAppend
  <2>4. Len(cnframe_queue_') = 1 /\ cnframe_queue_'[1].n = nframes
    BY <1>2, <1>3, <2>1
  <2> QED
    BY <1>1, <1>2, <1>8, <2>1, <2>2, <2>3, <2>4
<1>9. LeftOver' /\ Apart' /\ AllThere'
  <2>1. LeftOver'
    BY <1>1, <1>8 DEF LeftOver
  <2>2. Apart'
    BY <1>1, <1>2, <1>8, EncoderFacts DEF Apart, InOnce, BufsIn, TypeOK
  <2>3. platform = "MLU370" => InUse' = InUse
    <3>1. BufsIn(work') = BufsIn(work) /\ avail' = avail
      BY <1>1
    <3> QED
      BY <1>2, <1>8, <3>1 DEF InUse
  <2> QED
    BY <1>1, <2>1, <2>2, <2>3, AllThereFrame
<1>10. Flowing'
  <2>1. platform = "MLU370" => LastPicture' >= LastPicture
    BY <1>1, <1>2, <1>8 DEF LastPicture
  <2>2. platform # "MLU370" => Flowing'
    BY <1>1 DEF Flowing
  <2> QED
    BY <1>1, <1>5, <2>1, <2>2, FlowFrame
<1> QED
  BY <1>4, <1>5, <1>6, <1>7, <1>9, <1>10

\* The library takes the picture.
LEMMA SendAcceptedStep ==
  ASSUME EncoderInv, SendAccepted
  PROVE  EncoderInv'
<1> USE DEF EncoderInv, SendAccepted
<1>1. /\ cn_frame \in Bufs /\ cn_frame # None /\ Job \in Jobs /\ Job # Eos
      /\ Job.n = nframes /\ Job.buf = cn_frame /\ nframes \in 1 .. MaxFrames
      /\ platform = "MLU370" => cnframe_queue_ = <<>> /\ LastPicture = nframes - 1
  BY JobFacts
<1>2. /\ work \in Seq(Jobs \cup {Eos}) /\ Job \in Jobs \cup {Eos} /\ ~eos_sent_
      /\ \A i \in DOMAIN work : work[i] # Eos
  BY <1>1 DEF TypeOK, EosOnce, Ready
<1>3. /\ work' \in Seq(Jobs \cup {Eos}) /\ DOMAIN work' = DOMAIN work \cup {Len(work')}
      /\ work'[Len(work')] = Job /\ \A i \in DOMAIN work : work'[i] = work[i]
  BY <1>2, AppendWork
<1>4. Counted'
  BY <1>1 DEF Counted, Pending, TypeOK
<1>5. TypeOK'
  <2>1. frame_count_' \in 0 .. 2 * MaxFrames
    BY <1>1, <1>4, EncoderFacts DEF Counted, Pending, TypeOK
  <2> QED
    BY <1>3, <2>1 DEF TypeOK
<1>6. EosOnce'
  BY <1>1, <1>2, <1>3 DEF EosOnce, EosReported
<1>7. InHand' /\ ScratchCovers' /\ DestroyDrains'
  BY DEF InHand, ScratchCovers, DestroyDrains
<1>8. BufsIn(work') = BufsIn(work) \cup {cn_frame} /\ cnframe_queue_' = cnframe_queue_
  BY <1>1, <1>2, BufsAppend
<1>9. LeftOver' /\ Apart'
  <2>1. LeftOver'
    BY <1>1 DEF LeftOver
  <2>2. ASSUME platform = "MLU370" PROVE InOnce(work')
    <3>1. InOnce(work) /\ \A i \in DOMAIN work : work[i].buf # Job.buf
      BY <1>1, <2>2 DEF Apart, BufsIn
    <3> QED
      BY <1>2, <3>1, BufsAppend
  <2>3. ASSUME platform = "MLU370"
        PROVE  /\ avail \cap BufsIn(work') = {} /\ avail \cap BufsIn(cnframe_queue_) = {}
               /\ BufsIn(work') \cap BufsIn(cnframe_queue_) = {} /\ None \notin avail \cup BufsIn(work')
    <3>1. BufsIn(cnframe_queue_) = {}
      BY <1>1, <2>3 DEF BufsIn
    <3>2. None \notin BufsIn(work') /\ None \notin avail
      BY EncoderFacts DEF BufsIn, TypeOK
    <3> QED
      BY <1>8, <2>3, <3>1, <3>2 DEF Apart
  <2> QED
    BY <2>1, <2>2, <2>3 DEF Apart
<1>10. AllThere'
  <2>1. InUse' = InUse
    BY <1>1, <1>8 DEF InUse
  <2> QED
    BY <2>1, AllThereFrame
<1>11. Flowing'
  <2> SUFFICES ASSUME platform = "MLU370"
               PROVE  Emitted(LastPicture)' /\ Follows(work, LastPicture)'
    BY DEF Flowing
  <2>1. /\ LastPicture = nframes - 1 /\ LastPicture' = nframes /\ LastPicture' = LastPicture + 1
        /\ LastPicture \in Int /\ nframes \in Nat
    BY <1>1 DEF LastPicture
  <2>2. out \in Seq(Bits) /\ packets \in Seq(Bits) /\ head_pkg_ \in Bits \cup {NoBits}
        /\ Emitted(LastPicture) /\ Follows(work, LastPicture)
    BY DEF TypeOK, Flowing
  <2>3. Follows(work', nframes)
    BY <1>1, <1>2, <2>1, <2>2, JoinJob
  <2>4. /\ \A i \in DOMAIN out : out[i].n \in Nat
        /\ \A i \in DOMAIN packets : packets[i].n \in Nat
        /\ KeptBack => head_pkg_.n \in Nat
    BY <2>2, BitsFacts DEF KeptBack
  <2>5. Emitted(nframes)
    BY <2>1, <2>2, <2>4 DEF Emitted
  <2> HIDE DEF LastPicture
  <2> QED
    BY <2>1, <2>3, <2>5 DEF Emitted, Follows, Sorted, Rank, KeptBack
<1> QED
  BY <1>4, <1>5, <1>6, <1>7, <1>9, <1>10, <1>11

\* The bound on the pictures may grow.
LEMMA GrowLast ==
  ASSUME out \in Seq(Bits), packets \in Seq(Bits), head_pkg_ \in Bits \cup {NoBits},
         NEW w \in Seq(Jobs \cup {Eos}), NEW last \in Int, NEW more \in Int, last <= more,
         Emitted(last), Follows(w, last)
  PROVE  Emitted(more) /\ Follows(w, more)
<1>1. /\ \A i \in DOMAIN out : out[i].n \in Nat
      /\ \A i \in DOMAIN packets : packets[i].n \in Nat
      /\ KeptBack => head_pkg_.n \in Nat
      /\ \A i \in DOMAIN w : w[i].n \in Nat
  BY BitsFacts, EntryFacts DEF KeptBack
<1>2. Emitted(more)
  BY <1>1 DEF Emitted
<1>3. \A i \in DOMAIN w : w[i].n <= more
  BY <1>1 DEF Follows
<1> QED
  BY <1>2, <1>3 DEF Follows

\* The end of the stream, sent by the application or by Destroy.
LEMMA SendEosStep ==
  ASSUME EncoderInv, apc = "open", ~eos_sent_, apc' \in {"open", "waiteos"},
         NEW refused, NEW ok \in BOOLEAN, SendEos(refused, ok),
         UNCHANGED <<platform, params, pic, cn_frame, nframes, created_, scratch,
                     header, avail, cpc, out, seen, crashed, ended>>
  PROVE  EncoderInv'
<1> DEFINE F == Flushed(refused)
           w == work \o F
           E == IF ok THEN <<Eos>> ELSE <<>>
<1> USE DEF EncoderInv
<1>1. /\ eos_sent_' = TRUE /\ eos_promise_' = "unset" /\ cnframe_queue_' = <<>>
      /\ work' = w \o E /\ frame_count_' = frame_count_ + Len(F)
      /\ gaveup' = (gaveup \/ ~ok)
  BY DEF SendEos
<1>2. /\ F \in Seq(Jobs) /\ Len(F) \in Nat /\ Len(F) <= Len(cnframe_queue_)
      /\ \A i \in DOMAIN F : \E k \in DOMAIN cnframe_queue_ : F[i] = cnframe_queue_[k]
  BY FlushedList
<1> HIDE DEF F
<1>3. /\ work \in Seq(Jobs \cup {Eos}) /\ \A i \in DOMAIN work : work[i] # Eos
      /\ ~EosReported /\ cn_frame = None
      /\ cnframe_queue_ \in Seq(Jobs) /\ Len(cnframe_queue_) \in Nat
      /\ nframes \in Nat /\ nframes <= MaxFrames /\ frame_count_ \in Nat
  BY DEF EosOnce, TypeOK, InHand
<1>4. w \in Seq(Jobs \cup {Eos}) /\ \A i \in DOMAIN w : w[i] # Eos
  <2>1. F \in Seq(Jobs \cup {Eos})
    BY <1>2
  <2>2. /\ w \in Seq(Jobs \cup {Eos}) /\ DOMAIN work = 1 .. Len(work) /\ Len(work) \in Nat
        /\ DOMAIN w = 1 .. (Len(work) + Len(F)) /\ DOMAIN F = 1 .. Len(F)
        /\ \A i \in DOMAIN w : w[i] = IF i <= Len(work) THEN work[i] ELSE F[i - Len(work)]
    BY <1>2, <1>3, <2>1
  <2>3. \A i \in DOMAIN F : F[i] # Eos
    <3>1. \A i \in DOMAIN F : F[i] \in Jobs
      BY <1>2
    <3>2. Eos \notin Jobs
      BY EntryFacts
    <3> QED
      BY <3>1, <3>2
  <2>4. ASSUME NEW i \in DOMAIN w PROVE w[i] # Eos
    <3>1. i \in Nat /\ i >= 1 /\ i <= Len(work) + Len(F)
      BY <1>2, <2>2
    <3>2. CASE i <= Len(work)
      <4>1. i \in DOMAIN work /\ w[i] = work[i]
        BY <2>2, <3>1, <3>2
      <4> QED
        BY <1>3, <4>1
    <3>3. CASE ~(i <= Len(work))
      <4>1. i - Len(work) \in DOMAIN F /\ w[i] = F[i - Len(work)]
        BY <1>2, <2>2, <3>1, <3>3
      <4> QED
        BY <2>3, <4>1
    <3> QED
      BY <3>2, <3>3
  <2> QED
    BY <2>2, <2>4
<1> HIDE DEF w
<1>5. work' = (IF ok THEN Append(w, Eos) ELSE w)
  <2>1. Append(w, Eos) = w \o <<Eos>>
    <3>1. Eos \in Jobs \cup {Eos}
      OBVIOUS
    <3> QED
      BY <1>4, <3>1, AppendIsConcat
  <2>2. w \o <<>> = w
    BY <1>4, ConcatEmptySeq
  <2> QED
    BY <1>1, <2>1, <2>2
<1>6. /\ work' \in Seq(Jobs \cup {Eos})
      /\ \A i \in DOMAIN work' : work'[i] = Eos => i = Len(work')
  <2>1. CASE ok
    <3>1. Eos \in Jobs \cup {Eos} /\ work' = Append(w, Eos)
      BY <1>5, <2>1
    <3>2. /\ work' \in Seq(Jobs \cup {Eos}) /\ DOMAIN work' = DOMAIN w \cup {Len(work')}
          /\ \A i \in DOMAIN w : work'[i] = w[i]
      BY <1>4, <3>1, AppendWork
    <3> QED
      BY <1>4, <3>2
  <2>2. CASE ~ok
    BY <1>4, <1>5, <2>2
  <2> QED
    BY <2>1, <2>2
<1>7. Counted'
  <2>1. Pending' = 0 /\ Pending = 0 /\ Len(cnframe_queue_') = 0
    BY <1>1 DEF Pending
  <2> QED
    BY <1>1, <1>2, <1>3, <2>1 DEF Counted
<1>8. TypeOK'
  <2>1. frame_count_' \in 0 .. 2 * MaxFrames
    <3>1. frame_count_' <= 2 * nframes
      BY <1>1, <1>2, <1>3, <1>7 DEF Counted, Pending
    <3> QED
      BY <1>1, <1>2, <1>3, <3>1, EncoderFacts
  <2>2. cnframe_queue_' \in Seq(Jobs) /\ Len(cnframe_queue_') <= 2 * MaxFrames
    BY <1>1, EncoderFacts
  <2>3. gaveup' \in BOOLEAN /\ eos_sent_' \in BOOLEAN
    BY <1>1, Zenon DEF TypeOK
  <2>4. eos_promise_' \in {"null", "unset", "set"}
    BY <1>1
  <2> QED
    BY <1>6, <2>1, <2>2, <2>3, <2>4 DEF TypeOK
<1>9. EosOnce'
  <2>1. ~EosReported'
    BY <1>3 DEF EosReported
  <2>2. created_' = created_ /\ created_
    BY DEF EosOnce
  <2> QED
    BY <1>1, <1>6, <2>1, <2>2 DEF EosOnce, EosReported
<1>10. InHand' /\ ScratchCovers' /\ DestroyDrains' /\ AllThere'
  BY <1>1, <1>3 DEF InHand, ScratchCovers, DestroyDrains, AllThere
<1>11. ASSUME platform = "MLU370"
       PROVE  \/ w = work
              \/ cnframe_queue_ # <<>> /\ w = Append(work, cnframe_queue_[1])
  <2>1. Len(cnframe_queue_) <= 1
    BY <1>11 DEF LeftOver
  <2>2. CASE Len(F) = 0
    <3>1. F = <<>>
      BY <1>2, <2>2
    <3> QED
      BY <1>3, <3>1, ConcatEmptySeq DEF w
  <2>3. CASE Len(F) = 1
    <3>1. Len(cnframe_queue_) = 1 /\ DOMAIN cnframe_queue_ = {1} /\ 1 \in DOMAIN F
      BY <1>2, <1>3, <2>1, <2>3
    <3>2. F[1] = cnframe_queue_[1] /\ cnframe_queue_[1] \in Jobs \cup {Eos}
      BY <1>2, <1>3, <3>1
    <3>3. F = <<cnframe_queue_[1]>>
      BY <1>2, <2>3, <3>2
    <3>4. Append(work, cnframe_queue_[1]) = work \o <<cnframe_queue_[1]>>
      BY <1>3, <3>2, AppendIsConcat
    <3>5. cnframe_queue_ # <<>>
      BY <3>1
    <3> QED
      BY <3>3, <3>4, <3>5 DEF w
  <2>4. Len(F) = 0 \/ Len(F) = 1
    <3> DEFINE f == Len(F)
               k == Len(cnframe_queue_)
    <3>1. f \in Nat /\ k \in Nat /\ f <= k /\ k <= 1
      BY <1>2, <1>3, <2>1
    <3> HIDE DEF f, k
    <3>2. f = 0 \/ f = 1
      BY <3>1
    <3> QED
      BY <3>2 DEF f
  <2> QED
    BY <2>2, <2>3, <2>4
<1>12. LeftOver' /\ Apart'
  <2>1. LeftOver'
    BY <1>1 DEF LeftOver
  <2> SUFFICES ASSUME platform = "MLU370" PROVE Apart'
    BY <2>1 DEF Apart
  <2>2. /\ InOnce(work) /\ avail \cap BufsIn(work) = {} /\ avail \cap BufsIn(cnframe_queue_) = {}
        /\ BufsIn(work) \cap BufsIn(cnframe_queue_) = {} /\ None \notin avail
    BY EncoderFacts DEF Apart, TypeOK
  <2>3. InOnce(w) /\ BufsIn(w) \subseteq BufsIn(work) \cup BufsIn(cnframe_queue_)
    <3>1. CASE w = work
      BY <2>2, <3>1
    <3>2. CASE cnframe_queue_ # <<>> /\ w = Append(work, cnframe_queue_[1])
      <4>1. 1 \in DOMAIN cnframe_queue_ /\ cnframe_queue_[1] \in Jobs
        BY <1>3, <3>2
      <4>2. cnframe_queue_[1].buf \in Bufs /\ cnframe_queue_[1] \in Jobs \cup {Eos}
        BY <4>1 DEF Jobs
      <4>3. cnframe_queue_[1].buf \in BufsIn(cnframe_queue_)
        BY <4>1, <4>2, EncoderFacts DEF BufsIn
      <4>4. cnframe_queue_[1].buf \notin BufsIn(work) /\ cnframe_queue_[1].buf # None
        BY <2>2, <4>2, <4>3, EncoderFacts
      <4>5. \A i \in DOMAIN work : work[i].buf # cnframe_queue_[1].buf
        BY <4>4 DEF BufsIn
      <4>6. InOnce(w) /\ BufsIn(w) = BufsIn(work) \cup ({cnframe_queue_[1].buf} \ {None})
        BY <1>3, <2>2, <3>2, <4>2, <4>5, BufsAppend
      <4> QED
        BY <4>3, <4>6
    <3> QED
      BY <1>11, <3>1, <3>2
  <2>4. InOnce(work') /\ BufsIn(work') = BufsIn(w)
    <3>1. Eos \in Jobs \cup {Eos} /\ Eos.buf = None
      BY DEF Eos
    <3>2. \A i \in DOMAIN w : w[i].buf # None
      <4>1. \A i \in DOMAIN w : w[i] \in Jobs \cup {Eos}
        BY <1>4
      <4> QED
        BY <1>4, <4>1, EntryFacts, EncoderFacts
    <3>3. InOnce(Append(w, Eos)) /\ BufsIn(Append(w, Eos)) = BufsIn(w) \cup ({Eos.buf} \ {None})
      BY <1>4, <2>3, <3>1, <3>2, BufsAppend
    <3> QED
      BY <1>5, <2>3, <3>1, <3>3
  <2>5. BufsIn(<<>>) = {} /\ None \notin BufsIn(work')
    BY DEF BufsIn
  <2> QED
    BY <1>1, <1>3, <2>2, <2>3, <2>4, <2>5 DEF Apart
<1>13. Flowing'
  <2> SUFFICES ASSUME platform = "MLU370"
               PROVE  Emitted(LastPicture)' /\ Follows(work, LastPicture)'
    BY DEF Flowing
  <2>1. /\ LastPicture' = nframes /\ LastPicture \in Int /\ LastPicture <= nframes
        /\ cnframe_queue_ # <<>> => LastPicture = nframes - 1
    BY <1>1, <1>3 DEF LastPicture
  <2>2. out \in Seq(Bits) /\ packets \in Seq(Bits) /\ head_pkg_ \in Bits \cup {NoBits}
        /\ Emitted(LastPicture) /\ Follows(work, LastPicture)
    BY DEF TypeOK, Flowing
  <2> HIDE DEF LastPicture
  <2>3. Emitted(nframes) /\ Follows(work, nframes)
    <3>1. nframes \in Int /\ work \in Seq(Jobs \cup {Eos})
      BY <1>3
    <3> QED
      BY <2>1, <2>2, <3>1, GrowLast
  <2>4. Follows(w, nframes)
    <3>1. CASE w = work
      BY <2>3, <3>1
    <3>2. CASE cnframe_queue_ # <<>> /\ w = Append(work, cnframe_queue_[1])
      <4>1. cnframe_queue_[1] \in Jobs /\ cnframe_queue_[1].n = nframes
        BY <1>3, <3>2 DEF LeftOver
      <4>2. cnframe_queue_[1].n = LastPicture + 1 /\ LastPicture + 1 = nframes
        BY <1>3, <2>1, <3>2, <4>1
      <4> QED
        BY <1>3, <2>1, <2>2, <3>2, <4>1, <4>2, JoinJob
    <3> QED
      BY <1>11, <3>1, <3>2
  <2>5. Follows(work', nframes)
    BY <1>3, <1>4, <1>5, <2>4, JoinEos
  <2> QED
    BY <2>1, <2>3, <2>5 DEF Emitted, Follows, Sorted, Rank, KeptBack
<1> QED
  BY <1>7, <1>8, <1>9, <1>10, <1>12, <1>13

LEMMA DestroyStep ==
  ASSUME EncoderInv,
         \/ \E refused \in SUBSET DOMAIN cnframe_queue_, ok \in BOOLEAN :
              SendEosFrame(refused, ok) \/ DestroyBegin(refused, ok)
         \/ DestroyJoin
  PROVE  EncoderInv'
<1>1. ASSUME NEW refused \in SUBSET DOMAIN cnframe_queue_, NEW ok \in BOOLEAN,
             SendEosFrame(refused, ok) \/ DestroyBegin(refused, ok)
      PROVE  EncoderInv'
  <2>1. CASE SendEosFrame(refused, ok)
    BY <2>1, SendEosStep DEF SendEosFrame
  <2>2. CASE DestroyBegin(refused, ok) /\ ~eos_sent_
    BY <2>2, SendEosStep DEF DestroyBegin
  <2>3. CASE DestroyBegin(refused, ok) /\ eos_sent_
    <3> USE <2>3 DEF DestroyBegin, EncoderInv
    <3>1. TypeOK' /\ ScratchCovers' /\ DestroyDrains' /\ LeftOver' /\ InHand'
      BY DEF TypeOK, ScratchCovers, DestroyDrains, LeftOver, InHand
    <3>2. Counted' /\ EosOnce'
      BY DEF Counted, Pending, EosOnce, EosReported
    <3>3. Apart' /\ AllThere'
      BY ApartFrame DEF AllThere
    <3>4. LastPicture' = LastPicture /\ LastPicture \in Int
      BY LastInt DEF LastPicture
    <3>5. Flowing'
      BY <3>1, <3>4, FlowFrame
    <3> QED
      BY <3>1, <3>2, <3>3, <3>5
  <2> QED
    BY <1>1, <2>1, <2>2, <2>3
<1>2. CASE DestroyJoin
  <2> USE <1>2 DEF DestroyJoin, EncoderInv
  <2>1. work' = <<>> /\ avail' = {} /\ created_' = FALSE /\ <<>> \in Seq(Jobs \cup {Eos})
    OBVIOUS
  <2>2. ended' = "drained"
    BY DEF EosOnce, EosReported
  <2>3. TypeOK'
    <3>1. usedfreed \in BOOLEAN /\ overrun \in BOOLEAN /\ nomemory \in BOOLEAN
      BY DEF TypeOK
    <3>2. usedfreed' \in BOOLEAN /\ overrun' \in BOOLEAN /\ nomemory' \in BOOLEAN
      BY <3>1, Zenon
    <3> QED
      BY <2>1, <2>2, <3>2 DEF TypeOK
  <2>4. ScratchCovers' /\ DestroyDrains' /\ LeftOver' /\ InHand' /\ Counted' /\ AllThere'
    BY <2>2 DEF ScratchCovers, DestroyDrains, LeftOver, InHand, Counted, Pending, AllThere
  <2>5. EosOnce'
    BY DEF EosOnce, EosReported
  <2>6. Apart'
    BY <2>1, EncoderFacts DEF Apart, InOnce, BufsIn
  <2>7. LastPicture' = LastPicture
    BY DEF LastPicture
  <2>8. Flowing'
    BY <2>1, <2>7 DEF Flowing, Emitted, Follows, Sorted, Rank, KeptBack
  <2> QED
    BY <2>3, <2>4, <2>5, <2>6, <2>8
<1> QED
  BY <1>1, <1>2

-----------------------------------------------------------------------------
(* The library's thread *)

LEMMA TailFollows ==
  ASSUME NEW w \in Seq(Jobs \cup {Eos}), w # <<>>, NEW last, Follows(w, last)
  PROVE  /\ Follows(Tail(w), last)
         /\ \A j \in DOMAIN Tail(w) : Tail(w)[j] # Eos => Head(w).n < Tail(w)[j].n
<1> DEFINE v == Tail(w)
<1>1. /\ Head(w) = w[1] /\ 1 \in DOMAIN w
      /\ \A i \in DOMAIN v : i \in Nat /\ i >= 1 /\ i + 1 \in DOMAIN w /\ v[i] = w[i + 1]
  BY TailWork
<1> HIDE DEF v
<1>2. ASSUME NEW i \in DOMAIN v, NEW j \in DOMAIN v, i < j, v[j] # Eos PROVE v[i].n < v[j].n
  <2>1. i + 1 \in DOMAIN w /\ j + 1 \in DOMAIN w /\ i + 1 < j + 1 /\ v[i] = w[i + 1] /\ v[j] = w[j + 1]
    BY <1>1, <1>2
  <2> QED
    BY <1>2, <2>1 DEF Follows
<1>3. ASSUME NEW j \in DOMAIN v, v[j] # Eos PROVE w[1].n < v[j].n
  <2>1. j + 1 \in DOMAIN w /\ 1 < j + 1 /\ v[j] = w[j + 1]
    BY <1>1, <1>3
  <2> QED
    BY <1>1, <1>3, <2>1 DEF Follows
<1>4. \A i \in DOMAIN v : v[i].n <= last
  BY <1>1 DEF Follows
<1>5. \A j \in DOMAIN v : v[j] # Eos =>
        /\ \A i \in DOMAIN out : out[i].n < v[j].n
        /\ \A i \in DOMAIN packets : packets[i].n < v[j].n
        /\ KeptBack => head_pkg_.n < v[j].n
  BY <1>1 DEF Follows
<1> QED
  BY <1>1, <1>2, <1>3, <1>4, <1>5 DEF Follows, v

\* One picture becomes one packet, or two.
LEMMA NewPackets ==
  ASSUME NEW n \in 1 .. MaxFrames, NEW o,
         \/ o = <<[kind |-> "head", n |-> n]>> \o <<[kind |-> "frame", n |-> n]>>
         \/ o = <<>> \o <<[kind |-> "frame", n |-> n]>>
  PROVE  o \in Seq(Bits) /\ Sorted(o) /\ \A i \in DOMAIN o : o[i].n = n
<1> DEFINE h == [kind |-> "head", n |-> n]
           f == [kind |-> "frame", n |-> n]
<1>1. h \in Bits /\ f \in Bits /\ h.n = n /\ f.n = n /\ h.kind = "head" /\ f.kind = "frame"
  BY DEF Bits
<1>2. Rank(h) < Rank(f)
  BY <1>1, BitsFacts
<1> HIDE DEF h, f
<1>3. CASE o = <<h>> \o <<f>>
  <2>1. o = Append(<<h>>, f)
    <3>1. <<h>> \in Seq(Bits)
      BY <1>1
    <3>2. Append(<<h>>, f) = <<h>> \o <<f>>
      BY <1>1, <3>1, AppendIsConcat
    <3> QED
      BY <1>3, <3>2
  <2>2. o \in Seq(Bits) /\ DOMAIN o = {1, 2} /\ o[1] = h /\ o[2] = f
    BY <1>1, <2>1
  <2>3. Sorted(o)
    <3> SUFFICES ASSUME NEW i \in {1, 2}, NEW j \in {1, 2}, i < j PROVE Rank(o[i]) < Rank(o[j])
      BY <2>2 DEF Sorted
    <3>1. i = 1 /\ j = 2
      OBVIOUS
    <3> QED
      BY <1>2, <2>2, <3>1
  <2> QED
    BY <1>1, <2>2, <2>3
<1>4. CASE o = <<>> \o <<f>>
  <2>1. o = <<f>>
    <3>1. <<f>> \in Seq(Bits)
      BY <1>1
    <3>2. <<>> \o <<f>> = <<f>>
      BY <3>1, ConcatEmptySeq
    <3> QED
      BY <1>4, <3>2
  <2>2. o \in Seq(Bits) /\ DOMAIN o = {1} /\ o[1] = f
    BY <1>1, <2>1
  <2>3. Sorted(o)
    BY <2>2 DEF Sorted
  <2> QED
    BY <1>1, <2>2, <2>3
<1> QED
  BY <1>3, <1>4 DEF h, f

\* The end of the stream stays behind what is taken from the work before it.
LEMMA EosBehind ==
  ASSUME TypeOK, EosOnce, work # <<>>, Head(work) # Eos, work' = Tail(work),
         UNCHANGED <<apc, created_, eos_sent_, eos_promise_, cpc, eoscalls, cnframe_queue_>>
  PROVE  EosOnce'
<1>1. \A i \in DOMAIN work' : /\ i + 1 \in DOMAIN work /\ work'[i] = work[i + 1]
                              /\ i + 1 = Len(work) => i = Len(work')
  BY TailWork DEF TypeOK
<1>2. ~EosReported /\ ~EosReported' /\ apc \notin {"start", "refused", "closed"}
  BY DEF EosOnce, EosReported
<1>3. \A i \in DOMAIN work' : work'[i] = Eos => i = Len(work') /\ eos_promise_ = "unset"
  BY <1>1 DEF EosOnce
<1>4. ~eos_sent_ => \A i \in DOMAIN work' : work'[i] # Eos
  BY <1>1 DEF EosOnce
<1> QED
  BY <1>2, <1>3, <1>4 DEF EosOnce, EosReported

LEMMA EncodeStep ==
  ASSUME EncoderInv, NEW repeat \in BOOLEAN, Encode(repeat)
  PROVE  EncoderInv'
<1> DEFINE x == Head(work)
<1> USE DEF EncoderInv, Encode
<1>1. /\ work \in Seq(Jobs \cup {Eos}) /\ work' \in Seq(Jobs \cup {Eos}) /\ x \in Jobs
      /\ x.n \in 1 .. MaxFrames /\ x.buf \in Bufs /\ x.buf # None /\ x = work[1] /\ 1 \in DOMAIN work
  <2>1. work \in Seq(Jobs \cup {Eos})
    BY DEF TypeOK
  <2>2. /\ work' \in Seq(Jobs \cup {Eos}) /\ x \in Jobs \cup {Eos} /\ x # Eos
        /\ x = work[1] /\ 1 \in DOMAIN work
    BY <2>1, TailWork
  <2> QED
    BY <2>1, <2>2, EntryFacts, EncoderFacts
<1>2. out' \in Seq(Bits) /\ Sorted(out') /\ \A i \in DOMAIN out' : out'[i].n = x.n
  <2>1. \/ out' = <<[kind |-> "head", n |-> x.n]>> \o <<[kind |-> "frame", n |-> x.n]>>
        \/ out' = <<>> \o <<[kind |-> "frame", n |-> x.n]>>
    BY Zenon
  <2> HIDE DEF x
  <2>2. PICK k \in 1 .. MaxFrames : k = x.n
    BY <1>1
  <2>3. PICK o : o = out'
    OBVIOUS
  <2>4. \/ o = <<[kind |-> "head", n |-> k]>> \o <<[kind |-> "frame", n |-> k]>>
        \/ o = <<>> \o <<[kind |-> "frame", n |-> k]>>
    BY <2>1, <2>2, <2>3, Zenon
  <2>5. o \in Seq(Bits) /\ Sorted(o) /\ \A i \in DOMAIN o : o[i].n = k
    BY <2>4, NewPackets, Zenon
  <2> QED
    BY <2>2, <2>3, <2>5, Zenon
<1>3. TypeOK'
  <2>1. avail' \in SUBSET Bufs
    BY <1>1 DEF TypeOK
  <2> QED
    BY <1>1, <1>2, <2>1 DEF TypeOK
<1>4. ScratchCovers' /\ DestroyDrains' /\ LeftOver' /\ InHand' /\ Counted'
  BY DEF ScratchCovers, DestroyDrains, LeftOver, InHand, Counted, Pending
<1>5. EosOnce'
  BY EosBehind
<1>6. /\ BufsIn(work) = BufsIn(work') \cup {x.buf} /\ avail' = avail \cup {x.buf}
      /\ InOnce(work) => InOnce(work') /\ x.buf \notin BufsIn(work')
  <2>1. /\ BufsIn(work) = BufsIn(work') \cup ({x.buf} \ {None})
        /\ InOnce(work) => InOnce(work') /\ \A i \in DOMAIN work' : work'[i].buf # x.buf
    BY <1>1, BufsTail
  <2>2. (\A i \in DOMAIN work' : work'[i].buf # x.buf) => x.buf \notin BufsIn(work')
    BY DEF BufsIn
  <2> QED
    BY <1>1, <2>1, <2>2
<1>7. Apart'
  BY <1>6 DEF Apart
<1>8. AllThere'
  <2>1. InUse' = InUse
    BY <1>6 DEF InUse
  <2> QED
    BY <2>1, AllThereFrame
<1>9. Flowing'
  <2> SUFFICES ASSUME platform = "MLU370"
               PROVE  Emitted(LastPicture)' /\ Follows(work, LastPicture)'
    BY DEF Flowing
  <2>1. LastPicture' = LastPicture /\ LastPicture \in Int
    BY LastInt DEF LastPicture
  <2> HIDE DEF LastPicture
  <2>2. packets \in Seq(Bits) /\ head_pkg_ \in Bits \cup {NoBits}
        /\ Emitted(LastPicture) /\ Follows(work, LastPicture)
    BY DEF TypeOK, Flowing
  <2>3. /\ Follows(work', LastPicture)
        /\ \A j \in DOMAIN work' : work'[j] # Eos => x.n < work'[j].n
    BY <1>1, <2>2, TailFollows
  <2>4. /\ x.n <= LastPicture
        /\ \A i \in DOMAIN packets : packets[i].n < x.n
        /\ KeptBack => head_pkg_.n < x.n
    BY <1>1, <2>2 DEF Follows
  <2>5. \A i \in DOMAIN out' : Rank(out'[i]) \in Nat /\ Rank(out'[i]) >= 2 * x.n
    <3> SUFFICES ASSUME NEW i \in DOMAIN out' PROVE Rank(out'[i]) \in Nat /\ Rank(out'[i]) >= 2 * x.n
      OBVIOUS
    <3>1. out'[i] \in Bits /\ out'[i].n = x.n
      BY <1>2
    <3> QED
      BY <1>1, <3>1, BitsFacts
  <2>6. \A b \in Bits : b.n < x.n => Rank(b) \in Nat /\ Rank(b) < 2 * x.n
    <3> SUFFICES ASSUME NEW b \in Bits, b.n < x.n PROVE Rank(b) \in Nat /\ Rank(b) < 2 * x.n
      OBVIOUS
    <3> QED
      BY <1>1, BitsFacts
  <2>7. ASSUME NEW b \in Bits, b.n < x.n, NEW i \in DOMAIN out' PROVE Rank(b) < Rank(out'[i])
    <3>1. /\ Rank(b) \in Nat /\ Rank(b) < 2 * x.n
          /\ Rank(out'[i]) \in Nat /\ Rank(out'[i]) >= 2 * x.n
      BY <2>5, <2>6, <2>7
    <3> QED
      BY <1>1, <3>1
  <2>8. \A i \in DOMAIN packets, j \in DOMAIN out' : Rank(packets[i]) < Rank(out'[j])
    BY <2>2, <2>4, <2>7
  <2>9. KeptBack => \A i \in DOMAIN out' : Rank(head_pkg_) < Rank(out'[i])
    BY <2>2, <2>4, <2>7 DEF KeptBack
  <2>10. \A i \in DOMAIN out' : out'[i].n <= LastPicture
    BY <1>2, <2>4
  <2>11. \A i \in DOMAIN out', j \in DOMAIN work' : work'[j] # Eos => out'[i].n < work'[j].n
    BY <1>2, <2>3
  <2>12. Emitted(LastPicture)'
    BY <1>2, <2>1, <2>2, <2>8, <2>9, <2>10 DEF Emitted, Sorted, KeptBack, Rank
  <2>13. Follows(work, LastPicture)'
    BY <2>1, <2>3, <2>11 DEF Follows, KeptBack
  <2> QED
    BY <2>12, <2>13
<1> QED
  BY <1>3, <1>4, <1>5, <1>7, <1>8, <1>9

\* The first packet comes before those behind it, and after those handed out.
LEMMA FirstPacket ==
  ASSUME out \in Seq(Bits), out # <<>>, packets \in Seq(Bits), NEW last, Emitted(last),
         NEW w, Follows(w, last)
  PROVE  LET b == Head(out)
         IN  /\ b \in Bits /\ b.n <= last /\ Tail(out) \in Seq(Bits)
             /\ Sorted(Tail(out))
             /\ \A i \in DOMAIN Tail(out) :
                  Rank(b) < Rank(Tail(out)[i]) /\ \E k \in DOMAIN out : Tail(out)[i] = out[k]
             /\ \A i \in DOMAIN packets : Rank(packets[i]) < Rank(b)
             /\ KeptBack => Rank(head_pkg_) < Rank(b)
             /\ \A j \in DOMAIN w : w[j] # Eos => b.n < w[j].n
<1> DEFINE v == Tail(out)
           b == Head(out)
<1>1. /\ b = out[1] /\ 1 \in DOMAIN out /\ b \in Bits /\ v \in Seq(Bits)
      /\ \A i \in DOMAIN v : i \in Nat /\ i >= 1 /\ i + 1 \in DOMAIN out /\ v[i] = out[i + 1]
  BY TailWork
<1> HIDE DEF v, b
<1>2. ASSUME NEW i \in DOMAIN v, NEW j \in DOMAIN v, i < j PROVE Rank(v[i]) < Rank(v[j])
  <2>1. i + 1 \in DOMAIN out /\ j + 1 \in DOMAIN out /\ i + 1 < j + 1 /\ v[i] = out[i + 1] /\ v[j] = out[j + 1]
    BY <1>1, <1>2
  <2> QED
    BY <2>1 DEF Emitted, Sorted
<1>3. ASSUME NEW i \in DOMAIN v PROVE Rank(b) < Rank(v[i])
  <2>1. i + 1 \in DOMAIN out /\ 1 < i + 1 /\ v[i] = out[i + 1]
    BY <1>1
  <2> QED
    BY <1>1, <2>1 DEF Emitted, Sorted
<1>4. \A i \in DOMAIN v : \E k \in DOMAIN out : v[i] = out[k]
  BY <1>1
<1>5. b.n <= last /\ \A j \in DOMAIN w : w[j] # Eos => b.n < w[j].n
  BY <1>1 DEF Emitted, Follows
<1>6. (\A i \in DOMAIN packets : Rank(packets[i]) < Rank(b)) /\ (KeptBack => Rank(head_pkg_) < Rank(b))
  BY <1>1 DEF Emitted
<1> QED
  BY <1>1, <1>2, <1>3, <1>4, <1>5, <1>6 DEF Sorted, v, b

\* A list of packets grows by one that comes later.
LEMMA SortedAppend ==
  ASSUME NEW s \in Seq(Bits), NEW b \in Bits, Sorted(s), \A i \in DOMAIN s : Rank(s[i]) < Rank(b)
  PROVE  /\ Append(s, b) \in Seq(Bits) /\ Sorted(Append(s, b))
         /\ \A i \in DOMAIN Append(s, b) : Append(s, b)[i] = b \/ \E k \in DOMAIN s : Append(s, b)[i] = s[k]
<1> DEFINE v == Append(s, b)
           L == Len(v)
<1>1. /\ v \in Seq(Bits) /\ DOMAIN v = DOMAIN s \cup {L} /\ v[L] = b /\ L \in Nat
      /\ \A i \in DOMAIN s : v[i] = s[i] /\ i \in Nat /\ i < L
  BY AppendWork
<1> HIDE DEF v, L
<1>2. ASSUME NEW i \in DOMAIN v, NEW j \in DOMAIN v, i < j PROVE Rank(v[i]) < Rank(v[j])
  <2>1. i # L
    BY <1>1, <1>2
  <2>2. i \in DOMAIN s /\ v[i] = s[i]
    BY <1>1, <2>1
  <2>3. CASE j = L
    BY <1>1, <2>2, <2>3
  <2>4. CASE j # L
    <3>1. j \in DOMAIN s /\ v[j] = s[j]
      BY <1>1, <2>4
    <3> QED
      BY <1>2, <2>2, <3>1 DEF Sorted
  <2> QED
    BY <2>3, <2>4
<1> QED
  BY <1>1, <1>2 DEF Sorted, v

\* What OnFrameBits hands out on MLU370.
LEMMA HandedOut ==
  ASSUME packets \in Seq(Bits), head_pkg_ \in Bits \cup {NoBits}, NEW last \in Int, Emitted(last),
         NEW b \in Bits, b.n <= last,
         \A i \in DOMAIN packets : Rank(packets[i]) < Rank(b),
         KeptBack => Rank(head_pkg_) < Rank(b)
  PROVE  LET p == packets \o Packages(b)
         IN  /\ p \in Seq(Bits) /\ Sorted(p)
             /\ \A i \in DOMAIN p : \/ p[i] = b \/ (KeptBack /\ p[i] = head_pkg_)
                                    \/ \E k \in DOMAIN packets : p[i] = packets[k]
<1> DEFINE p == packets \o Packages(b)
<1>1. Sorted(packets)
  BY DEF Emitted
<1>2. CASE KeptBack
  <2>1. packets = <<>> /\ head_pkg_ \in Bits /\ Packages(b) = <<head_pkg_, b>>
    BY <1>2 DEF Emitted, KeptBack, Packages
  <2>2. <<head_pkg_, b>> \in Seq(Bits) /\ <<>> \in Seq(Bits)
    BY <2>1
  <2>3. p = <<head_pkg_, b>>
    BY <2>1, <2>2, ConcatEmptySeq
  <2>4. DOMAIN p = {1, 2} /\ p[1] = head_pkg_ /\ p[2] = b
    BY <2>3
  <2>5. Sorted(p)
    <3> SUFFICES ASSUME NEW i \in {1, 2}, NEW j \in {1, 2}, i < j PROVE Rank(p[i]) < Rank(p[j])
      BY <2>4 DEF Sorted
    <3>1. i = 1 /\ j = 2
      OBVIOUS
    <3> QED
      BY <1>2, <2>4, <3>1
  <2> QED
    BY <1>2, <2>2, <2>3, <2>4, <2>5
<1>3. CASE ~KeptBack
  <2>1. Packages(b) = <<b>>
    BY <1>3 DEF KeptBack, Packages
  <2>2. p = Append(packets, b)
    BY <2>1, AppendIsConcat
  <2> HIDE DEF p
  <2>3. p \in Seq(Bits) /\ Sorted(p) /\ \A i \in DOMAIN p : p[i] = b \/ \E k \in DOMAIN packets : p[i] = packets[k]
    BY <1>1, <2>2, SortedAppend
  <2> QED
    BY <2>3 DEF p
<1> QED
  BY <1>2, <1>3

LEMMA PacketStep ==
  ASSUME EncoderInv, OnFrameBits \/ OnFrameBitsFails
  PROVE  EncoderInv'
<1> DEFINE b == Head(out)
<1> USE DEF EncoderInv
<1>1. /\ out # <<>> /\ out' = Tail(out) /\ out \in Seq(Bits) /\ packets \in Seq(Bits)
      /\ head_pkg_ \in Bits \cup {NoBits} /\ first_frame_ \in BOOLEAN
      /\ UNCHANGED <<platform, params, app, flags, cnframe_queue_, frame_count_,
                     scratch, avail, work, cpc, eoscalls, ends>>
  BY DEF OnFrameBits, OnFrameBitsFails, TypeOK
<1>2. b \in Bits /\ out' \in Seq(Bits)
  BY <1>1, TailWork
<1>3. \/ UNCHANGED <<packets, head_pkg_, first_frame_>>
      \/ platform = "MLU590" /\ packets' = Append(packets, b) /\ UNCHANGED <<head_pkg_, first_frame_>>
      \/ /\ platform = "MLU370" /\ first_frame_ /\ b.kind = "head" /\ head_pkg_' = b
         /\ UNCHANGED <<packets, first_frame_>>
      \/ /\ platform = "MLU370" /\ packets' = packets \o Packages(b)
         /\ first_frame_' = FALSE /\ UNCHANGED head_pkg_
  BY DEF OnFrameBits, OnFrameBitsFails, OnFrameBits370, OnFrameBits590
<1>4. LastPicture' = LastPicture /\ LastPicture \in Int
  BY <1>1, LastInt DEF LastPicture
<1>5. ASSUME platform = "MLU370"
      PROVE  packets' \in Seq(Bits) /\ Emitted(LastPicture)' /\ Follows(work, LastPicture)'
  <2>1. Emitted(LastPicture) /\ Follows(work, LastPicture)
    BY <1>5 DEF Flowing
  <2> HIDE DEF LastPicture, b
  <2>2. /\ b.n <= LastPicture /\ Sorted(out')
        /\ \A i \in DOMAIN out' : Rank(b) < Rank(out'[i]) /\ \E k \in DOMAIN out : out'[i] = out[k]
        /\ \A i \in DOMAIN packets : Rank(packets[i]) < Rank(b)
        /\ KeptBack => Rank(head_pkg_) < Rank(b)
        /\ \A j \in DOMAIN work : work[j] # Eos => b.n < work[j].n
    BY <1>1, <2>1, FirstPacket DEF b
  <2>3. \A i \in DOMAIN out' : out'[i].n <= LastPicture
    BY <2>1, <2>2 DEF Emitted
  <2>4. \A i \in DOMAIN out', j \in DOMAIN work : work[j] # Eos => out'[i].n < work[j].n
    BY <2>1, <2>2 DEF Follows
  <2>5. /\ \A i \in DOMAIN packets, j \in DOMAIN out' : Rank(packets[i]) < Rank(out'[j])
        /\ KeptBack => \A j \in DOMAIN out' : Rank(head_pkg_) < Rank(out'[j])
    BY <2>1, <2>2 DEF Emitted
  <2>6. CASE UNCHANGED <<packets, head_pkg_, first_frame_>>
    BY <1>1, <1>4, <2>1, <2>2, <2>3, <2>4, <2>5, <2>6 DEF Emitted, Follows, KeptBack, Sorted, Rank
  <2>7. CASE first_frame_ /\ b.kind = "head" /\ head_pkg_' = b /\ UNCHANGED <<packets, first_frame_>>
    <3>1. Emitted(LastPicture)'
      BY <1>1, <1>4, <2>1, <2>2, <2>3, <2>5, <2>7 DEF Emitted, KeptBack, Sorted, Rank
    <3>2. Follows(work, LastPicture)'
      BY <1>1, <1>4, <2>1, <2>2, <2>4, <2>7 DEF Follows, KeptBack
    <3> QED
      BY <1>1, <2>7, <3>1, <3>2
  <2>8. CASE packets' = packets \o Packages(b) /\ first_frame_' = FALSE /\ UNCHANGED head_pkg_
    <3>1. /\ packets' \in Seq(Bits) /\ Sorted(packets')
          /\ \A i \in DOMAIN packets' : \/ packets'[i] = b \/ (KeptBack /\ packets'[i] = head_pkg_)
                                        \/ \E k \in DOMAIN packets : packets'[i] = packets[k]
      BY <1>1, <1>2, <1>4, <2>1, <2>2, <2>8, HandedOut
    <3>2. \A i \in DOMAIN packets', j \in DOMAIN out' : Rank(packets'[i]) < Rank(out'[j])
      BY <2>2, <2>5, <3>1
    <3>3. \A i \in DOMAIN packets' : packets'[i].n <= LastPicture
      BY <2>1, <2>2, <3>1 DEF Emitted
    <3>4. \A i \in DOMAIN packets', j \in DOMAIN work : work[j] # Eos => packets'[i].n < work[j].n
      BY <2>1, <2>2, <3>1 DEF Follows
    <3>5. Emitted(LastPicture)'
      BY <1>4, <2>2, <2>3, <2>8, <3>1, <3>2, <3>3 DEF Emitted, KeptBack, Sorted, Rank
    <3>6. Follows(work, LastPicture)'
      BY <1>1, <1>4, <2>1, <2>4, <2>8, <3>4 DEF Follows, KeptBack
    <3> QED
      BY <3>1, <3>5, <3>6
  <2> QED
    BY <1>3, <1>5, <2>6, <2>7, <2>8
<1>6. packets' \in Seq(Bits) /\ head_pkg_' \in Bits \cup {NoBits} /\ first_frame_' \in BOOLEAN
  <2>1. Append(packets, b) \in Seq(Bits)
    BY <1>1, <1>2
  <2> HIDE DEF b
  <2> QED
    BY <1>1, <1>2, <1>3, <1>5, <2>1
<1>7. TypeOK'
  BY <1>1, <1>2, <1>6 DEF TypeOK
<1>8. ScratchCovers' /\ DestroyDrains' /\ LeftOver' /\ InHand' /\ Counted' /\ EosOnce'
  BY <1>1 DEF ScratchCovers, DestroyDrains, LeftOver, InHand, Counted, Pending, EosOnce, EosReported
<1>9. Apart' /\ AllThere'
  BY <1>1, ApartFrame, AllThereFrame, InUseFrame
<1>10. Flowing'
  BY <1>1, <1>5 DEF Flowing
<1> QED
  BY <1>7, <1>8, <1>9, <1>10

LEMMA OnEosStep ==
  ASSUME EncoderInv, OnEos
  PROVE  EncoderInv'
<1> USE DEF EncoderInv, OnEos
<1>1. /\ work \in Seq(Jobs \cup {Eos}) /\ work[1] = Eos /\ 1 \in DOMAIN work
      /\ (Len(work) = 1 => Tail(work) = <<>>)
  BY TailWork DEF TypeOK
<1>2. Len(work) = 1 /\ eos_promise_ = "unset" /\ ~EosReported /\ eos_sent_
  BY <1>1 DEF EosOnce
<1>3. work' = <<>> /\ eos_promise_' = "set" /\ cpc' = "eos" /\ crashed' = FALSE
      /\ <<>> \in Seq(Jobs \cup {Eos}) /\ eoscalls = 0
  <2>1. work' = <<>> /\ <<>> \in Seq(Jobs \cup {Eos})
    BY <1>1, <1>2
  <2>2. eos_promise_' = "set" /\ cpc' = "eos" /\ crashed' = FALSE
    BY <1>2
  <2>3. eoscalls = 0
    BY <1>2 DEF EosReported, TypeOK
  <2> QED
    BY <2>1, <2>2, <2>3
<1>4. TypeOK'
  BY <1>3 DEF TypeOK
<1>5. ScratchCovers' /\ DestroyDrains' /\ LeftOver' /\ InHand' /\ Counted'
  BY <1>3 DEF ScratchCovers, DestroyDrains, LeftOver, InHand, Counted, Pending
<1>6. EosOnce'
  BY <1>2, <1>3 DEF EosOnce, EosReported
<1>7. Apart' /\ AllThere'
  BY <1>2, <1>3 DEF Apart, AllThere, InOnce, BufsIn
<1>8. Flowing'
  <2>1. LastPicture' = LastPicture
    BY DEF LastPicture
  <2> QED
    BY <1>3, <2>1 DEF Flowing, Emitted, Follows, Sorted, Rank, KeptBack
<1> QED
  BY <1>4, <1>5, <1>6, <1>7, <1>8

-----------------------------------------------------------------------------
LEMMA EncoderStep == EncoderInv /\ [Next]_vars => EncoderInv'
<1> SUFFICES ASSUME EncoderInv, [Next]_vars PROVE EncoderInv'
  OBVIOUS
<1>1. CASE UNCHANGED vars
  <2> USE <1>1 DEF vars, EncoderInv
  <2>1. TypeOK' /\ ScratchCovers' /\ DestroyDrains' /\ LeftOver' /\ InHand' /\ Counted' /\ EosOnce'
    BY DEF TypeOK, ScratchCovers, DestroyDrains, LeftOver, InHand, Counted, Pending, EosOnce, EosReported
  <2>2. Apart' /\ AllThere'
    BY ApartFrame, AllThereFrame, InUseFrame
  <2>3. LastPicture' = LastPicture /\ LastPicture \in Int
    BY LastInt DEF LastPicture
  <2> QED
    BY <2>1, <2>2, <2>3, FlowFrame
<1>2. CASE Next
  BY <1>2, QuietStep, CreatedStep, SendFrameStep, KeepStep, SendAcceptedStep, DestroyStep,
     EncodeStep, PacketStep, OnEosStep
     DEF Next, Sending, Callback
<1> QED
  BY <1>1, <1>2

LEMMA EncoderInvariant == Spec => []EncoderInv
  BY InitEncoder, EncoderStep, PTL DEF Spec

\* A buffer of MLU370 that is in one of the places is in that one only.
LEMMA PlacesOne ==
  ASSUME EncoderInv, platform = "MLU370", NEW b \in Bufs
  PROVE  Places(b) = IF b \in InUse THEN 1 ELSE 0
<1> DEFINE Q == {i \in DOMAIN cnframe_queue_ : cnframe_queue_[i].buf = b}
           W == {i \in DOMAIN work : work[i].buf = b}
           a == IF b \in avail THEN 1 ELSE 0
           c == IF b = cn_frame THEN 1 ELSE 0
<1> USE DEF EncoderInv
<1>0. b # None
  BY EncoderFacts
<1>1. Q = {} \/ \E i : Q = {i}
  <2>1. DOMAIN cnframe_queue_ = 1 .. Len(cnframe_queue_) /\ Len(cnframe_queue_) \in Nat
        /\ Len(cnframe_queue_) <= 1
    BY DEF TypeOK, LeftOver
  <2>2. \A i \in DOMAIN cnframe_queue_ : i = 1
    BY <2>1
  <2> QED
    BY <2>2
<1>2. W = {} \/ \E i : W = {i}
  BY DEF Apart, InOnce
<1>3. \A S : (S = {} \/ \E i : S = {i}) => Cardinality(S) = IF S = {} THEN 0 ELSE 1
  <2> SUFFICES ASSUME NEW S, S = {} \/ \E i : S = {i}
               PROVE  Cardinality(S) = IF S = {} THEN 0 ELSE 1
    OBVIOUS
  <2>1. CASE S = {}
    BY <2>1, FS_EmptySet
  <2>2. ASSUME NEW i, S = {i} PROVE Cardinality(S) = 1 /\ S # {}
    BY <2>2, FS_Singleton
  <2> QED
    BY <2>1, <2>2
<1>4. Cardinality(Q) = (IF Q = {} THEN 0 ELSE 1) /\ Cardinality(W) = (IF W = {} THEN 0 ELSE 1)
  BY <1>1, <1>2, <1>3
<1>5. (Q # {} <=> b \in BufsIn(cnframe_queue_)) /\ (W # {} <=> b \in BufsIn(work))
  BY <1>0 DEF BufsIn
<1>6. Places(b) = a + c + Cardinality(Q) + Cardinality(W)
  BY DEF Places
<1> HIDE DEF Q, W
<1>7. /\ avail \cap BufsIn(work) = {} /\ avail \cap BufsIn(cnframe_queue_) = {}
      /\ BufsIn(work) \cap BufsIn(cnframe_queue_) = {} /\ cn_frame \notin avail \cup BufsIn(work)
      /\ cn_frame # None => BufsIn(cnframe_queue_) = {}
  <2>1. BufsIn(<<>>) = {} /\ (cn_frame # None => cnframe_queue_ = <<>>)
    BY DEF LeftOver, BufsIn
  <2> QED
    BY <2>1 DEF Apart
<1> QED
  BY <1>0, <1>4, <1>5, <1>6, <1>7 DEF InUse

\* For any number of pictures and buffers: on MLU370 no buffer is lost or used
\* twice and the packets come out in order; on both platforms the scratch memory
\* holds every picture, unless it could not be allocated, and Destroy returns after the last packet and after OnEos.
THEOREM EncoderIsSafe == Spec => []StreamSafe
<1>1. EncoderInv => StreamSafe
  <2> SUFFICES ASSUME EncoderInv PROVE BufferInOnePlace /\ NoBufferLost /\ PacketsInOrder
    BY DEF StreamSafe, EncoderInv
  <2>1. BufferInOnePlace
    BY PlacesOne DEF BufferInOnePlace
  <2>2. NoBufferLost
    <3> SUFFICES ASSUME platform = "MLU370", created_, ~eos_sent_
                 PROVE  Cardinality({b \in Bufs : Places(b) = 1}) = InputBuffers(params.input_buf_num)
      BY DEF NoBufferLost
    <3>1. InUse \subseteq Bufs
      <4>1. avail \subseteq Bufs /\ {cn_frame} \ {None} \subseteq Bufs
        <5>1. cn_frame \in Bufs \cup {None} /\ avail \in SUBSET Bufs
          BY DEF EncoderInv, TypeOK
        <5> QED
          BY <5>1
      <4>2. \A i \in DOMAIN cnframe_queue_ : cnframe_queue_[i].buf \in Bufs
        <5>1. \A i \in DOMAIN cnframe_queue_ : cnframe_queue_[i] \in Jobs
          BY DEF EncoderInv, TypeOK
        <5>2. \A x \in Jobs : x.buf \in Bufs
          BY DEF Jobs
        <5> QED
          BY <5>1, <5>2
      <4>3. \A i \in DOMAIN work : work[i].buf \in Bufs \cup {None}
        BY EntryFacts DEF EncoderInv, TypeOK
      <4> QED
        BY <4>1, <4>2, <4>3 DEF InUse, BufsIn
    <3>2. {b \in Bufs : Places(b) = 1} = InUse
      BY <3>1, PlacesOne
    <3> QED
      BY <3>2 DEF EncoderInv, AllThere
  <2>3. PacketsInOrder
    <3> SUFFICES ASSUME platform = "MLU370", NEW i \in DOMAIN packets, NEW j \in DOMAIN packets, i < j
                 PROVE  \/ packets[i].n < packets[j].n
                        \/ packets[i].n = packets[j].n /\ packets[i].kind = "head"
      BY DEF PacketsInOrder
    <3>1. packets[i] \in Bits /\ packets[j] \in Bits /\ Rank(packets[i]) < Rank(packets[j])
      BY DEF EncoderInv, TypeOK, Flowing, Emitted, Sorted
    <3> QED
      BY <3>1, BitsFacts
  <2> QED
    BY <2>1, <2>2, <2>3
<1> QED
  BY <1>1, EncoderInvariant, PTL

-----------------------------------------------------------------------------
(* The codec channels of the CE3226 service *)

LEMMA CodecFacts ==
  /\ kMax \in Nat /\ CodecStart \in Nat /\ CodecStart <= kMax /\ Tries \in Nat
  /\ Closed \in Contexts /\ Idle \in Calls
<1>1. kMax \in Nat /\ CodecStart \in Nat /\ CodecStart <= kMax /\ Tries \in Nat
  BY MpsCodecConstants
<1>2. Closed \in Contexts
  BY DEF Closed, Contexts
<1>3. Idle \in Calls
  BY <1>1 DEF Idle, Calls, Kinds
<1> QED
  BY <1>1, <1>2, <1>3

\* The first Init fills the queues, each id once.
LEMMA ConfiguredIds ==
  /\ ConfigIds(<<>>) \in Seq(CodecStart .. kMax - 1)
  /\ \A q \in Seq(CodecStart .. kMax - 1) : ConfigIds(q) \in Seq(CodecStart .. kMax - 1)
  /\ DOMAIN ConfigIds(<<>>) = 1 .. kMax - CodecStart
  /\ \A n \in 1 .. kMax - CodecStart : ConfigIds(<<>>)[n] = CodecStart + n - 1
<1>a. PICK m \in Nat : m = kMax - CodecStart
  BY CodecFacts
<1>b. PICK S : S = CodecStart .. kMax - 1
  OBVIOUS
<1>0. m = kMax - CodecStart /\ S = CodecStart .. kMax - 1
  BY <1>a, <1>b
<1>1. \A n \in 1 .. m : CodecStart + n - 1 \in S
  BY <1>0, CodecFacts
<1>2. PICK t : t = [n \in 1 .. m |-> CodecStart + n - 1]
  OBVIOUS
<1>3. t \in [1 .. m -> S] /\ \A n \in 1 .. m : t[n] = CodecStart + n - 1
  BY <1>1, <1>2
<1>4. t \in Seq(S) /\ DOMAIN t = 1 .. m
  BY <1>3
<1>5. <<>> \o t = t
  BY <1>4
<1>6. \A q \in Seq(S) : q \o t \in Seq(S)
  BY <1>4
<1>7. \A q : ConfigIds(q) = q \o t
  BY <1>0, <1>2 DEF ConfigIds
<1> QED
  BY <1>0, <1>3, <1>4, <1>5, <1>6, <1>7

\* Every id is in a queue, and nowhere twice.
LEMMA ConfiguredKept ==
  ASSUME ChannelsTyped, Phases, inits = 0, id_q_' = [k \in Kinds |-> ConfigIds(id_q_[k])], UNCHANGED call
  PROVE  HandleUnique' /\ IdsKept'
<1>1. \A k \in Kinds : id_q_'[k] = ConfigIds(<<>>)
  BY DEF Phases
<1>2. \A u \in Users : call'[u].handle = 0
  BY DEF Phases
<1>3. HandleUnique'
  BY <1>2 DEF HandleUnique
<1>4. ASSUME NEW k \in Kinds
      PROVE  /\ Distinct(id_q_'[k]) /\ HeldIds(k)' = {}
             /\ CodecStart .. kMax - 1 \subseteq Elems(id_q_'[k])
  <2>1. PICK q : q = id_q_'[k] /\ DOMAIN q = 1 .. kMax - CodecStart
                  /\ \A n \in DOMAIN q : q[n] = CodecStart + n - 1
    BY <1>1, ConfiguredIds
  <2>2. Distinct(q)
    BY <2>1, CodecFacts DEF Distinct
  <2>3. HeldIds(k)' = {}
    BY <1>2, CodecFacts DEF HeldIds
  <2>4. ASSUME NEW i \in CodecStart .. kMax - 1 PROVE i \in Elems(q)
    <3>1. i - CodecStart + 1 \in DOMAIN q /\ q[i - CodecStart + 1] = i
      BY <2>1, CodecFacts
    <3> QED
      BY <3>1 DEF Elems
  <2> QED
    BY <2>1, <2>2, <2>3, <2>4
<1>5. CodecStart .. kMax - 2 \subseteq CodecStart .. kMax - 1
  BY CodecFacts
<1> QED
  BY <1>3, <1>4, <1>5 DEF IdsKept

LEMMA ElemsIn ==
  ASSUME NEW S, NEW q \in Seq(S)
  PROVE  Elems(q) \subseteq S
  BY DEF Elems

\* The context of the channel a thread uses.
LEMMA OwnContext ==
  ASSUME ChannelsInv, inits = 1, NEW u \in Users, call[u].handle # 0
  PROVE  /\ call[u].kind \in Kinds /\ call[u].handle \in Handles
         /\ Of(u) = ctx[call[u].kind][call[u].handle]
         /\ Of(u) \in Contexts /\ Of(u).created /\ Of(u).open /\ Balance(Of(u))
         /\ call[u] \in Calls
<1>1. call[u] \in Calls /\ call[u].kind \in Kinds /\ call[u].handle \in 0 .. kMax
  BY DEF ChannelsInv, ChannelsTyped, Calls
<1>2. call[u].handle \in Handles
  BY <1>1, CodecFacts DEF Handles
<1>3. ctx[call[u].kind][call[u].handle] \in Contexts
  BY <1>1, <1>2 DEF ChannelsInv, ChannelsTyped
<1>4. Of(u).created
  BY DEF ChannelsInv, Created
<1>5. Of(u).open /\ Balance(Of(u))
  BY <1>1, <1>2, <1>4 DEF Of, ChannelsInv, OpenIffCreated, Conserved
<1> QED
  BY <1>1, <1>2, <1>3, <1>4, <1>5 DEF Of

\* What a step of SendStream, SendFrame or Destroy does to the channel c and the
\* call d of its thread.
Effect(u, c, d) ==
  /\ c \in Contexts /\ d \in Calls
  /\ ctx' = [ctx EXCEPT ![call[u].kind][call[u].handle] = c]
  /\ call' = [call EXCEPT ![u] = d] /\ id_q_' = id_q_
  /\ d.kind = call[u].kind /\ d.handle = call[u].handle
  /\ c.created /\ c.open /\ Balance(c)
  /\ d.pc \in {"send", "poll"} /\ ~d.null => ~c.eos_sent

LEMMA EffectSafe ==
  ASSUME ChannelsInv, inits = 1, state = "ready", UNCHANGED <<inits, state, todo>>,
         NEW u \in Users, call[u].handle # 0, NEW c, NEW d, Effect(u, c, d)
  PROVE  ChannelsInv'
<1>1. PICK k \in Kinds, h \in Handles : k = call[u].kind /\ h = call[u].handle
  BY OwnContext
<1>2. /\ ctx' = [ctx EXCEPT ![k][h] = c] /\ call' = [call EXCEPT ![u] = d] /\ id_q_' = id_q_
      /\ d.kind = k /\ d.handle = h /\ c.created /\ c.open /\ Balance(c)
      /\ c \in Contexts /\ d \in Calls
      /\ d.pc \in {"send", "poll"} /\ ~d.null => ~c.eos_sent
  BY <1>1 DEF Effect
<1>3. ChannelsTyped
  BY DEF ChannelsInv
<1>4. /\ call'[u] = d /\ \A v \in Users : v # u => call'[v] = call[v]
      /\ ctx'[k][h] = c
      /\ \A j \in Kinds, g \in Handles : <<j, g>> # <<k, h>> => ctx'[j][g] = ctx[j][g]
  BY <1>2, <1>3 DEF ChannelsTyped
<1>5. ChannelsTyped'
  BY <1>2, <1>3 DEF ChannelsTyped
<1>6. Phases'
  BY <1>2, <1>3, <1>4 DEF ChannelsInv, Phases
<1>7. \A v \in Users : call'[v].kind = call[v].kind /\ call'[v].handle = call[v].handle
  BY <1>1, <1>2, <1>4
<1>8. ChannelsSafe'
  BY <1>2, <1>7 DEF ChannelsInv, ChannelsSafe, HandleUnique, IdsKept, HeldIds
<1>9. \A v \in Users : v # u /\ call[v].handle # 0 =>
        /\ <<call[v].kind, call[v].handle>> # <<k, h>>
        /\ call[v].kind \in Kinds /\ call[v].handle \in Handles
  BY <1>1, OwnContext DEF ChannelsInv, ChannelsSafe, HandleUnique
<1>10. \A v \in Users : v # u /\ call[v].handle # 0 => Of(v)' = Of(v)
  BY <1>4, <1>7, <1>9 DEF Of
<1>11. Of(u)' = c
  BY <1>1, <1>4, <1>7 DEF Of
<1>12. Created'
  BY <1>1, <1>2, <1>4, <1>10, <1>11 DEF ChannelsInv, Created
<1>13. UnitBeforeEos'
  BY <1>2, <1>4, <1>10, <1>11 DEF ChannelsInv, UnitBeforeEos, Created
<1>14. Conserved' /\ OpenIffCreated'
  <2>1. \A j \in Kinds, g \in Handles : Balance(ctx'[j][g])
    BY <1>2, <1>4 DEF ChannelsInv, Conserved
  <2>2. ASSUME NEW j \in Kinds, NEW g \in Handles
        PROVE  /\ ctx'[j][g].created => ctx'[j][g].open
               /\ ctx'[j][g].open /\ ~ctx'[j][g].created => j = "venc" /\ ctx'[j][g].jpeg
    BY <1>2, <1>4 DEF ChannelsInv, OpenIffCreated
  <2> QED
    BY <2>1, <2>2 DEF Conserved, OpenIffCreated
<1> QED
  BY <1>5, <1>6, <1>8, <1>12, <1>13, <1>14 DEF ChannelsInv

\* A step that leaves the context alone, too.
LEMMA SameContext ==
  ASSUME ChannelsInv, inits = 1, NEW u \in Users, call[u].handle # 0, UNCHANGED ctx
  PROVE  ctx' = [ctx EXCEPT ![call[u].kind][call[u].handle] = Of(u)]
<1>1. PICK k \in Kinds, h \in Handles : k = call[u].kind /\ h = call[u].handle /\ Of(u) = ctx[k][h]
  BY OwnContext
<1>2. ctx \in [Kinds -> [Handles -> Contexts]]
  BY DEF ChannelsInv, ChannelsTyped
<1>3. ctx = [ctx EXCEPT ![k][h] = ctx[k][h]]
  BY <1>2
<1> QED
  BY <1>1, <1>3

LEMMA SendBeginEffect ==
  ASSUME ChannelsInv, inits = 1, NEW u \in Users, call[u].handle # 0,
         NEW null \in BOOLEAN, NEW destroy \in BOOLEAN, SendBegin(u, null, destroy)
  PROVE  \E c, d : Effect(u, c, d)
<1>1. PICK o \in Contexts, e \in Calls : o = Of(u) /\ e = call[u] /\ o.created /\ o.open /\ Balance(o)
  BY OwnContext
<1>2. PICK c : c = [o EXCEPT !.eos_sent = @ \/ null]
  OBVIOUS
<1>3. PICK d : d = [e EXCEPT !.pc = "send", !.null = null, !.count = Tries,
                             !.send_done = null /\ o.eos_sent, !.destroy = destroy]
  OBVIOUS
<1>4. c \in Contexts /\ c.created /\ c.open /\ c.eos_sent = (o.eos_sent \/ null) /\ Balance(c)
  BY <1>1, <1>2 DEF Contexts, Balance
<1>5. d \in Calls /\ d.kind = e.kind /\ d.handle = e.handle /\ d.null = null
  BY <1>3, CodecFacts DEF Calls
<1>6. ~null => ~o.eos_sent
  BY <1>1 DEF SendBegin
<1>7. ctx' = [ctx EXCEPT ![call[u].kind][call[u].handle] = c] /\ call' = [call EXCEPT ![u] = d] /\ id_q_' = id_q_
  BY <1>1, <1>2, <1>3 DEF SendBegin, SetCtx, SetCall
<1> QED
  BY <1>1, <1>4, <1>5, <1>6, <1>7 DEF Effect

LEMMA ReturnedCall ==
  ASSUME NEW u \in Users, call[u] \in Calls
  PROVE  /\ Returned(u) \in Calls /\ Returned(u).kind = call[u].kind /\ Returned(u).handle = call[u].handle
         /\ Returned(u).pc \in {"stop", "idle"}
  BY DEF Returned, Calls

LEMMA FailEffect ==
  ASSUME ChannelsInv, inits = 1, NEW u \in Users, call[u].handle # 0, Fail(u)
  PROVE  \E c, d : Effect(u, c, d)
<1>1. PICK o \in Contexts : o = Of(u) /\ call[u] \in Calls /\ o.created /\ o.open /\ Balance(o)
  BY OwnContext
<1>2. PICK c, d : c = [o EXCEPT !.error = TRUE] /\ d = Returned(u)
  OBVIOUS
<1>3. c \in Contexts /\ c.created /\ c.open /\ Balance(c)
  BY <1>1, <1>2 DEF Contexts, Balance
<1>4. ctx' = [ctx EXCEPT ![call[u].kind][call[u].handle] = c] /\ call' = [call EXCEPT ![u] = d] /\ id_q_' = id_q_
  BY <1>1, <1>2 DEF Fail, SetCtx, SetCall
<1> QED
  BY <1>1, <1>2, <1>3, <1>4, ReturnedCall DEF Effect

\* The steps inside SendStream and SendFrame.
LEMMA SendingEffect ==
  ASSUME ChannelsInv, inits = 1, NEW u \in Users, call[u].handle # 0,
         \/ SendLoopEnds(u) \/ NothingToSend(u) \/ UnitAccepted(u) \/ SendFull(u) \/ SendFails(u)
  PROVE  \E c, d : Effect(u, c, d)
<1>1. PICK o \in Contexts, e \in Calls :
        /\ o = Of(u) /\ e = call[u] /\ o.created /\ o.open /\ Balance(o)
        /\ e.pc \in {"send", "poll"} /\ ~e.null => ~o.eos_sent
  BY OwnContext DEF ChannelsInv, UnitBeforeEos
<1>2. CASE SendLoopEnds(u)
  <2>1. call' = [call EXCEPT ![u] = Returned(u)] /\ id_q_' = id_q_ /\ ctx' = [ctx EXCEPT ![call[u].kind][call[u].handle] = o]
    BY <1>1, <1>2, SameContext DEF SendLoopEnds, SetCall
  <2>2. Effect(u, o, Returned(u))
    BY <1>1, <2>1, ReturnedCall DEF Effect
  <2> QED
    BY <2>2
<1>3. CASE NothingToSend(u)
  <2>1. PICK d : d = [e EXCEPT !.pc = "poll", !.send_done = TRUE]
    OBVIOUS
  <2>2. d \in Calls /\ d.kind = e.kind /\ d.handle = e.handle /\ d.null = e.null
    BY <2>1 DEF Calls
  <2>3. call' = [call EXCEPT ![u] = d] /\ id_q_' = id_q_ /\ ctx' = [ctx EXCEPT ![call[u].kind][call[u].handle] = o]
    BY <1>1, <1>3, <2>1, SameContext DEF NothingToSend, SetCall
  <2>4. e.pc = "send"
    BY <1>1, <1>3 DEF NothingToSend, InLoop
  <2>5. Effect(u, o, d)
    BY <1>1, <2>2, <2>3, <2>4 DEF Effect
  <2> QED
    BY <2>5
<1>4. CASE UnitAccepted(u)
  <2>1. PICK d : d = [e EXCEPT !.pc = "poll", !.send_done = TRUE]
    OBVIOUS
  <2>2. d \in Calls /\ d.kind = e.kind /\ d.handle = e.handle /\ d.null = e.null
    BY <2>1 DEF Calls
  <2>3. PICK c : c = IF e.null THEN o ELSE [o EXCEPT !.stream = @ + 1, !.sent = @ + 1]
    OBVIOUS
  <2>4. e.pc = "send"
    BY <1>1, <1>4 DEF UnitAccepted, MustSend, InLoop
  <2>5. c \in Contexts /\ c.created /\ c.open /\ c.eos_sent = o.eos_sent /\ Balance(c)
    <3>1. CASE e.null
      BY <1>1, <2>3, <3>1
    <3>2. CASE ~e.null
      <4>3. PICK x \in Nat, y \in Nat : x = o.stream + 1 /\ y = o.sent + 1
        BY DEF Contexts
      <4>4. c = [o EXCEPT !.stream = x, !.sent = y]
        BY <2>3, <3>2, <4>3
      <4>1. /\ c \in Contexts /\ c.created /\ c.open /\ c.eos_sent = o.eos_sent /\ c.eos = o.eos
            /\ c.sent = o.sent + 1 /\ c.stream = o.stream + 1 /\ c.got = o.got /\ c.pics = o.pics
            /\ o.sent \in Nat /\ o.stream \in Nat /\ o.got \in Nat /\ o.pics \in Nat
        BY <1>1, <4>3, <4>4 DEF Contexts
      <4>2. ~o.eos_sent
        BY <1>1, <2>4, <3>2
      <4> QED
        BY <1>1, <4>1, <4>2 DEF Balance
    <3> QED
      BY <3>1, <3>2
  <2>6. call' = [call EXCEPT ![u] = d] /\ id_q_' = id_q_ /\ ctx' = [ctx EXCEPT ![call[u].kind][call[u].handle] = c]
    BY <1>1, <1>4, <2>1, <2>3 DEF UnitAccepted, SetCall, SetCtx
  <2>7. Effect(u, c, d)
    BY <1>1, <2>2, <2>4, <2>5, <2>6 DEF Effect
  <2> QED
    BY <2>7
<1>5. CASE SendFull(u)
  <2>1. PICK d : d = [e EXCEPT !.pc = "poll", !.count = @ - 1]
    OBVIOUS
  <2>2. d \in Calls /\ d.kind = e.kind /\ d.handle = e.handle /\ d.null = e.null
    <3>1. e.count \in Nat /\ e.count > 0
      BY <1>1, <1>5 DEF Calls, SendFull
    <3>2. PICK n \in Nat : n = e.count - 1
      BY <3>1
    <3>3. d = [e EXCEPT !.pc = "poll", !.count = n]
      BY <2>1, <3>2
    <3> QED
      BY <3>3 DEF Calls
  <2>3. PICK c : c = IF e.kind = "vdec" /\ o.pics > 0 THEN [o EXCEPT !.pics = @ - 1, !.got = @ + 1] ELSE o
    OBVIOUS
  <2>4. e.pc = "send" /\ ~e.null
    BY <1>1, <1>5 DEF SendFull, MustSend, InLoop
  <2>5. c \in Contexts /\ c.created /\ c.open /\ c.eos_sent = o.eos_sent /\ Balance(c)
    <3>1. CASE ~(e.kind = "vdec" /\ o.pics > 0)
      BY <1>1, <2>3, <3>1
    <3>2. CASE e.kind = "vdec" /\ o.pics > 0
      <4>3. PICK x \in Nat, y \in Nat : x = o.pics - 1 /\ y = o.got + 1
        BY <3>2 DEF Contexts
      <4>4. c = [o EXCEPT !.pics = x, !.got = y]
        BY <2>3, <3>2, <4>3
      <4>1. /\ c \in Contexts /\ c.created /\ c.open /\ c.eos_sent = o.eos_sent /\ c.eos = o.eos
            /\ c.sent = o.sent /\ c.stream = o.stream /\ c.got = o.got + 1 /\ c.pics = o.pics - 1
            /\ o.sent \in Nat /\ o.stream \in Nat /\ o.got \in Nat /\ o.pics \in Nat
        BY <1>1, <4>3, <4>4 DEF Contexts
      <4> QED
        BY <1>1, <3>2, <4>1 DEF Balance
    <3> QED
      BY <3>1, <3>2
  <2>6. call' = [call EXCEPT ![u] = d] /\ id_q_' = id_q_ /\ ctx' = [ctx EXCEPT ![call[u].kind][call[u].handle] = c]
    BY <1>1, <1>5, <2>1, <2>3 DEF SendFull, SetCall, SetCtx
  <2>7. Effect(u, c, d)
    BY <1>1, <2>2, <2>4, <2>5, <2>6 DEF Effect
  <2> QED
    BY <2>7
<1>6. CASE SendFails(u)
  BY <1>6, FailEffect DEF SendFails
<1> QED
  BY <1>2, <1>3, <1>4, <1>5, <1>6

\* The end is reported when the channel is empty.
LEMMA PollingEffect ==
  ASSUME ChannelsInv, inits = 1, NEW u \in Users, call[u].handle # 0,
         PollFrame(u) \/ PollTimeout(u) \/ PollFails(u)
  PROVE  \E c, d : Effect(u, c, d)
<1>1. PICK o \in Contexts, e \in Calls :
        /\ o = Of(u) /\ e = call[u] /\ o.created /\ o.open /\ Balance(o)
        /\ e.pc \in {"send", "poll"} /\ ~e.null => ~o.eos_sent
  BY OwnContext DEF ChannelsInv, UnitBeforeEos
<1>2. /\ o.sent \in Nat /\ o.stream \in Nat /\ o.got \in Nat /\ o.pics \in Nat
      /\ o.eos \in BOOLEAN /\ o.eos_sent \in BOOLEAN /\ e.send_done \in BOOLEAN
      /\ e.pc = "poll"
  BY <1>1 DEF Contexts, Calls, PollFrame, PollTimeout, PollFails
<1>3. Returned(u) \in Calls /\ Returned(u).kind = e.kind /\ Returned(u).handle = e.handle
      /\ Returned(u).pc \notin {"send", "poll"}
  BY <1>1, ReturnedCall
<1>4. CASE PollFrame(u)
  <2>1. PICK x \in Nat, y \in Nat : x = o.pics - 1 /\ y = o.got + 1
    BY <1>1, <1>2, <1>4 DEF PollFrame
  <2>2. PICK b : b = [o EXCEPT !.pics = @ - 1, !.got = @ + 1]
    OBVIOUS
  <2>3. PICK end \in BOOLEAN : end = (Finishing(u) /\ CheckHandleEos(b))
    BY DEF Finishing, CheckHandleEos
  <2>4. PICK z \in BOOLEAN : z = (o.eos \/ end)
    OBVIOUS
  <2>5. b = [o EXCEPT !.pics = x, !.got = y]
    BY <2>1, <2>2
  <2>6. /\ b \in Contexts /\ b.created /\ b.open /\ b.eos_sent = o.eos_sent /\ b.eos = o.eos
        /\ b.sent = o.sent /\ b.stream = o.stream /\ b.got = y /\ b.pics = x
    BY <1>1, <2>5 DEF Contexts
  <2>7. PICK c : c = [b EXCEPT !.eos = @ \/ end]
    OBVIOUS
  <2>8. c = [b EXCEPT !.eos = z]
    BY <2>4, <2>6, <2>7, Zenon
  <2>9. /\ c \in Contexts /\ c.created /\ c.open /\ c.eos_sent = o.eos_sent /\ c.eos = z
        /\ c.sent = o.sent /\ c.stream = o.stream /\ c.got = y /\ c.pics = x
    BY <2>6, <2>8 DEF Contexts
  <2>10. end => o.eos_sent /\ b.stream = 0 /\ b.pics = 0
    BY <1>1, <2>3 DEF Finishing, CheckHandleEos
  <2>11. o.eos => o.pics = 0
    BY <1>1 DEF Balance
  <2>12. ~o.eos
    BY <2>1, <2>11, <1>2
  <2>13. Balance(c)
    <3>1. c.sent = c.got + c.stream + c.pics
      BY <1>1, <1>2, <2>1, <2>9 DEF Balance
    <3>2. c.eos => end
      BY <2>4, <2>9, <2>12
    <3> QED
      BY <3>1, <3>2, <2>6, <2>9, <2>10 DEF Balance
  <2>14. PICK d : d = IF end THEN Returned(u) ELSE e
    OBVIOUS
  <2>15. d \in Calls /\ d.kind = e.kind /\ d.handle = e.handle /\ (d.pc \in {"send", "poll"} /\ ~d.null => ~o.eos_sent)
    BY <1>1, <1>3, <2>14
  <2>16. ctx' = [ctx EXCEPT ![call[u].kind][call[u].handle] = c] /\ call' = [call EXCEPT ![u] = d] /\ id_q_' = id_q_
    BY <1>1, <1>4, <2>2, <2>3, <2>7, <2>14 DEF PollFrame, SetCtx, SetCall
  <2>17. Effect(u, c, d)
    BY <1>1, <2>9, <2>13, <2>15, <2>16 DEF Effect
  <2> QED
    BY <2>17
<1>5. CASE PollTimeout(u)
  <2>3. PICK end \in BOOLEAN : end = (Finishing(u) /\ CheckHandleEos(Of(u)))
    BY DEF Finishing, CheckHandleEos
  <2>4. PICK z \in BOOLEAN : z = (o.eos \/ end)
    OBVIOUS
  <2>7. PICK c : c = [o EXCEPT !.eos = @ \/ end]
    OBVIOUS
  <2>8. c = [o EXCEPT !.eos = z]
    BY <2>4, <2>7, Zenon
  <2>9. /\ c \in Contexts /\ c.created /\ c.open /\ c.eos_sent = o.eos_sent /\ c.eos = z
        /\ c.sent = o.sent /\ c.stream = o.stream /\ c.got = o.got /\ c.pics = o.pics
    BY <1>1, <2>8 DEF Contexts
  <2>10. end => o.eos_sent /\ o.stream = 0 /\ o.pics = 0
    BY <1>1, <2>3 DEF Finishing, CheckHandleEos
  <2>13. Balance(c)
    BY <1>1, <2>4, <2>9, <2>10 DEF Balance
  <2>14. PICK d : d = IF end \/ (~o.eos_sent /\ e.send_done) THEN Returned(u)
                      ELSE IF Finishing(u) THEN e ELSE [e EXCEPT !.pc = "send"]
    OBVIOUS
  <2>15. PICK f : f = [e EXCEPT !.pc = "send"]
    OBVIOUS
  <2>16. f \in Calls /\ f.kind = e.kind /\ f.handle = e.handle /\ f.null = e.null
    BY <2>15 DEF Calls
  <2>17. d = Returned(u) \/ d = e \/ d = f
    BY <2>14, <2>15
  <2>18. d \in Calls /\ d.kind = e.kind /\ d.handle = e.handle /\ (d.pc \in {"send", "poll"} /\ ~d.null => ~o.eos_sent)
    BY <1>1, <1>2, <1>3, <2>16, <2>17
  <2>19. ctx' = [ctx EXCEPT ![call[u].kind][call[u].handle] = c] /\ call' = [call EXCEPT ![u] = d] /\ id_q_' = id_q_
    BY <1>1, <1>5, <2>3, <2>7, <2>14 DEF PollTimeout, SetCtx, SetCall
  <2>20. Effect(u, c, d)
    BY <1>1, <2>9, <2>13, <2>18, <2>19 DEF Effect
  <2> QED
    BY <2>20
<1>6. CASE PollFails(u)
  <2>1. CASE Fail(u)
    BY <2>1, FailEffect
  <2>2. CASE SetCall(u, Returned(u)) /\ UNCHANGED <<ctx, id_q_>>
    <3>1. call' = [call EXCEPT ![u] = Returned(u)] /\ id_q_' = id_q_ /\ ctx' = [ctx EXCEPT ![call[u].kind][call[u].handle] = o]
      BY <1>1, <2>2, SameContext DEF SetCall
    <3>2. Effect(u, o, Returned(u))
      BY <1>1, <1>3, <3>1 DEF Effect
    <3> QED
      BY <3>2
  <2> QED
    BY <1>6, <2>1, <2>2 DEF PollFails
<1> QED
  BY <1>4, <1>5, <1>6

\* Destroy has a channel, and sends the end of the stream before it stops.
LEMMA DestroyEffect ==
  ASSUME ChannelsInv, inits = 1, NEW u \in Users, Destroy(u)
  PROVE  call[u].handle # 0 /\ \E c, d : Effect(u, c, d)
<1>1. call[u].handle # 0
  BY DEF Destroy
<1>2. PICK o \in Contexts, e \in Calls : o = Of(u) /\ e = call[u] /\ o.created /\ o.open /\ Balance(o)
  BY <1>1, OwnContext
<1>3. CASE SendBegin(u, TRUE, TRUE)
  BY <1>1, <1>3, SendBeginEffect
<1>4. CASE SetCall(u, [call[u] EXCEPT !.pc = "stop"]) /\ UNCHANGED <<ctx, id_q_>>
  <2>1. PICK d : d = [e EXCEPT !.pc = "stop"]
    OBVIOUS
  <2>2. d \in Calls /\ d.kind = e.kind /\ d.handle = e.handle /\ d.pc = "stop"
    BY <2>1 DEF Calls
  <2>3. call' = [call EXCEPT ![u] = d] /\ id_q_' = id_q_ /\ ctx' = [ctx EXCEPT ![call[u].kind][call[u].handle] = o]
    BY <1>1, <1>2, <1>4, <2>1, SameContext DEF SetCall
  <2>4. Effect(u, o, d)
    BY <1>2, <2>2, <2>3 DEF Effect
  <2> QED
    BY <1>1, <2>4
<1> QED
  BY <1>1, <1>2, <1>3, <1>4 DEF Destroy

\* An id goes from the queue to the thread that asked for it.
LEMMA TakenKept ==
  ASSUME ChannelsInv, inits = 1, NEW u \in Users, NEW k \in Kinds, call[u].handle = 0, id_q_[k] # <<>>,
         id_q_' = [id_q_ EXCEPT ![k] = Tail(@)],
         call' = [call EXCEPT ![u] = [Idle EXCEPT !.kind = k, !.handle = GetId(k)]]
  PROVE  HandleUnique' /\ IdsKept'
<1>1. PICK q \in Seq(CodecStart .. kMax - 1) : q = id_q_[k] /\ q # <<>>
  BY DEF ChannelsInv, ChannelsTyped
<1>2. PICK t, x : t = Tail(q) /\ x = Head(q)
  OBVIOUS
<1>3. /\ x \in CodecStart .. kMax - 1 /\ Elems(q) = Elems(t) \cup {x}
      /\ Distinct(q) => Distinct(t) /\ x \notin Elems(t)
  BY <1>1, <1>2, TailElements
<1>4. HandleUnique /\ IdsKept
  BY DEF ChannelsInv, ChannelsSafe
<1>5. Distinct(t) /\ x \notin Elems(t) /\ x \notin HeldIds(k)
  BY <1>1, <1>3, <1>4 DEF IdsKept
<1>6. /\ id_q_'[k] = t /\ \A j \in Kinds : j # k => id_q_'[j] = id_q_[j]
      /\ call'[u].kind = k /\ call'[u].handle = x + 1
      /\ \A v \in Users : v # u => call'[v] = call[v]
  <2>1. call'[u] = [Idle EXCEPT !.kind = k, !.handle = x + 1]
    BY <1>1, <1>2 DEF GetId, ChannelsInv, ChannelsTyped
  <2>2. call'[u].kind = k /\ call'[u].handle = x + 1
    BY <2>1 DEF Idle
  <2> QED
    BY <2>2, <1>1, <1>2 DEF ChannelsInv, ChannelsTyped
<1>7. \A v \in Users : ~(call[v].kind = k /\ call[v].handle = x + 1)
  BY <1>3, <1>5 DEF HeldIds
<1>8. HandleUnique'
  BY <1>4, <1>6, <1>7 DEF HandleUnique
<1>9. HeldIds(k)' = HeldIds(k) \cup {x}
  <2>1. ASSUME NEW i \in CodecStart .. kMax - 1 PROVE i \in HeldIds(k)' <=> i \in HeldIds(k) \/ i = x
    <3>1. i + 1 = x + 1 <=> i = x
      BY <1>3
    <3>2. i + 1 # 0
      BY CodecFacts
    <3> QED
      BY <1>6, <3>1, <3>2 DEF HeldIds
  <2>2. HeldIds(k)' \subseteq CodecStart .. kMax - 1 /\ HeldIds(k) \subseteq CodecStart .. kMax - 1
    BY DEF HeldIds
  <2> QED
    BY <2>1, <2>2, <1>3
<1>10. ASSUME NEW j \in Kinds, j # k PROVE HeldIds(j)' = HeldIds(j)
  <2>1. \A i \in CodecStart .. kMax - 1 : i + 1 # 0
    BY CodecFacts
  <2> QED
    BY <1>6, <1>10, <2>1 DEF HeldIds
<1>11. ASSUME NEW j \in Kinds
       PROVE  /\ Distinct(id_q_'[j]) /\ Elems(id_q_'[j]) \cap HeldIds(j)' = {}
              /\ CodecStart .. kMax - 2 \subseteq Elems(id_q_'[j]) \cup HeldIds(j)'
  <2>1. CASE j = k
    <3>1. PICK H, C : H = HeldIds(k) /\ C = CodecStart .. kMax - 2
      OBVIOUS
    <3>2. Elems(q) \cap H = {} /\ C \subseteq Elems(q) \cup H
      BY <1>1, <1>4, <3>1 DEF IdsKept
    <3>3. Elems(t) \cap (H \cup {x}) = {} /\ C \subseteq Elems(t) \cup (H \cup {x})
      BY <3>1, <3>2, <1>3, <1>5
    <3> QED
      BY <2>1, <3>1, <3>3, <1>5, <1>6, <1>9
  <2>2. CASE j # k
    BY <2>2, <1>4, <1>6, <1>10 DEF IdsKept
  <2> QED
    BY <2>1, <2>2
<1> QED
  BY <1>8, <1>11 DEF IdsKept

\* An id goes back into the queue, but for that of the last handle.
LEMMA ReturnedId ==
  ASSUME NEW q \in Seq(CodecStart .. kMax - 1), NEW h \in Handles
  PROVE  /\ ReturnId(q, h) \in Seq(CodecStart .. kMax - 1)
         /\ Elems(q) \subseteq Elems(ReturnId(q, h)) /\ Elems(ReturnId(q, h)) \subseteq Elems(q) \cup {h - 1}
         /\ h - 1 \in CodecStart .. kMax - 2 => h - 1 \in Elems(ReturnId(q, h))
         /\ Distinct(q) /\ h - 1 \notin Elems(q) => Distinct(ReturnId(q, h))
<1>1. CASE h < CodecStart + 1 \/ h >= kMax
  BY <1>1, CodecFacts DEF ReturnId, Handles
<1>2. CASE ~(h < CodecStart + 1 \/ h >= kMax)
  <2>1. PICK x : x = h - 1
    OBVIOUS
  <2>2. x \in CodecStart .. kMax - 1
    BY <1>2, <2>1, CodecFacts DEF Handles
  <2>3. ReturnId(q, h) = Append(q, x)
    BY <1>2, <2>1 DEF ReturnId
  <2>4. /\ Append(q, x) \in Seq(CodecStart .. kMax - 1) /\ Elems(Append(q, x)) = Elems(q) \cup {x}
        /\ Distinct(q) /\ x \notin Elems(q) => Distinct(Append(q, x))
    <3>1. PICK S : S = CodecStart .. kMax - 1 /\ q \in Seq(S) /\ x \in S
      BY <2>2
    <3>2. Append(q, x) \in Seq(S)
      BY <3>1
    <3>5. ASSUME NEW T, q \in Seq(T), x \in T PROVE Elems(Append(q, x)) = Elems(q) \cup {x}
      BY <3>5, AppendElems
    <3>3. Elems(Append(q, x)) = Elems(q) \cup {x}
      BY <3>1, <3>5
    <3>4. Distinct(q) /\ x \notin Elems(q) => Distinct(Append(q, x))
      BY <3>1, AppendElems, Zenon
    <3> QED
      BY <3>1, <3>2, <3>3, <3>4
  <2> QED
    BY <2>1, <2>3, <2>4
<1> QED
  BY <1>1, <1>2

\* The threads that are not in a call of this channel see the same context.
LEMMA OthersSame ==
  ASSUME ChannelsInv, inits = 1, NEW k \in Kinds, NEW h \in Handles,
         NEW c, ctx' = [ctx EXCEPT ![k][h] = c],
         NEW v \in Users, call'[v] = call[v], call[v].handle # 0,
         <<call[v].kind, call[v].handle>> # <<k, h>>
  PROVE  Of(v)' = Of(v)
<1>1. call[v].kind \in Kinds /\ call[v].handle \in Handles
  BY OwnContext
<1>2. ctx'[call[v].kind][call[v].handle] = ctx[call[v].kind][call[v].handle]
  BY <1>1 DEF ChannelsInv, ChannelsTyped
<1> QED
  BY <1>2 DEF Of

\* The channel is closed and its id returned.
LEMMA DestroyChnSafe ==
  ASSUME ChannelsInv, inits = 1, NEW u \in Users, DestroyChn(u), UNCHANGED <<inits, state, todo>>
  PROVE  ChannelsInv'
<1>1. call[u].handle # 0
  BY DEF DestroyChn, ChannelsInv, Created
<1>2. PICK k \in Kinds, h \in Handles : k = call[u].kind /\ h = call[u].handle
  BY <1>1, OwnContext
<1>3. ChannelsTyped /\ HandleUnique /\ IdsKept
  BY DEF ChannelsInv, ChannelsSafe
<1>a. PICK q \in Seq(CodecStart .. kMax - 1) : q = id_q_[k]
  BY <1>3 DEF ChannelsTyped
<1>b. PICK r : r = ReturnId(q, h)
  OBVIOUS
<1>4. q = id_q_[k] /\ r = ReturnId(q, h)
  BY <1>a, <1>b
<1>5. /\ ctx' = [ctx EXCEPT ![k][h] = Closed] /\ id_q_' = [id_q_ EXCEPT ![k] = r]
      /\ call' = [call EXCEPT ![u] = Idle]
  BY <1>2, <1>4 DEF DestroyChn, SetCtx, SetCall
<1>6. r \in Seq(CodecStart .. kMax - 1)
  BY <1>4, ReturnedId
<1>7. ChannelsTyped'
  BY <1>3, <1>5, <1>6, CodecFacts DEF ChannelsTyped
<1>8. /\ id_q_'[k] = r /\ \A j \in Kinds : j # k => id_q_'[j] = id_q_[j]
      /\ call'[u] = Idle /\ \A v \in Users : v # u => call'[v] = call[v]
      /\ ctx'[k][h] = Closed
      /\ \A j \in Kinds, g \in Handles : <<j, g>> # <<k, h>> => ctx'[j][g] = ctx[j][g]
  BY <1>3, <1>5 DEF ChannelsTyped
<1>9. Idle.pc = "idle" /\ Idle.handle = 0
  BY DEF Idle
<1>10. Phases'
  BY <1>8, <1>9 DEF ChannelsInv, Phases
<1>11. HandleUnique'
  BY <1>3, <1>8, <1>9 DEF HandleUnique
<1>12. \A v \in Users : v # u => ~(call[v].kind = k /\ call[v].handle = h)
  BY <1>1, <1>2, <1>3 DEF HandleUnique
<1>13. HeldIds(k)' = HeldIds(k) \ {h - 1}
  <2>1. ASSUME NEW i \in CodecStart .. kMax - 1 PROVE i \in HeldIds(k)' <=> i \in HeldIds(k) /\ i # h - 1
    <3>1. i + 1 = h <=> i = h - 1
      BY CodecFacts DEF Handles
    <3>2. i + 1 # 0
      BY CodecFacts
    <3> QED
      BY <1>2, <1>8, <1>9, <1>12, <3>1, <3>2 DEF HeldIds
  <2>2. HeldIds(k)' \subseteq CodecStart .. kMax - 1 /\ HeldIds(k) \subseteq CodecStart .. kMax - 1
    BY DEF HeldIds
  <2> QED
    BY <2>1, <2>2
<1>14. ASSUME NEW j \in Kinds, j # k PROVE HeldIds(j)' = HeldIds(j)
  <2>1. \A i \in CodecStart .. kMax - 1 : i + 1 # 0
    BY CodecFacts
  <2> QED
    BY <1>2, <1>8, <1>9, <1>14, <2>1 DEF HeldIds
<1>15. ASSUME NEW j \in Kinds
       PROVE  /\ Distinct(id_q_'[j]) /\ Elems(id_q_'[j]) \cap HeldIds(j)' = {}
              /\ CodecStart .. kMax - 2 \subseteq Elems(id_q_'[j]) \cup HeldIds(j)'
  <2>1. CASE j = k
    <3>1. PICK H, C, x : H = HeldIds(k) /\ C = CodecStart .. kMax - 2 /\ x = h - 1
      OBVIOUS
    <3>2. Distinct(q) /\ Elems(q) \cap H = {} /\ C \subseteq Elems(q) \cup H
      BY <1>3, <1>4, <3>1 DEF IdsKept
    <3>3. x \notin Elems(q)
      <4>1. ASSUME x \in CodecStart .. kMax - 1 PROVE x \in H
        <5>1. x + 1 = h
          BY <3>1, CodecFacts DEF Handles
        <5> QED
          BY <1>2, <3>1, <4>1, <5>1 DEF HeldIds
      <4>2. Elems(q) \subseteq CodecStart .. kMax - 1
        BY ElemsIn
      <4> QED
        BY <3>2, <4>1, <4>2
    <3>4. /\ Elems(q) \subseteq Elems(r) /\ Elems(r) \subseteq Elems(q) \cup {x}
          /\ x \in C => x \in Elems(r)
          /\ Distinct(r)
      BY <1>4, <3>1, <3>2, <3>3, ReturnedId
    <3>5. Elems(r) \cap (H \ {x}) = {} /\ C \subseteq Elems(r) \cup (H \ {x})
      BY <3>2, <3>4
    <3> QED
      BY <2>1, <3>1, <3>4, <3>5, <1>8, <1>13
  <2>2. CASE j # k
    BY <2>2, <1>3, <1>8, <1>14 DEF IdsKept
  <2> QED
    BY <2>1, <2>2
<1>16. ChannelsSafe'
  BY <1>11, <1>15 DEF ChannelsSafe, IdsKept
<1>17. \A v \in Users : v # u /\ call[v].handle # 0 => Of(v)' = Of(v)
  BY <1>5, <1>8, <1>12, OthersSame
<1>18. Created' /\ UnitBeforeEos'
  <2>1. \A v \in Users : v # u /\ call[v].pc # "idle" => call[v].handle # 0
    BY DEF ChannelsInv, Created
  <2> QED
    BY <2>1, <1>8, <1>9, <1>17 DEF ChannelsInv, Created, UnitBeforeEos
<1>19. Balance(Closed) /\ ~Closed.created /\ ~Closed.open
  BY DEF Closed, Balance
<1>20. Conserved' /\ OpenIffCreated'
  BY <1>8, <1>19 DEF ChannelsInv, Conserved, OpenIffCreated
<1> QED
  BY <1>7, <1>10, <1>16, <1>18, <1>20 DEF ChannelsInv

\* What happens to the contexts when a channel that nobody uses is set to c.
LEMMA ContextsSafe ==
  ASSUME ChannelsInv, NEW k \in Kinds, NEW h \in Handles, NEW c \in Contexts,
         ctx' = [ctx EXCEPT ![k][h] = c], Balance(c), c.created => c.open,
         c.open /\ ~c.created => k = "venc" /\ c.jpeg
  PROVE  /\ ctx' \in [Kinds -> [Handles -> Contexts]] /\ ctx'[k][h] = c
         /\ Conserved' /\ OpenIffCreated'
<1>1. ctx \in [Kinds -> [Handles -> Contexts]]
  BY DEF ChannelsInv, ChannelsTyped
<1>2. /\ ctx' \in [Kinds -> [Handles -> Contexts]] /\ ctx'[k][h] = c
      /\ \A j \in Kinds, g \in Handles : <<j, g>> # <<k, h>> => ctx'[j][g] = ctx[j][g]
  BY <1>1
<1>3. Conserved'
  BY <1>2 DEF ChannelsInv, Conserved
<1>4. OpenIffCreated'
  BY <1>2 DEF ChannelsInv, OpenIffCreated
<1> QED
  BY <1>2, <1>3, <1>4

\* GetId gives a handle, and one nobody has.
LEMMA FreshId ==
  ASSUME ChannelsInv, NEW k \in Kinds, id_q_[k] # <<>>
  PROVE  /\ GetId(k) \in Handles
         /\ Tail(id_q_[k]) \in Seq(CodecStart .. kMax - 1)
         /\ inits = 1 => \A v \in Users : <<call[v].kind, call[v].handle>> # <<k, GetId(k)>>
<1>1. PICK q \in Seq(CodecStart .. kMax - 1) : q = id_q_[k] /\ q # <<>>
  BY DEF ChannelsInv, ChannelsTyped
<1>2. PICK x \in CodecStart .. kMax - 1 : x = Head(q) /\ x \in Elems(q) /\ Tail(q) \in Seq(CodecStart .. kMax - 1)
  <2>1. Head(q) \in CodecStart .. kMax - 1 /\ Head(q) \in Elems(q) /\ Tail(q) \in Seq(CodecStart .. kMax - 1)
    BY <1>1, TailElements
  <2> QED
    BY <2>1
<1>3. GetId(k) = x + 1
  BY <1>1, <1>2 DEF GetId
<1>4. x + 1 \in Handles
  BY <1>2, CodecFacts DEF Handles
<1>5. inits = 1 => x \notin HeldIds(k)
  BY <1>1, <1>2 DEF ChannelsInv, ChannelsSafe, IdsKept
<1> QED
  BY <1>1, <1>2, <1>3, <1>4, <1>5 DEF HeldIds

\* A thread that gets a handle gets the channel with it; the contexts of the others
\* stay as they are.
LEMMA NewHandleSafe ==
  ASSUME ChannelsInv, NEW u \in Users, NEW k \in Kinds, call[u].pc = "idle", call[u].handle = 0,
         id_q_[k] # <<>>, inits # 0, UNCHANGED <<inits, state, todo>>,
         id_q_' = [id_q_ EXCEPT ![k] = Tail(@)],
         call' = [call EXCEPT ![u] = [Idle EXCEPT !.kind = k, !.handle = GetId(k)]],
         ctx' \in [Kinds -> [Handles -> Contexts]], ctx'[k][GetId(k)].created,
         \A j \in Kinds, g \in Handles : <<j, g>> # <<k, GetId(k)>> => ctx'[j][g] = ctx[j][g],
         Conserved', OpenIffCreated'
  PROVE  ChannelsInv'
<1>1. PICK h \in Handles : h = GetId(k) /\ Tail(id_q_[k]) \in Seq(CodecStart .. kMax - 1)
  BY FreshId
<1>2. PICK d : d = [Idle EXCEPT !.kind = k, !.handle = h]
  OBVIOUS
<1>3. d \in Calls /\ d.pc = "idle" /\ d.kind = k /\ d.handle = h
  <2>1. h \in 0 .. kMax
    BY CodecFacts DEF Handles
  <2> QED
    BY <1>2, <2>1, CodecFacts DEF Idle, Calls
<1>4. ChannelsTyped
  BY DEF ChannelsInv
<1>5. /\ call'[u] = d /\ \A v \in Users : v # u => call'[v] = call[v]
  BY <1>1, <1>2, <1>4 DEF ChannelsTyped
<1>6. ChannelsTyped'
  <2>1. id_q_' \in [Kinds -> Seq(CodecStart .. kMax - 1)]
    BY <1>1, <1>4 DEF ChannelsTyped
  <2>2. call' \in [Users -> Calls]
    BY <1>1, <1>2, <1>3, <1>4 DEF ChannelsTyped
  <2> QED
    BY <2>1, <2>2, <1>4 DEF ChannelsTyped
<1>7. Phases'
  BY <1>3, <1>5 DEF ChannelsInv, Phases
<1>8. ChannelsSafe'
  BY TakenKept DEF ChannelsSafe
<1>9. ASSUME inits = 1, NEW v \in Users, v # u, call[v].handle # 0 PROVE Of(v)' = Of(v)
  <2>1. call[v].kind \in Kinds /\ call[v].handle \in Handles
    BY <1>9, OwnContext
  <2>2. <<call[v].kind, call[v].handle>> # <<k, GetId(k)>>
    BY <1>9, FreshId
  <2> QED
    BY <1>5, <1>9, <2>1, <2>2 DEF Of
<1>10. Of(u)'.created
  BY <1>1, <1>3, <1>5 DEF Of
<1>11. Created'
  <2>1. ASSUME inits = 1, NEW v \in Users, v # u
        PROVE  /\ call'[v].handle # 0 => Of(v)'.created
               /\ call'[v].pc # "idle" => call'[v].handle # 0
    BY <1>5, <1>9, <2>1 DEF ChannelsInv, Created
  <2>2. Of(u)'.created /\ call'[u].pc = "idle"
    BY <1>3, <1>5, <1>10
  <2> QED
    BY <2>1, <2>2 DEF Created
<1>12. UnitBeforeEos'
  <2>1. ASSUME NEW v \in Users, call'[v].pc \in {"send", "poll"}, ~call'[v].null PROVE ~Of(v)'.eos_sent
    <3>1. v # u /\ call'[v] = call[v] /\ call[v].pc # "idle"
      BY <1>3, <1>5, <2>1
    <3>2. inits = 1 /\ call[v].handle # 0
      BY <3>1 DEF ChannelsInv, Phases, Created
    <3>3. Of(v)' = Of(v)
      BY <1>9, <3>1, <3>2
    <3> QED
      BY <2>1, <3>1, <3>3 DEF ChannelsInv, UnitBeforeEos
  <2> QED
    BY <2>1 DEF UnitBeforeEos
<1> QED
  BY <1>6, <1>7, <1>8, <1>11, <1>12 DEF ChannelsInv

LEMMA CreateChnSafe ==
  ASSUME ChannelsInv, inits # 0, UNCHANGED <<inits, state, todo>>,
         NEW u \in Users, NEW k \in Kinds, NEW jpeg \in BOOLEAN, CreateChn(u, k, jpeg)
  PROVE  ChannelsInv'
<1>1. PICK h \in Handles : h = GetId(k)
  BY FreshId DEF CreateChn
<1>2. PICK c : c = [Closed EXCEPT !.created = TRUE, !.open = TRUE, !.jpeg = jpeg]
  OBVIOUS
<1>3. c \in Contexts /\ c.created /\ c.open /\ Balance(c)
  <2>1. c = [created |-> TRUE, eos_sent |-> FALSE, error |-> FALSE, jpeg |-> jpeg, open |-> TRUE,
             stream |-> 0, pics |-> 0, sent |-> 0, got |-> 0, eos |-> FALSE]
    BY <1>2 DEF Closed
  <2> QED
    BY <2>1 DEF Contexts, Balance
<1>4. ctx' = [ctx EXCEPT ![k][h] = c]
  BY <1>1, <1>2 DEF CreateChn
<1>5. /\ ctx' \in [Kinds -> [Handles -> Contexts]] /\ ctx'[k][h] = c
      /\ Conserved' /\ OpenIffCreated'
  BY <1>3, <1>4, ContextsSafe
<1>6. \A j \in Kinds, g \in Handles : <<j, g>> # <<k, h>> => ctx'[j][g] = ctx[j][g]
  BY <1>4 DEF ChannelsInv, ChannelsTyped
<1>7. /\ call[u].pc = "idle" /\ call[u].handle = 0 /\ id_q_[k] # <<>>
      /\ id_q_' = [id_q_ EXCEPT ![k] = Tail(@)]
      /\ call' = [call EXCEPT ![u] = [Idle EXCEPT !.kind = k, !.handle = GetId(k)]]
  BY DEF CreateChn, SetCall
<1> QED
  BY <1>1, <1>3, <1>5, <1>6, <1>7, NewHandleSafe

LEMMA CreateDuplicatedSafe ==
  ASSUME ChannelsInv, inits # 0, UNCHANGED <<inits, state, todo>>,
         NEW u \in Users, NEW k \in Kinds, CreateDuplicated(u, k)
  PROVE  ChannelsInv'
<1>1. ctx' = ctx /\ ctx' \in [Kinds -> [Handles -> Contexts]]
  BY DEF CreateDuplicated, ChannelsInv, ChannelsTyped
<1>2. Conserved' /\ OpenIffCreated'
  BY <1>1 DEF ChannelsInv, Conserved, OpenIffCreated
<1>3. /\ call[u].pc = "idle" /\ call[u].handle = 0 /\ id_q_[k] # <<>> /\ ctx[k][GetId(k)].created
      /\ id_q_' = [id_q_ EXCEPT ![k] = Tail(@)]
      /\ call' = [call EXCEPT ![u] = [Idle EXCEPT !.kind = k, !.handle = GetId(k)]]
  BY DEF CreateDuplicated, SetCall
<1> QED
  BY <1>1, <1>2, <1>3, NewHandleSafe

\* The id of a channel that could not be created goes to the end of the queue, and
\* is lost when it is that of the last handle.
LEMMA RotatedKept ==
  ASSUME ChannelsInv, inits = 1, NEW k \in Kinds, id_q_[k] # <<>>, UNCHANGED call,
         id_q_' = [id_q_ EXCEPT ![k] = ReturnId(Tail(@), GetId(k))]
  PROVE  HandleUnique' /\ IdsKept'
<1>1. PICK q \in Seq(CodecStart .. kMax - 1) : q = id_q_[k] /\ q # <<>>
  BY DEF ChannelsInv, ChannelsTyped
<1>2. /\ Head(q) \in CodecStart .. kMax - 1 /\ Tail(q) \in Seq(CodecStart .. kMax - 1)
      /\ Elems(q) = Elems(Tail(q)) \cup {Head(q)}
      /\ Distinct(q) => Distinct(Tail(q)) /\ Head(q) \notin Elems(Tail(q))
  BY <1>1, TailElements
<1>3. PICK t \in Seq(CodecStart .. kMax - 1), x \in CodecStart .. kMax - 1 : t = Tail(q) /\ x = Head(q)
  BY <1>2
<1>a. PICK h \in Handles : h = GetId(k) /\ h = x + 1
  BY <1>1, <1>3, FreshId DEF GetId
<1>b. PICK r : r = ReturnId(t, h)
  OBVIOUS
<1>4. h = GetId(k) /\ r = ReturnId(t, h) /\ h = x + 1
  BY <1>a, <1>b
<1>5. HandleUnique /\ IdsKept
  BY DEF ChannelsInv, ChannelsSafe
<1>6. h - 1 = x
  BY <1>4, CodecFacts
<1>7. /\ Elems(t) \subseteq Elems(r) /\ Elems(r) \subseteq Elems(t) \cup {x}
      /\ x \in CodecStart .. kMax - 2 => x \in Elems(r)
      /\ Distinct(t) /\ x \notin Elems(t) => Distinct(r)
  BY <1>4, <1>6, ReturnedId
<1>8. id_q_'[k] = r /\ \A j \in Kinds : j # k => id_q_'[j] = id_q_[j]
  BY <1>1, <1>3, <1>4 DEF ChannelsInv, ChannelsTyped
<1>9. \A j \in Kinds : HeldIds(j)' = HeldIds(j)
  BY DEF HeldIds
<1>10. HandleUnique'
  BY <1>5 DEF HandleUnique
<1>11. ASSUME NEW j \in Kinds
       PROVE  /\ Distinct(id_q_'[j]) /\ Elems(id_q_'[j]) \cap HeldIds(j)' = {}
              /\ CodecStart .. kMax - 2 \subseteq Elems(id_q_'[j]) \cup HeldIds(j)'
  <2>1. CASE j = k
    <3>1. PICK H, C : H = HeldIds(k) /\ C = CodecStart .. kMax - 2
      OBVIOUS
    <3>2. Distinct(q) /\ Elems(q) \cap H = {} /\ C \subseteq Elems(q) \cup H
      BY <1>1, <1>5, <3>1 DEF IdsKept
    <3>3. Distinct(t) /\ x \notin Elems(t) /\ Elems(q) = Elems(t) \cup {x}
      BY <1>2, <1>3, <3>2
    <3>4. x \in C => x \in Elems(r)
      BY <1>7, <3>1
    <3>5. Elems(r) \cap H = {} /\ C \subseteq Elems(r) \cup H
      BY <1>7, <3>2, <3>3, <3>4, Zenon
    <3> QED
      BY <2>1, <1>7, <1>8, <1>9, <3>1, <3>3, <3>5
  <2>2. CASE j # k
    BY <2>2, <1>5, <1>8, <1>9 DEF IdsKept
  <2> QED
    BY <2>1, <2>2
<1> QED
  BY <1>10, <1>11 DEF IdsKept

LEMMA NoHandleSafe ==
  ASSUME ChannelsInv, NEW k \in Kinds, id_q_[k] # <<>>, inits # 0, UNCHANGED <<inits, state, todo, call>>,
         id_q_' = [id_q_ EXCEPT ![k] = ReturnId(Tail(@), GetId(k))],
         ctx' \in [Kinds -> [Handles -> Contexts]],
         \A j \in Kinds, g \in Handles : <<j, g>> # <<k, GetId(k)>> => ctx'[j][g] = ctx[j][g],
         Conserved', OpenIffCreated'
  PROVE  ChannelsInv'
<1>1. ChannelsTyped'
  <2>1. GetId(k) \in Handles /\ Tail(id_q_[k]) \in Seq(CodecStart .. kMax - 1)
    BY FreshId
  <2>2. ReturnId(Tail(id_q_[k]), GetId(k)) \in Seq(CodecStart .. kMax - 1)
    BY <2>1, ReturnedId
  <2> QED
    BY <2>2 DEF ChannelsInv, ChannelsTyped
<1>2. Phases'
  BY DEF ChannelsInv, Phases
<1>3. ChannelsSafe'
  BY RotatedKept DEF ChannelsSafe
<1>4. ASSUME inits = 1, NEW v \in Users, call[v].handle # 0 PROVE Of(v)' = Of(v)
  <2>1. call[v].kind \in Kinds /\ call[v].handle \in Handles
    BY <1>4, OwnContext
  <2>2. <<call[v].kind, call[v].handle>> # <<k, GetId(k)>>
    BY <1>4, FreshId
  <2> QED
    BY <2>1, <2>2 DEF Of
<1>5. Created'
  BY <1>4 DEF ChannelsInv, Created
<1>6. UnitBeforeEos'
  <2>1. ASSUME NEW v \in Users, call[v].pc \in {"send", "poll"}, ~call[v].null PROVE ~Of(v)'.eos_sent
    <3>1. inits = 1 /\ call[v].handle # 0
      BY <2>1 DEF ChannelsInv, Phases, Created
    <3> QED
      BY <1>4, <2>1, <3>1 DEF ChannelsInv, UnitBeforeEos
  <2> QED
    BY <2>1 DEF UnitBeforeEos
<1> QED
  BY <1>1, <1>2, <1>3, <1>5, <1>6 DEF ChannelsInv

LEMMA CreateFailsSafe ==
  ASSUME ChannelsInv, inits # 0, UNCHANGED <<inits, state, todo>>,
         NEW u \in Users, NEW k \in Kinds, CreateFails(u, k)
  PROVE  ChannelsInv'
<1>1. ctx' = ctx /\ ctx' \in [Kinds -> [Handles -> Contexts]]
  BY DEF CreateFails, ChannelsInv, ChannelsTyped
<1>2. Conserved' /\ OpenIffCreated'
  BY <1>1 DEF ChannelsInv, Conserved, OpenIffCreated
<1>3. id_q_[k] # <<>> /\ UNCHANGED call /\ id_q_' = [id_q_ EXCEPT ![k] = ReturnId(Tail(@), GetId(k))]
  BY DEF CreateFails
<1> QED
  BY <1>1, <1>2, <1>3, NoHandleSafe

LEMMA CreateFailsOpenSafe ==
  ASSUME ChannelsInv, inits # 0, UNCHANGED <<inits, state, todo>>, NEW u \in Users, CreateFailsOpen(u)
  PROVE  ChannelsInv'
<1>1. PICK k \in Kinds : k = "venc"
  BY DEF Kinds
<1>2. PICK h \in Handles : h = GetId(k)
  BY <1>1, FreshId DEF CreateFailsOpen
<1>3. PICK c : c = [Closed EXCEPT !.open = TRUE, !.jpeg = TRUE]
  OBVIOUS
<1>4. c \in Contexts /\ ~c.created /\ c.open /\ c.jpeg /\ Balance(c)
  <2>1. c = [created |-> FALSE, eos_sent |-> FALSE, error |-> FALSE, jpeg |-> TRUE, open |-> TRUE,
             stream |-> 0, pics |-> 0, sent |-> 0, got |-> 0, eos |-> FALSE]
    BY <1>3 DEF Closed
  <2> QED
    BY <2>1 DEF Contexts, Balance
<1>5. /\ ctx' = [ctx EXCEPT ![k][h] = c] /\ id_q_[k] # <<>> /\ UNCHANGED call
      /\ id_q_' = [id_q_ EXCEPT ![k] = ReturnId(Tail(@), GetId(k))]
  BY <1>1, <1>2, <1>3 DEF CreateFailsOpen
<1>6. ctx' \in [Kinds -> [Handles -> Contexts]] /\ Conserved' /\ OpenIffCreated'
  BY <1>1, <1>4, <1>5, ContextsSafe
<1>7. \A j \in Kinds, g \in Handles : <<j, g>> # <<k, GetId(k)>> => ctx'[j][g] = ctx[j][g]
  BY <1>2, <1>5 DEF ChannelsInv, ChannelsTyped
<1> QED
  BY <1>5, <1>6, <1>7, NoHandleSafe

\* The driver moves a unit on.
LEMMA DecodeSafe ==
  ASSUME ChannelsInv, UNCHANGED <<inits, state, todo>>, NEW k \in Kinds, NEW h \in Handles, Decode(k, h)
  PROVE  ChannelsInv'
<1>1. PICK o \in Contexts : o = ctx[k][h] /\ Balance(o) /\ (o.created => o.open)
                             /\ (o.open /\ ~o.created => k = "venc" /\ o.jpeg)
  BY DEF ChannelsInv, ChannelsTyped, Conserved, OpenIffCreated
<1>2. o.stream \in Nat /\ o.pics \in Nat /\ o.got \in Nat /\ o.sent \in Nat /\ o.stream > 0
  BY <1>1 DEF Contexts, Decode
<1>3. PICK x \in Nat, y \in Nat : x = o.stream - 1 /\ y = o.pics + 1
  BY <1>2
<1>4. PICK c : c = [o EXCEPT !.stream = x, !.pics = y]
  OBVIOUS
<1>5. /\ c \in Contexts /\ c.created = o.created /\ c.open = o.open /\ c.jpeg = o.jpeg
      /\ c.eos_sent = o.eos_sent /\ c.eos = o.eos /\ c.sent = o.sent /\ c.got = o.got
      /\ c.stream = x /\ c.pics = y
  BY <1>4 DEF Contexts
<1>6. ~o.eos
  BY <1>1, <1>2 DEF Balance
<1>7. Balance(c)
  BY <1>1, <1>2, <1>3, <1>5, <1>6 DEF Balance
<1>8. ctx' = [ctx EXCEPT ![k][h] = c]
  <2>1. ctx' = [ctx EXCEPT ![k][h].stream = @ - 1, ![k][h].pics = @ + 1]
    BY DEF Decode
  <2>2. ctx \in [Kinds -> [Handles -> Contexts]]
    BY DEF ChannelsInv, ChannelsTyped
  <2>3. ctx' = [ctx EXCEPT ![k][h] = [[ctx[k][h] EXCEPT !.stream = @ - 1] EXCEPT !.pics = @ + 1]]
    BY <2>1, <2>2
  <2>4. [[o EXCEPT !.stream = @ - 1] EXCEPT !.pics = @ + 1] = c
    BY <1>3, <1>4 DEF Contexts
  <2> QED
    BY <1>1, <2>3, <2>4
<1>9. /\ ctx' \in [Kinds -> [Handles -> Contexts]] /\ ctx'[k][h] = c
      /\ Conserved' /\ OpenIffCreated'
  BY <1>1, <1>5, <1>7, <1>8, ContextsSafe
<1>10. UNCHANGED <<id_q_, call>>
  BY DEF Decode
<1>11. ChannelsTyped' /\ Phases'
  BY <1>9, <1>10 DEF ChannelsInv, ChannelsTyped, Phases
<1>12. ChannelsSafe'
  BY <1>10 DEF ChannelsInv, ChannelsSafe, HandleUnique, IdsKept, HeldIds
<1>13. \A j \in Kinds, g \in Handles :
         ctx'[j][g].created = ctx[j][g].created /\ ctx'[j][g].eos_sent = ctx[j][g].eos_sent
  <2>1. \A j \in Kinds, g \in Handles : <<j, g>> # <<k, h>> => ctx'[j][g] = ctx[j][g]
    BY <1>8 DEF ChannelsInv, ChannelsTyped
  <2> QED
    BY <1>1, <1>5, <1>9, <2>1
<1>14. ASSUME inits = 1, NEW v \in Users, call[v].handle # 0
       PROVE  Of(v)'.created = Of(v).created /\ Of(v)'.eos_sent = Of(v).eos_sent
  <2>1. call[v].kind \in Kinds /\ call[v].handle \in Handles
    BY <1>14, OwnContext
  <2> QED
    BY <1>10, <1>13, <2>1 DEF Of
<1>15. Created'
  BY <1>10, <1>14 DEF ChannelsInv, Created
<1>16. UnitBeforeEos'
  <2>1. ASSUME NEW v \in Users, call[v].pc \in {"send", "poll"}, ~call[v].null PROVE ~Of(v)'.eos_sent
    <3>1. inits = 1 /\ call[v].handle # 0
      BY <2>1 DEF ChannelsInv, Phases, Created
    <3> QED
      BY <1>14, <2>1, <3>1 DEF ChannelsInv, UnitBeforeEos
  <2> QED
    BY <1>10, <2>1 DEF UnitBeforeEos
<1> QED
  BY <1>9, <1>11, <1>12, <1>15, <1>16 DEF ChannelsInv

LEMMA ChannelSteps ==
  ASSUME ChannelsInv, CodecsUsable, CodecNext, UNCHANGED service
  PROVE  ChannelsInv'
<1>1. state = "ready" /\ UNCHANGED <<inits, state, todo>>
  BY DEF CodecsUsable
<1>2. inits # 0
  BY <1>1 DEF ChannelsInv, Phases
<1>3. ASSUME NEW u \in Users, CreateStep(u) PROVE ChannelsInv'
  <2>1. ASSUME NEW k \in Kinds, NEW jpeg \in BOOLEAN, CreateChn(u, k, jpeg) PROVE ChannelsInv'
    BY <1>1, <1>2, <2>1, CreateChnSafe
  <2>2. ASSUME NEW k \in Kinds, CreateDuplicated(u, k) PROVE ChannelsInv'
    BY <1>1, <1>2, <2>2, CreateDuplicatedSafe
  <2>3. ASSUME NEW k \in Kinds, CreateFails(u, k) PROVE ChannelsInv'
    BY <1>1, <1>2, <2>3, CreateFailsSafe
  <2>4. CASE CreateFailsOpen(u)
    BY <1>1, <1>2, <2>4, CreateFailsOpenSafe
  <2> QED
    BY <1>3, <2>1, <2>2, <2>3, <2>4 DEF CreateStep
<1>4. ASSUME inits = 1, NEW u \in Users, UseStep(u) PROVE ChannelsInv'
  <2>1. CASE DestroyChn(u)
    BY <1>1, <1>4, <2>1, DestroyChnSafe
  <2>2. ASSUME call[u].handle # 0, \E c, d : Effect(u, c, d) PROVE ChannelsInv'
    BY <1>1, <1>4, <2>2, EffectSafe
  <2>3. ASSUME NEW null \in BOOLEAN, Send(u, null) PROVE ChannelsInv'
    <3>1. call[u].handle # 0 /\ SendBegin(u, null, FALSE)
      BY <2>3 DEF Send
    <3> QED
      BY <1>4, <2>2, <3>1, SendBeginEffect
  <2>4. CASE Destroy(u)
    BY <1>4, <2>2, <2>4, DestroyEffect
  <2>5. call[u].pc # "idle" => call[u].handle # 0
    BY <1>4 DEF ChannelsInv, Created
  <2>6. CASE SendLoopEnds(u) \/ NothingToSend(u) \/ UnitAccepted(u) \/ SendFull(u) \/ SendFails(u)
    <3>1. call[u].pc = "send"
      BY <2>6 DEF SendLoopEnds, NothingToSend, UnitAccepted, SendFull, SendFails, MustSend, InLoop
    <3> QED
      BY <1>4, <2>2, <2>5, <2>6, <3>1, SendingEffect
  <2>7. CASE PollFrame(u) \/ PollTimeout(u) \/ PollFails(u)
    <3>1. call[u].pc = "poll"
      BY <2>7 DEF PollFrame, PollTimeout, PollFails
    <3> QED
      BY <1>4, <2>2, <2>5, <2>7, <3>1, PollingEffect
  <2> QED
    BY <1>4, <2>1, <2>3, <2>4, <2>6, <2>7 DEF UseStep, InCall
<1>5. ASSUME NEW k \in Kinds, NEW h \in Handles, Decode(k, h) PROVE ChannelsInv'
  BY <1>1, <1>5, DecodeSafe
<1> QED
  BY <1>3, <1>4, <1>5 DEF CodecNext

\* A step of the service leaves the channels alone.
LEMMA ChannelsFrame ==
  ASSUME ChannelsInv, UNCHANGED codecVars, inits' = inits, Phases'
  PROVE  ChannelsInv'
<1>1. UNCHANGED <<id_q_, ctx, call>>
  BY DEF codecVars
<1>2. ChannelsTyped' /\ Conserved' /\ OpenIffCreated'
  BY <1>1 DEF ChannelsInv, ChannelsTyped, Conserved, OpenIffCreated
<1>3. ChannelsSafe'
  BY <1>1 DEF ChannelsInv, ChannelsSafe, HandleUnique, IdsKept, HeldIds
<1>4. \A u \in Users : Of(u)' = Of(u)
  BY <1>1 DEF Of
<1>5. Created' /\ UnitBeforeEos'
  BY <1>1, <1>4 DEF ChannelsInv, Created, UnitBeforeEos
<1> QED
  BY <1>2, <1>3, <1>5 DEF ChannelsInv

LEMMA StartChannels ==
  ASSUME ChannelsInv, NEW c \in Configs, Start(c)
  PROVE  ChannelsInv'
<1>1. /\ state \in {"new", "failed"} /\ inits' = inits + 1 /\ state' = "up" /\ UNCHANGED <<ctx, call>>
      /\ id_q_' = [k \in Kinds |-> ConfigIds(id_q_[k])]
  BY DEF Start, ServiceStart
<1>2. ChannelsTyped /\ inits \in Nat
  BY DEF ChannelsInv, ChannelsTyped
<1>3. \A u \in Users : call[u].pc = "idle"
  BY <1>1 DEF ChannelsInv, Phases
<1>4. ChannelsTyped'
  <2>1. \A k \in Kinds : ConfigIds(id_q_[k]) \in Seq(CodecStart .. kMax - 1)
    BY <1>2, ConfiguredIds DEF ChannelsTyped
  <2>2. inits' \in Nat
    BY <1>1, <1>2
  <2> QED
    BY <1>1, <1>2, <2>1, <2>2 DEF ChannelsTyped
<1>5. Phases'
  BY <1>1, <1>2, <1>3 DEF Phases
<1>6. inits' = 1 => inits = 0
  BY <1>1, <1>2
<1>7. ChannelsSafe'
  BY <1>1, <1>2, <1>6, ConfiguredKept DEF ChannelsSafe, ChannelsInv
<1>8. inits = 0 => \A u \in Users : call[u].handle = 0
  BY DEF ChannelsInv, Phases
<1>9. Created' /\ UnitBeforeEos'
  BY <1>1, <1>3, <1>6, <1>8 DEF Created, UnitBeforeEos
<1>10. Conserved' /\ OpenIffCreated'
  BY <1>1 DEF ChannelsInv, Conserved, OpenIffCreated
<1> QED
  BY <1>4, <1>5, <1>7, <1>9, <1>10 DEF ChannelsInv

LEMMA ServiceChannels ==
  ASSUME ChannelsInv, Shutdown \/ (DevicesNext /\ UNCHANGED codecVars)
  PROVE  ChannelsInv'
<1>1. CASE Shutdown
  <2>1. UNCHANGED codecVars /\ inits' = inits /\ state' = "down" /\ state # "new"
        /\ \A u \in Users : call[u].pc = "idle"
    BY <1>1 DEF Shutdown, ServiceDestroy
  <2>2. Phases'
    BY <2>1 DEF ChannelsInv, Phases
  <2> QED
    BY <2>1, <2>2, ChannelsFrame
<1>2. CASE DevicesNext /\ UNCHANGED codecVars
  <2>1. CASE ServiceReturns
    <3>1. state \in {"up", "undo", "down"} /\ todo = <<>> /\ todo' = todo /\ inits' = inits
      BY <2>1 DEF ServiceReturns
    <3>2. Phases'
      BY <1>2, <3>1 DEF ChannelsInv, Phases
    <3> QED
      BY <1>2, <3>1, <3>2, ChannelsFrame
  <2>2. CASE CallSucceeds \/ CallFails \/ CallIgnored \/ StopRefused
    <3>1. todo # <<>> /\ inits' = inits /\ (state' = state \/ state' = "undo")
      BY <2>2 DEF CallSucceeds, CallFails, CallIgnored, StopRefused
    <3>2. Phases'
      BY <1>2, <3>1 DEF ChannelsInv, Phases
    <3> QED
      BY <1>2, <3>1, <3>2, ChannelsFrame
  <2>3. CASE \E i \in Ids : \/ VinCaptureFrame(i) \/ GetBufSurf(i) \/ GetBufSurfFails(i)
                            \/ CaptureNoConversion(i) \/ VinCaptureFrameRelease(i)
    <3>1. UNCHANGED <<inits, state, todo>>
      BY <2>3 DEF VinCaptureFrame, GetBufSurf, GetBufSurfFails, CaptureNoConversion, VinCaptureFrameRelease
    <3>2. Phases'
      BY <1>2, <3>1 DEF ChannelsInv, Phases
    <3> QED
      BY <1>2, <3>1, <3>2, ChannelsFrame
  <2> QED
    BY <1>2, <2>1, <2>2, <2>3 DEF DevicesNext
<1> QED
  BY <1>1, <1>2

\* A frame of a sensor is taken, and released on every way but one.
LEMMA CaptureSteps ==
  ASSUME CaptureInv, [MpsNext]_mpsVars
  PROVE  CaptureInv'
<1>1. CASE UNCHANGED <<captured, reader, noconv, cfg>>
  BY <1>1 DEF CaptureInv, FramesReleased, Ids
<1>2. ASSUME NEW c \in Configs, Start(c) PROVE CaptureInv'
  BY <1>2 DEF Start, ServiceStart, CaptureInv, FramesReleased, Ids
<1>3. ASSUME NEW i \in Ids, \/ VinCaptureFrame(i) \/ GetBufSurf(i) \/ GetBufSurfFails(i)
                            \/ CaptureNoConversion(i) \/ VinCaptureFrameRelease(i)
      PROVE  CaptureInv'
  <2>1. cfg' = cfg /\ Ids' = Ids
    BY <1>3 DEF VinCaptureFrame, GetBufSurf, GetBufSurfFails, CaptureNoConversion, VinCaptureFrameRelease, Ids
  <2>2. captured[i] \in Nat /\ noconv[i] \in Nat
    BY DEF CaptureInv
  <2>3. PICK I : I = Ids
    OBVIOUS
  <2>4. /\ captured \in [I -> Nat] /\ noconv \in [I -> Nat] /\ reader \in [I -> {"idle", "surface", "copy"}]
        /\ \A j \in I : captured[j] = noconv[j] + (IF reader[j] = "idle" THEN 0 ELSE 1)
    BY <2>3 DEF CaptureInv, FramesReleased
  <2>5. captured[i] = noconv[i] + (IF reader[i] = "idle" THEN 0 ELSE 1)
    BY <2>3, <2>4
  <2>6. ASSUME NEW x \in Nat, NEW y \in Nat, NEW p \in {"idle", "surface", "copy"},
               captured' = [captured EXCEPT ![i] = x], noconv' = [noconv EXCEPT ![i] = y],
               reader' = [reader EXCEPT ![i] = p], x = y + (IF p = "idle" THEN 0 ELSE 1)
        PROVE  CaptureInv'
    <3>1. \A j \in I : captured'[j] = noconv'[j] + (IF reader'[j] = "idle" THEN 0 ELSE 1)
      BY <2>3, <2>4, <2>6
    <3>2. captured' \in [I -> Nat] /\ noconv' \in [I -> Nat] /\ reader' \in [I -> {"idle", "surface", "copy"}]
      BY <2>4, <2>6
    <3> QED
      BY <2>1, <2>3, <3>1, <3>2 DEF CaptureInv, FramesReleased
  <2>7. captured = [captured EXCEPT ![i] = captured[i]] /\ noconv = [noconv EXCEPT ![i] = noconv[i]]
    BY <2>3, <2>4
  <2>8. CASE VinCaptureFrame(i)
    <3>1. captured' = [captured EXCEPT ![i] = captured[i] + 1] /\ noconv' = noconv
          /\ reader' = [reader EXCEPT ![i] = "surface"] /\ reader[i] = "idle"
      BY <2>8 DEF VinCaptureFrame
    <3>2. captured[i] + 1 \in Nat /\ captured[i] + 1 = noconv[i] + (IF "surface" = "idle" THEN 0 ELSE 1)
      BY <2>2, <2>5, <3>1
    <3> QED
      BY <2>2, <2>6, <2>7, <3>1, <3>2
  <2>9. CASE GetBufSurf(i)
    <3>1. captured' = captured /\ noconv' = noconv /\ reader' = [reader EXCEPT ![i] = "copy"] /\ reader[i] # "idle"
      BY <2>9 DEF GetBufSurf
    <3>2. captured[i] = noconv[i] + (IF "copy" = "idle" THEN 0 ELSE 1)
      BY <2>2, <2>5, <3>1
    <3> QED
      BY <2>2, <2>6, <2>7, <3>1, <3>2
  <2>10. CASE GetBufSurfFails(i) \/ VinCaptureFrameRelease(i)
    <3>1. captured' = [captured EXCEPT ![i] = captured[i] - 1] /\ noconv' = noconv
          /\ reader' = [reader EXCEPT ![i] = "idle"] /\ reader[i] # "idle"
      BY <2>10 DEF GetBufSurfFails, VinCaptureFrameRelease
    <3>2. captured[i] - 1 \in Nat /\ captured[i] - 1 = noconv[i] + (IF "idle" = "idle" THEN 0 ELSE 1)
      BY <2>2, <2>5, <3>1
    <3> QED
      BY <2>2, <2>6, <2>7, <3>1, <3>2
  <2>11. CASE CaptureNoConversion(i)
    <3>1. captured' = captured /\ noconv' = [noconv EXCEPT ![i] = noconv[i] + 1]
          /\ reader' = [reader EXCEPT ![i] = "idle"] /\ reader[i] # "idle"
      BY <2>11 DEF CaptureNoConversion
    <3>2. noconv[i] + 1 \in Nat /\ captured[i] = noconv[i] + 1 + (IF "idle" = "idle" THEN 0 ELSE 1)
      BY <2>2, <2>5, <3>1
    <3> QED
      BY <2>2, <2>6, <2>7, <3>1, <3>2
  <2> QED
    BY <1>3, <2>8, <2>9, <2>10, <2>11
<1>4. CASE Shutdown \/ ServiceReturns \/ CallSucceeds \/ CallFails \/ CallIgnored \/ StopRefused
  <2>1. UNCHANGED <<captured, reader, noconv, cfg>>
    BY <1>4 DEF Shutdown, ServiceDestroy, ServiceReturns, CallSucceeds, CallFails, CallIgnored, StopRefused
  <2> QED
    BY <1>1, <2>1
<1>5. CASE UNCHANGED service \/ UNCHANGED mpsVars
  <2>1. UNCHANGED <<captured, reader, noconv, cfg>>
    BY <1>5 DEF mpsVars
  <2> QED
    BY <1>1, <2>1
<1> QED
  BY <1>2, <1>3, <1>4, <1>5 DEF MpsNext, DevicesNext

LEMMA InitMps == MpsInit => MpsInv
<1> SUFFICES ASSUME MpsInit PROVE MpsInv
  OBVIOUS
<1>1. /\ id_q_ = [k \in Kinds |-> <<>>] /\ ctx = [k \in Kinds |-> [h \in Handles |-> Closed]]
      /\ call = [u \in Users |-> Idle] /\ inits = 0 /\ state = "new" /\ todo = <<>>
  BY DEF MpsInit, ServiceInit, CodecInit
<1>2. <<>> \in Seq(CodecStart .. kMax - 1)
  OBVIOUS
<1>3. ChannelsTyped
  BY <1>1, <1>2, CodecFacts DEF ChannelsTyped
<1>4. Idle.pc = "idle" /\ Idle.handle = 0 /\ Balance(Closed) /\ ~Closed.created /\ ~Closed.open
  BY DEF Idle, Closed, Balance
<1>5. Phases /\ ChannelsSafe /\ Created /\ UnitBeforeEos /\ Conserved /\ OpenIffCreated
  BY <1>1, <1>4 DEF Phases, ChannelsSafe, Created, UnitBeforeEos, Conserved, OpenIffCreated
<1>6. CaptureInv
  <2>1. cfg.sensors = <<>> /\ captured = <<>> /\ reader = <<>> /\ noconv = <<>>
    BY DEF MpsInit, ServiceInit, NoConfig
  <2>2. Ids = {}
    BY <2>1 DEF Ids
  <2> QED
    BY <2>1, <2>2 DEF CaptureInv, FramesReleased
<1> QED
  BY <1>3, <1>5, <1>6 DEF MpsInv, ChannelsInv

LEMMA StepMps == MpsInv /\ [MpsNext]_mpsVars => MpsInv'
<1> SUFFICES ASSUME ChannelsInv, CaptureInv, [MpsNext]_mpsVars PROVE MpsInv'
  BY DEF MpsInv
<1>1. CaptureInv'
  BY CaptureSteps
<1> SUFFICES ChannelsInv'
  BY <1>1 DEF MpsInv
<1>2. ASSUME NEW c \in Configs, Start(c) PROVE ChannelsInv'
  BY <1>2, StartChannels
<1>3. CASE Shutdown \/ (DevicesNext /\ UNCHANGED codecVars)
  BY <1>3, ServiceChannels
<1>4. CASE CodecsUsable /\ CodecNext /\ UNCHANGED service
  BY <1>4, ChannelSteps
<1>5. CASE UNCHANGED mpsVars
  <2>1. UNCHANGED <<codecVars, inits, state, todo, id_q_, call>>
    BY <1>5 DEF mpsVars
  <2>2. Phases'
    BY <2>1 DEF ChannelsInv, Phases
  <2> QED
    BY <2>1, <2>2, ChannelsFrame
<1> QED
  BY <1>2, <1>3, <1>4, <1>5 DEF MpsNext

\* The channels of the CE3226 service are neither shared nor lost whatever driver
\* calls fail, the last handle excepted, all units of a stream come out before OnEos
\* is called, and captured frames are released, for any number of threads, channels,
\* units and sensors.
THEOREM UnitsAreKept == MpsSpec => []UnitsKept
<1>1. MpsInv => UnitsKept
  <2> SUFFICES ASSUME ChannelsInv, CaptureInv PROVE UnitsKept
    BY DEF MpsInv
  <2>1. ASSUME NEW k \in Kinds, NEW h \in Handles, ctx[k][h].eos PROVE ctx[k][h].got = ctx[k][h].sent
    <3>1. PICK o \in Contexts : o = ctx[k][h] /\ Balance(o) /\ o.eos
      BY <2>1 DEF ChannelsInv, ChannelsTyped, Conserved
    <3>2. o.got \in Nat /\ o.sent = o.got + 0 + 0
      BY <3>1 DEF Balance, Contexts
    <3> QED
      BY <3>1, <3>2
  <2> QED
    BY <2>1 DEF UnitsKept, ChannelsInv, CaptureInv, AllFramesBeforeEos
<1> QED
  BY <1>1, InitMps, StepMps, PTL DEF MpsSpec
====
