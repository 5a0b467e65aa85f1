--------------------------- MODULE DecoderProofs ---------------------------
(***************************************************************************)
(* Proofs about Decoder for streams of any length and any picture sizes,   *)
(* and about Model for any description of a model, any shapes of the user  *)
(* and of the packages, and any number of packages.                        *)
(***************************************************************************)
EXTENDS Decoder, Model, SublistsProofs

USE DEF app, flags, geometry, codec, seen

-----------------------------------------------------------------------------
(* Packets and lists of them *)

LEMMA LargestSize ==
  /\ JpegMaxSize \in Sizes /\ NoPacket \in Packets
  /\ Sizes \subseteq Nat /\ 0 \notin Sizes /\ MaxPackets \in Nat
<1>1. JpegMaxSize \in Sizes
  BY DecoderConstants DEF JpegMaxSize
<1> QED
  BY <1>1, DecoderConstants DEF NoPacket, Packets

LEMMA PacketNumber ==
  ASSUME NEW x \in Packets \cup {Eos}
  PROVE  /\ x.n \in Nat
         /\ x # Eos => x \in Packets /\ x.n >= 1 /\ x.size \in Sizes
         /\ x = Eos => x.n = 0
  BY DecoderConstants DEF Packets, Eos

LEMMA FrameNumber ==
  ASSUME NEW p \in Packets, NEW ok \in BOOLEAN
  PROVE  Filled(p, ok).n = p.n /\ Filled(p, ok) \in Frames
  BY DEF Filled, Frames

LEMMA DeliveredNumber == \A x \in Frames : x.n \in Nat
<1> SUFFICES ASSUME NEW q \in Packets, NEW ok \in BOOLEAN
             PROVE  Filled(q, ok).n \in Nat
  BY DEF Frames
<1> QED
  BY FrameNumber, LargestSize DEF Packets

-----------------------------------------------------------------------------
(* What the parts of the invariant look at *)

LEMMA NumberedFrame ==
  ASSUME Numbered, UNCHANGED <<sending, nsent, work, delivered>>, apc' # "send" \/ apc = "send"
  PROVE  Numbered'
  BY DEF Numbered

LEMMA OrderFrame ==
  ASSUME FramesInOrder, UNCHANGED delivered
  PROVE  FramesInOrder'
  BY DEF FramesInOrder

\* The library takes one entry of its work, and may deliver it.
LEMMA WorkTaken ==
  ASSUME TypeOK, Numbered, FramesInOrder, UNCHANGED <<apc, sending, nsent>>,
         work # <<>>, work' = Tail(work),
         \/ UNCHANGED delivered
         \/ /\ Head(work) # Eos
            /\ \E ok \in BOOLEAN : delivered' = Append(delivered, Filled(Head(work), ok))
  PROVE  /\ Numbered' /\ FramesInOrder'
         /\ work' \in Seq(Packets \cup {Eos})
         /\ delivered' \in Seq(Frames)
<1>1. work \in Seq(Packets \cup {Eos}) /\ delivered \in Seq(Frames)
  BY DEF TypeOK
<1>2. /\ work' \in Seq(Packets \cup {Eos}) /\ Head(work) = work[1] /\ 1 \in DOMAIN work
      /\ Head(work) \in Packets \cup {Eos}
      /\ \A i \in DOMAIN work' : /\ i \in Nat /\ i >= 1 /\ i + 1 \in DOMAIN work
                                 /\ work'[i] = work[i + 1]
  BY <1>1, TailWork
<1>3. /\ \A i \in DOMAIN work' : work'[i].n <= nsent
      /\ \A i, j \in DOMAIN work' :
           i < j /\ work'[j] # Eos => work'[i].n < work'[j].n
  <2>1. \A i \in DOMAIN work' : work'[i].n <= nsent
    BY <1>2 DEF Numbered
  <2>2. ASSUME NEW i \in DOMAIN work', NEW j \in DOMAIN work', i < j, work'[j] # Eos
        PROVE  work'[i].n < work'[j].n
    <3>1. i + 1 \in DOMAIN work /\ j + 1 \in DOMAIN work /\ i + 1 < j + 1
          /\ work'[i] = work[i + 1] /\ work'[j] = work[j + 1]
      BY <1>2, <2>2
    <3> QED
      BY <3>1, <2>2 DEF Numbered
  <2> QED
    BY <2>1, <2>2
<1>4. CASE UNCHANGED delivered
  <2>1. \A i \in DOMAIN delivered, j \in DOMAIN work' :
          work'[j] # Eos => delivered[i].n < work'[j].n
    BY <1>2 DEF Numbered
  <2> QED
    BY <1>1, <1>2, <1>3, <1>4, <2>1, OrderFrame DEF Numbered
<1>5. ASSUME Head(work) # Eos, NEW ok \in BOOLEAN,
             delivered' = Append(delivered, Filled(Head(work), ok))
      PROVE  Numbered' /\ FramesInOrder' /\ delivered' \in Seq(Frames)
  <2> DEFINE L == Len(delivered')
  <2>1. Head(work) \in Packets
    BY <1>2, <1>5
  <2>2. Filled(Head(work), ok).n = Head(work).n /\ Filled(Head(work), ok) \in Frames
    BY <2>1, <1>5, FrameNumber
  <2>3. /\ delivered' \in Seq(Frames) /\ DOMAIN delivered' = DOMAIN delivered \cup {L}
        /\ delivered'[L] = Filled(Head(work), ok) /\ L \in Nat
        /\ \A i \in DOMAIN delivered :
             delivered'[i] = delivered[i] /\ i \in Nat /\ i < L
    BY <1>1, <1>5, <2>2, AppendWork
  <2>4. /\ delivered'[L].n = work[1].n /\ work[1].n <= nsent /\ work[1] # Eos
        /\ \A i \in DOMAIN delivered : delivered'[i].n < work[1].n
    BY <1>2, <1>5, <2>2, <2>3 DEF Numbered
  <2>5. FramesInOrder'
    <3> SUFFICES ASSUME NEW i \in DOMAIN delivered', NEW j \in DOMAIN delivered', i < j
                 PROVE  delivered'[i].n < delivered'[j].n
      BY DEF FramesInOrder
    <3>1. CASE j = L
      <4>1. i \in DOMAIN delivered
        BY <3>1, <2>3
      <4> QED
        BY <3>1, <4>1, <2>4
    <3>2. CASE j # L
      <4>1. j \in DOMAIN delivered /\ j \in Nat /\ j < L
        BY <3>2, <2>3
      <4>2. ASSUME i = L PROVE FALSE
        <5>1. L \in Nat /\ L < j
          BY <4>2, <2>3
        <5> HIDE DEF L
        <5> QED
          BY <5>1, <4>1
      <4> QED
        BY <4>1, <4>2, <2>3 DEF FramesInOrder
    <3> QED
      BY <3>1, <3>2
  <2>6. \A i \in DOMAIN delivered' : delivered'[i].n <= nsent
    <3>1. \A i \in DOMAIN delivered : delivered'[i].n <= nsent
      BY <2>3 DEF Numbered
    <3> QED
      BY <2>3, <2>4, <3>1
  <2>7. ASSUME NEW i \in DOMAIN delivered', NEW j \in DOMAIN work', work'[j] # Eos
        PROVE  delivered'[i].n < work'[j].n
    <3>1. /\ j + 1 \in DOMAIN work /\ work'[j] = work[j + 1] /\ 1 < j + 1
          /\ 1 \in DOMAIN work
      BY <1>2, <2>7
    <3>2. work[1].n < work'[j].n
      BY <3>1, <2>7 DEF Numbered
    <3>3. CASE i \in DOMAIN delivered
      BY <3>1, <3>3, <2>3, <2>7 DEF Numbered
    <3> QED
      BY <3>2, <3>3, <2>3, <2>4
  <2> QED
    BY <1>3, <2>3, <2>5, <2>6, <2>7 DEF Numbered
<1> QED
  BY <1>2, <1>4, <1>5
-----------------------------------------------------------------------------
LEMMA InitStream == Init => StreamInv
<1> SUFFICES ASSUME Init PROVE StreamInv
  OBVIOUS
<1>1. TypeOK
  <2>1. /\ platform \in Platforms /\ params \in Params /\ sending \in Packets
        /\ nsent \in 0 .. MaxPackets
    BY LargestSize DEF Init
  <2>2. /\ created_ \in BOOLEAN /\ eos_sent_ \in BOOLEAN /\ error_flag_ \in BOOLEAN
        /\ configured \in BOOLEAN /\ halted \in BOOLEAN /\ gaveup \in BOOLEAN
        /\ crashed \in BOOLEAN /\ errors \in BOOLEAN
    BY DEF Init
  <2>3. work \in Seq(Packets \cup {Eos}) /\ delivered \in Seq(Frames)
    BY DEF Init
  <2> QED
    BY <2>1, <2>2, <2>3 DEF Init, TypeOK, DECODE_MAX_TRY_SEND_TIME
<1>2. Numbered /\ FramesInOrder /\ PromiseThere /\ DestroyDrains /\ SequenceCovered
  BY DEF Init, Numbered, FramesInOrder, PromiseThere, DestroyDrains, SequenceCovered
<1>3. EosOnce
  BY DEF Init, EosOnce, EosReported
<1> QED
  BY <1>1, <1>2, <1>3 DEF StreamInv

\* Steps of the application that send nothing.
LEMMA AppStep ==
  ASSUME StreamInv,
         \/ Refused \/ \E accepted \in BOOLEAN : Create(accepted)
         \/ \E s \in Sizes : SendStream(s)
         \/ SendTimeout \/ SendFailed \/ DestroyBegin
  PROVE  StreamInv'
<1> USE DEF StreamInv, PromiseThere, DestroyDrains
<1>1. CASE Refused
  <2> USE <1>1 DEF Refused
  <2>1. TypeOK'
    BY DEF TypeOK
  <2>2. Numbered' /\ FramesInOrder'
    BY NumberedFrame, OrderFrame
  <2>3. EosOnce' /\ SequenceCovered'
    BY DEF EosOnce, EosReported, SequenceCovered
  <2> QED
    BY <2>1, <2>2, <2>3
<1>2. ASSUME NEW accepted \in BOOLEAN, Create(accepted) PROVE StreamInv'
  <2> USE <1>2 DEF Create, ResetFlags
  <2>1. max_width' \in {0} \cup Sizes
    BY LargestSize DEF TypeOK, Params
  <2>2. configured' \in BOOLEAN /\ created_' \in BOOLEAN /\ eos_sent_' \in BOOLEAN
        /\ error_flag_' \in BOOLEAN
    OBVIOUS
  <2>3. TypeOK'
    BY <2>1, <2>2 DEF TypeOK
  <2>4. Numbered' /\ FramesInOrder'
    BY NumberedFrame, OrderFrame
  <2>5. EosOnce' /\ SequenceCovered'
    BY DEF EosOnce, EosReported, SequenceCovered
  <2> QED
    BY <2>3, <2>4, <2>5
<1>3. ASSUME NEW s \in Sizes, SendStream(s) PROVE StreamInv'
  <2> USE <1>3 DEF SendStream
  <2>1. sending' \in Packets
    BY LargestSize DEF Packets, TypeOK
  <2>2. TypeOK'
    BY <2>1 DEF TypeOK, DECODE_MAX_TRY_SEND_TIME
  <2>3. Numbered' /\ FramesInOrder'
    BY OrderFrame DEF Numbered
  <2>4. EosOnce' /\ SequenceCovered'
    BY DEF EosOnce, EosReported, SequenceCovered
  <2> QED
    BY <2>2, <2>3, <2>4
<1>4. CASE SendTimeout
  <2> USE <1>4 DEF SendTimeout
  <2>1. TypeOK'
    BY DEF TypeOK, DECODE_MAX_TRY_SEND_TIME
  <2>2. Numbered' /\ FramesInOrder'
    BY NumberedFrame, OrderFrame
  <2>3. EosOnce' /\ SequenceCovered'
    BY DEF EosOnce, EosReported, SequenceCovered
  <2> QED
    BY <2>1, <2>2, <2>3
<1>5. CASE SendFailed
  <2> USE <1>5 DEF SendFailed, BadStream370, BadStream590
  <2>0. errors' \in BOOLEAN
    BY DEF TypeOK
  <2>1. TypeOK'
    BY <2>0 DEF TypeOK, DECODE_MAX_TRY_SEND_TIME
  <2>2. Numbered' /\ FramesInOrder'
    BY NumberedFrame, OrderFrame
  <2>3. EosOnce' /\ SequenceCovered'
    BY DEF EosOnce, EosReported, SequenceCovered
  <2> QED
    BY <2>1, <2>2, <2>3
<1>6. CASE DestroyBegin
  <2> USE <1>6 DEF DestroyBegin
  <2>1. TypeOK'
    BY DEF TypeOK
  <2>2. Numbered' /\ FramesInOrder'
    BY NumberedFrame, OrderFrame
  <2>3. EosOnce' /\ SequenceCovered'
    BY DEF EosOnce, EosReported, SequenceCovered
  <2> QED
    BY <2>1, <2>2, <2>3
<1> QED
  BY <1>1, <1>2, <1>3, <1>4, <1>5, <1>6

\* An entry joins the library's work: a packet with the next number, or the end
\* of the stream.
LEMMA WorkJoined ==
  ASSUME TypeOK, Numbered, NEW x \in Packets \cup {Eos}, work' = Append(work, x),
         UNCHANGED delivered, nsent' \in Nat, nsent <= nsent',
         x # Eos => x.n = nsent + 1 /\ nsent' = nsent + 1,
         apc' # "send"
  PROVE  Numbered' /\ work' \in Seq(Packets \cup {Eos})
<1> DEFINE L == Len(work')
<1>1. /\ work \in Seq(Packets \cup {Eos}) /\ nsent \in Nat
      /\ delivered \in Seq(Frames)
  BY LargestSize DEF TypeOK
<1>2. /\ work' \in Seq(Packets \cup {Eos}) /\ DOMAIN work' = DOMAIN work \cup {L}
      /\ work'[L] = x /\ L \in Nat
      /\ \A i \in DOMAIN work : work'[i] = work[i] /\ i \in Nat /\ i < L
  BY <1>1, AppendWork
<1>3. x.n \in Nat /\ x.n <= nsent' /\ \A i \in DOMAIN work : work[i].n \in Nat
  BY <1>1, PacketNumber
<1>4. \A i \in DOMAIN work' : work'[i].n <= nsent'
  BY <1>1, <1>2, <1>3 DEF Numbered
<1>5. ASSUME NEW i \in DOMAIN work', NEW j \in DOMAIN work', i < j, work'[j] # Eos
      PROVE  work'[i].n < work'[j].n
  <2>1. i # L
    <3> SUFFICES ASSUME i = L PROVE FALSE
      OBVIOUS
    <3>1. j # L => j \in Nat /\ j < L
      BY <1>2
    <3>2. L \in Nat /\ L < j
      BY <1>2, <1>5
    <3> HIDE DEF L
    <3> QED
      BY <3>1, <3>2
  <2>2. i \in DOMAIN work /\ work'[i] = work[i]
    BY <2>1, <1>2
  <2>3. CASE j = L
    BY <2>2, <2>3, <1>1, <1>2, <1>3, <1>5 DEF Numbered
  <2>4. CASE j # L
    BY <2>2, <2>4, <1>2, <1>5 DEF Numbered
  <2> QED
    BY <2>3, <2>4
<1>6. \A i \in DOMAIN delivered : delivered[i].n \in Nat /\ delivered[i].n <= nsent
  <2>1. \A i \in DOMAIN delivered : delivered[i].n \in Nat
    BY <1>1, DeliveredNumber
  <2> QED
    BY <2>1 DEF Numbered
<1>7. ASSUME NEW i \in DOMAIN delivered, NEW j \in DOMAIN work', work'[j] # Eos
      PROVE  delivered[i].n < work'[j].n
  BY <1>1, <1>2, <1>3, <1>6, <1>7 DEF Numbered
<1> QED
  BY <1>1, <1>2, <1>4, <1>5, <1>6, <1>7 DEF Numbered
LEMMA SendAcceptedStep ==
  ASSUME StreamInv, SendAccepted
  PROVE  StreamInv'
<1> USE DEF StreamInv, PromiseThere, DestroyDrains, SendAccepted
<1>1. sending \in Packets /\ sending.n = nsent + 1 /\ nsent \in Nat /\ sending # Eos
      /\ sending.n \in 0 .. MaxPackets
  <2>1. sending \in Packets /\ sending.n = nsent + 1 /\ nsent \in Nat
    BY LargestSize DEF TypeOK, Numbered
  <2> QED
    BY <2>1, LargestSize DEF Packets, Eos
<1>2. Numbered' /\ work' \in Seq(Packets \cup {Eos})
  <2>1. /\ sending \in Packets \cup {Eos} /\ work' = Append(work, sending)
        /\ delivered' = delivered /\ nsent' = nsent + 1 /\ nsent <= nsent' /\ nsent' \in Nat
        /\ apc' # "send"
    BY <1>1
  <2> QED
    BY <1>1, <2>1, WorkJoined
<1>3. TypeOK'
  BY <1>1, <1>2 DEF TypeOK, DECODE_MAX_TRY_SEND_TIME
<1>4. EosOnce'
  <2>1. \A i \in DOMAIN work : work[i] # Eos
    BY DEF EosOnce
  <2>2. \A i \in DOMAIN work' : work'[i] # Eos
    BY <2>1, <1>1, AppendWork DEF TypeOK
  <2> QED
    BY <2>2 DEF EosOnce, EosReported
<1>5. FramesInOrder' /\ SequenceCovered'
  BY OrderFrame DEF SequenceCovered
<1> QED
  BY <1>2, <1>3, <1>4, <1>5

\* The end of the stream is sent, by the application or by Destroy.
LEMMA SetEosStep ==
  ASSUME StreamInv,
         \E ok \in BOOLEAN : SendEos(ok) \/ DestroySendEos(ok)
  PROVE  StreamInv'
<1> USE DEF StreamInv, PromiseThere, DestroyDrains
<1>1. PICK ok \in BOOLEAN :
        /\ SetEos(ok) /\ ~eos_sent_
        /\ \/ apc = "open" /\ apc' = "open"
           \/ apc = "destroy" /\ apc' = "waiteos"
        /\ UNCHANGED <<platform, params, tries, sending, nsent, created_, error_flag_,
                       geometry, cpc, cursize, halted, seen, crashed, ended>>
  BY DEF SendEos, DestroySendEos, EosOnce
<1>2. /\ eos_sent_' = TRUE /\ eos_promise_' = "unset"
      /\ work' = IF ok THEN Append(work, Eos) ELSE work
      /\ gaveup' \in BOOLEAN
  BY <1>1 DEF SetEos, TypeOK
<1>3. Numbered' /\ work' \in Seq(Packets \cup {Eos})
  <2>1. CASE ok
    <3>1. /\ work' = Append(work, Eos) /\ delivered' = delivered /\ nsent' = nsent
          /\ nsent \in Nat /\ apc' # "send"
      BY <1>1, <1>2, <2>1, LargestSize DEF TypeOK
    <3> QED
      BY <3>1, WorkJoined
  <2>2. CASE ~ok
    BY <1>1, <1>2, <2>2, NumberedFrame DEF TypeOK
  <2> QED
    BY <2>1, <2>2
<1>4. TypeOK'
  BY <1>1, <1>2, <1>3 DEF TypeOK
<1>5. EosOnce'
  <2>1. (\A i \in DOMAIN work : work[i] # Eos) /\ ~EosReported
    BY <1>1 DEF EosOnce
  <2>2. \A i \in DOMAIN work' : work'[i] = Eos => i = Len(work')
    <3>1. CASE ok
      BY <2>1, <3>1, <1>2, AppendWork DEF TypeOK
    <3>2. CASE ~ok
      BY <2>1, <3>2, <1>2
    <3> QED
      BY <3>1, <3>2
  <2>3. ~EosReported'
    BY <1>1, <2>1 DEF EosReported
  <2> QED
    BY <2>2, <2>3, <1>1, <1>2 DEF EosOnce, EosReported
<1>6. FramesInOrder' /\ SequenceCovered'
  BY <1>1, OrderFrame DEF SequenceCovered
<1> QED
  BY <1>1, <1>3, <1>4, <1>5, <1>6

LEMMA DestroyStep ==
  ASSUME StreamInv, DestroyWait \/ DestroyJoin
  PROVE  StreamInv'
<1> USE DEF StreamInv, PromiseThere, DestroyDrains
<1>1. CASE DestroyWait
  <2> USE <1>1 DEF DestroyWait
  <2>1. TypeOK'
    BY DEF TypeOK
  <2>2. Numbered' /\ FramesInOrder'
    BY NumberedFrame, OrderFrame
  <2>3. EosOnce' /\ SequenceCovered'
    BY DEF EosOnce, EosReported, SequenceCovered
  <2> QED
    BY <2>1, <2>2, <2>3
<1>2. CASE DestroyJoin
  <2> USE <1>2 DEF DestroyJoin, ResetFlags
  <2>0. /\ created_' \in BOOLEAN /\ eos_sent_' \in BOOLEAN /\ error_flag_' \in BOOLEAN
        /\ halted' \in BOOLEAN /\ work' \in Seq(Packets \cup {Eos})
        /\ ended' \in {"no", "drained", "error", "early"}
    <3>1. /\ created_' = FALSE /\ eos_sent_' = FALSE /\ error_flag_' = FALSE
          /\ halted' = TRUE /\ work' = <<>>
      OBVIOUS
    <3>2. ended' \in {"no", "drained", "error", "early"}
      OBVIOUS
    <3>3. work' \in Seq(Packets \cup {Eos})
      BY <3>1
    <3> QED
      BY <3>1, <3>2, <3>3
  <2>1. TypeOK'
    BY <2>0 DEF TypeOK
  <2>2. Numbered' /\ FramesInOrder'
    BY OrderFrame DEF Numbered
  <2>3. EosOnce'
    BY DEF EosOnce, EosReported
  <2>4. SequenceCovered'
    BY DEF SequenceCovered
  <2>5. ended' # "early"
    BY DEF EosOnce, EosReported
  <2> QED
    BY <2>1, <2>2, <2>3, <2>4, <2>5
<1> QED
  BY <1>1, <1>2

-----------------------------------------------------------------------------
(* The callback thread *)

\* What an event finds: a decoder that is open and has not reported its end.
LEMMA AtWork ==
  ASSUME StreamInv, Running
  PROVE  /\ work # <<>> /\ Head(work) \in Packets \cup {Eos}
         /\ cpc = "idle" /\ ~EosReported /\ apc \notin {"start", "closed"}
         /\ Head(work) # Eos => Head(work).size \in Sizes
<1>1. work # <<>> /\ Head(work) \in Packets \cup {Eos}
  BY TailWork DEF StreamInv, TypeOK, Running
<1> QED
  BY <1>1, PacketNumber DEF StreamInv, EosOnce, Running

\* A packet leaves the library; its end of the stream stays where it is.
LEMMA EosBehind ==
  ASSUME StreamInv, Running, work' = Tail(work),
         UNCHANGED <<apc, eos_sent_, eos_promise_, cpc, eoscalls>>,
         error_flag_ => error_flag_'
  PROVE  EosOnce'
<1>1. /\ \A i \in DOMAIN work' : /\ i + 1 \in DOMAIN work /\ work'[i] = work[i + 1]
                                 /\ i + 1 = Len(work) => i = Len(work')
  BY TailWork DEF StreamInv, TypeOK, Running
<1>2. ~EosReported /\ ~EosReported' /\ apc \notin {"start", "closed"}
  BY AtWork DEF EosReported
<1>3. \A i \in DOMAIN work' : work'[i] = Eos => i = Len(work') /\ eos_promise_ = "unset"
  BY <1>1 DEF StreamInv, EosOnce
<1>4. ~eos_sent_ => \A i \in DOMAIN work' : work'[i] # Eos
  BY <1>1, <1>2 DEF StreamInv, EosOnce
<1> QED
  BY <1>2, <1>3, <1>4 DEF StreamInv, EosOnce, EosReported

LEMMA SequenceStep ==
  ASSUME StreamInv, NEW accepted \in BOOLEAN, ReceiveSequence(accepted)
  PROVE  StreamInv'
<1> DEFINE s == Head(work).size
<1> USE DEF StreamInv, PromiseThere, DestroyDrains
<1>1. s \in Sizes /\ apc \notin {"start", "closed"} /\ ~EosReported
  BY AtWork DEF ReceiveSequence
<1>2. /\ cursize' = s /\ receive_seq_time_' = receive_seq_time_ + 1
      /\ UNCHANGED <<platform, params, app, created_, eos_sent_, eos_promise_, cpc, work,
                     delivered, eoscalls, lost, gaveup, crashed, ended>>
  BY DEF ReceiveSequence
<1>3. /\ error_flag_' = error_flag_ \/ error_flag_' = TRUE
      /\ errors' = errors \/ errors' = TRUE
      /\ halted' = halted \/ halted' = TRUE
      /\ (configured' = configured \/ configured' = accepted)
      /\ max_width' \in {max_width, s}
      /\ receive_seq_time_ > 0 /\ ~error_flag_' => s <= max_width'
  BY DEF ReceiveSequence, Fail, Fits
<1>4. TypeOK'
  <2>1. error_flag_' \in BOOLEAN /\ errors' \in BOOLEAN /\ halted' \in BOOLEAN
        /\ configured' \in BOOLEAN
    BY <1>3 DEF TypeOK
  <2>2. max_width' \in {0} \cup Sizes /\ cursize' \in {0} \cup Sizes
        /\ receive_seq_time_' \in Nat
    BY <1>1, <1>2, <1>3 DEF TypeOK
  <2> QED
    BY <1>2, <2>1, <2>2 DEF TypeOK
<1>5. Numbered' /\ FramesInOrder'
  BY <1>2, NumberedFrame, OrderFrame
<1>6. EosOnce'
  BY <1>1, <1>2, <1>3 DEF EosOnce, EosReported
<1>7. SequenceCovered'
  BY <1>2, <1>3 DEF SequenceCovered, TypeOK
<1> QED
  BY <1>2, <1>4, <1>5, <1>6, <1>7

LEMMA FrameStep ==
  ASSUME StreamInv,
         \/ FrameNoSurface \/ FrameWrongMemory
         \/ \E ok \in BOOLEAN : FrameDelivered(ok)
         \/ HandleStreamCorrupt \/ HandleStreamNotSupport
  PROVE  StreamInv'
<1> USE DEF StreamInv, PromiseThere, DestroyDrains
<1>1. /\ Running /\ Head(work) # Eos /\ work' = Tail(work)
      /\ UNCHANGED <<platform, params, app, created_, eos_sent_, eos_promise_, geometry,
                     cpc, cursize, eoscalls, gaveup, crashed, ended>>
      /\ error_flag_' = error_flag_ \/ error_flag_' = TRUE
      /\ errors' = errors \/ errors' = TRUE
      /\ halted' = halted \/ halted' = TRUE
      /\ lost' \in {lost, lost + 1}
      /\ \/ UNCHANGED delivered
         \/ \E ok \in BOOLEAN : delivered' = Append(delivered, Filled(Head(work), ok))
  BY DEF FrameReady, FrameNoSurface, FrameWrongMemory, FrameDelivered,
     HandleStreamCorrupt, HandleStreamNotSupport, Fail
<1>2. /\ Numbered' /\ FramesInOrder'
      /\ work' \in Seq(Packets \cup {Eos}) /\ delivered' \in Seq(Frames)
  BY <1>1, AtWork, WorkTaken
<1>3. TypeOK'
  <2>1. error_flag_' \in BOOLEAN /\ errors' \in BOOLEAN /\ halted' \in BOOLEAN
    BY <1>1 DEF TypeOK
  <2>2. lost' \in Nat
    BY <1>1 DEF TypeOK
  <2> QED
    BY <1>1, <1>2, <2>1, <2>2 DEF TypeOK
<1>4. EosOnce'
  BY <1>1, EosBehind
<1>5. SequenceCovered'
  BY <1>1 DEF SequenceCovered
<1> QED
  BY <1>1, <1>2, <1>3, <1>4, <1>5

LEMMA EosStep ==
  ASSUME StreamInv, OnEos \/ CallOnEos
  PROVE  StreamInv'
<1> USE DEF StreamInv, PromiseThere, DestroyDrains
<1>1. CASE OnEos
  <2> USE <1>1 DEF OnEos
  <2>1. Len(work) = 1 /\ eos_promise_ = "unset" /\ eoscalls = 0 /\ eos_sent_
    <3>1. work[1] = Eos /\ 1 \in DOMAIN work
      BY AtWork, TailWork DEF TypeOK
    <3>2. 1 = Len(work) /\ ~EosReported /\ eos_promise_ = "unset" /\ apc # "closed"
      BY <3>1, AtWork DEF EosOnce
    <3> QED
      BY <3>1, <3>2 DEF EosOnce, EosReported, TypeOK
  <2>2. work' = <<>> /\ crashed' = FALSE /\ eos_promise_' = "set" /\ cpc' = "eos"
    <3>1. work \in Seq(Packets \cup {Eos}) /\ work # <<>>
      BY AtWork DEF TypeOK
    <3> QED
      BY <2>1, <3>1, TailWork
  <2>3. /\ Numbered' /\ FramesInOrder' /\ work' \in Seq(Packets \cup {Eos})
    BY AtWork, WorkTaken
  <2>4. TypeOK'
    BY <2>2, <2>3 DEF TypeOK
  <2>5. EosOnce'
    BY <2>1, <2>2, AtWork DEF EosOnce, EosReported
  <2>6. SequenceCovered'
    BY DEF SequenceCovered
  <2> QED
    BY <2>2, <2>3, <2>4, <2>5, <2>6
<1>2. CASE CallOnEos
  <2> USE <1>2 DEF CallOnEos
  <2>1. TypeOK' /\ EosOnce'
    BY DEF EosOnce, EosReported, TypeOK
  <2>2. Numbered' /\ FramesInOrder' /\ SequenceCovered'
    BY NumberedFrame, OrderFrame DEF SequenceCovered
  <2> QED
    BY <2>1, <2>2
<1> QED
  BY <1>1, <1>2

-----------------------------------------------------------------------------
LEMMA StreamStep == StreamInv /\ [Next]_vars => StreamInv'
<1> SUFFICES ASSUME StreamInv, [Next]_vars PROVE StreamInv'
  OBVIOUS
<1>1. CASE UNCHANGED vars
  BY <1>1 DEF vars, StreamInv, TypeOK, Numbered, FramesInOrder, EosOnce, EosReported,
     PromiseThere, DestroyDrains, SequenceCovered
<1>2. CASE Next
  BY <1>2, AppStep, SendAcceptedStep, SetEosStep, DestroyStep, SequenceStep, FrameStep,
     EosStep
     DEF Next, Sending, Destroying, Callback
<1> QED
  BY <1>1, <1>2

LEMMA StreamInvariant == Spec => []StreamInv
  BY InitStream, StreamStep, PTL DEF Spec

\* For any number of packets and any picture sizes: frames are handed to OnFrame
\* in order and at most once, the end of the stream is the last thing sent and
\* finds its promise, Destroy does not return early without an error, and the
\* library's parameters cover the sequence that is decoded.
THEOREM StreamIsSafe == Spec => []StreamSafe
<1>1. StreamInv => StreamSafe
  <2> SUFFICES ASSUME StreamInv PROVE NothingAfterEos
    BY DEF StreamSafe, StreamInv
  <2> QED
    BY DEF StreamInv, TypeOK, EosOnce, EosReported, NothingAfterEos
<1> QED
  BY <1>1, StreamInvariant, PTL

-----------------------------------------------------------------------------
(* Model: shapes *)

\* The recursive function Products exists and obeys its equation.
LEMMA ProductsDef ==
  ASSUME NEW s \in Seq(Int)
  PROVE  /\ Products(s) \in [0 .. Len(s) -> Int] /\ Products(s)[0] = 1
         /\ \A i \in Nat : i + 1 <= Len(s) => Products(s)[i + 1] = Products(s)[i] * s[i + 1]
<1> DEFINE Body(f, i) == IF i = 0 THEN 1 ELSE f[i - 1] * s[i]
           Ok(n) == \E f \in [0 .. n -> Int] : \A i \in 0 .. n : f[i] = Body(f, i)
           P == Products(s)
<1>0. Len(s) \in Nat /\ \A i \in 1 .. Len(s) : s[i] \in Int
  OBVIOUS
<1>1. Ok(0)
  <2> DEFINE f0 == [i \in 0 .. 0 |-> 1]
  <2>1. f0 \in [0 .. 0 -> Int] /\ \A i \in 0 .. 0 : f0[i] = Body(f0, i)
    OBVIOUS
  <2> QED
    BY <2>1
<1>2. ASSUME NEW n \in Nat, n + 1 <= Len(s), Ok(n) PROVE Ok(n + 1)
  <2>1. PICK f \in [0 .. n -> Int] : \A i \in 0 .. n : f[i] = Body(f, i)
    BY <1>2
  <2>2. PICK x \in Int : x = f[n] * s[n + 1]
    <3>1. f[n] \in Int /\ s[n + 1] \in Int
      BY <1>0, <1>2
    <3> QED
      BY <3>1
  <2> DEFINE g == [i \in 0 .. (n + 1) |-> IF i = n + 1 THEN x ELSE f[i]]
  <2>4. g \in [0 .. (n + 1) -> Int]
    OBVIOUS
  <2>5. ASSUME NEW i \in 0 .. (n + 1) PROVE g[i] = Body(g, i)
    <3>1. CASE i = n + 1
      <4>1. g[i] = x /\ i - 1 = n /\ g[n] = f[n] /\ i # 0
        BY <3>1
      <4> HIDE DEF g
      <4>2. g[i - 1] * s[i] = f[n] * s[n + 1]
        BY <3>1, <4>1
      <4> QED
        BY <2>2, <4>1, <4>2, Zenon
    <3>2. CASE i = 0
      <4>1. g[0] = f[0] /\ 0 \in 0 .. n
        OBVIOUS
      <4>2. f[0] = 1
        BY <2>1, <4>1
      <4> HIDE DEF g
      <4> QED
        BY <3>2, <4>1, <4>2
    <3>3. CASE i # 0 /\ i # n + 1
      <4>1. i \in 0 .. n /\ i - 1 \in 0 .. n /\ g[i] = f[i] /\ g[i - 1] = f[i - 1]
        BY <3>3
      <4> HIDE DEF g
      <4> QED
        BY <2>1, <3>3, <4>1
    <3> QED
      BY <3>1, <3>2, <3>3
  <2> HIDE DEF g
  <2> QED
    BY <2>4, <2>5
<1>3. Ok(Len(s))
  <2> DEFINE T == {n \in Nat : n <= Len(s) => Ok(n)}
  <2> HIDE DEF Ok
  <2>1. 0 \in T
    BY <1>1
  <2>2. ASSUME NEW n \in T PROVE n + 1 \in T
    BY <1>0, <1>2, <2>2
  <2>3. T = Nat
    <3> HIDE DEF T
    <3>1. T \in SUBSET Nat
      BY DEF T
    <3> QED
      BY <2>1, <2>2, <3>1, SetInduction
  <2> QED
    BY <1>0, <2>3
<1>4. PICK f \in [0 .. Len(s) -> Int] : f = [i \in 0 .. Len(s) |-> Body(f, i)]
  <2>1. PICK f \in [0 .. Len(s) -> Int] : \A i \in 0 .. Len(s) : f[i] = Body(f, i)
    BY <1>3
  <2>2. f = [i \in 0 .. Len(s) |-> Body(f, i)]
    BY <2>1
  <2> QED
    BY <2>2
<1>5. P = [i \in 0 .. Len(s) |-> Body(P, i)]
  BY <1>4, Zenon DEF Products
<1>6. \A i \in 0 .. Len(s) : P[i] = Body(P, i)
  BY <1>5
<1> HIDE DEF P
<1>a. P[0] = 1
  BY <1>0, <1>6
<1>b. ASSUME NEW i \in Nat, i + 1 <= Len(s) PROVE P[i + 1] = P[i] * s[i + 1]
  <2>1. i + 1 \in 0 .. Len(s) /\ i + 1 # 0 /\ (i + 1) - 1 = i
    BY <1>0, <1>b
  <2>2. P[i + 1] = P[(i + 1) - 1] * s[i + 1]
    BY <1>6, <2>1
  <2> QED
    BY <2>1, <2>2
<1>7. \A n \in Nat : n <= Len(s) => P[n] \in Int
  <2> DEFINE T == {n \in Nat : n <= Len(s) => P[n] \in Int}
  <2>1. 0 \in T
    BY <1>a
  <2>2. ASSUME NEW n \in T PROVE n + 1 \in T
    <3> SUFFICES ASSUME n + 1 <= Len(s) PROVE P[n + 1] \in Int
      BY <2>2
    <3>1. n \in Nat /\ P[n] \in Int /\ s[n + 1] \in Int
      BY <1>0, <2>2
    <3>2. P[n + 1] = P[n] * s[n + 1]
      BY <1>b, <3>1
    <3> QED
      BY <3>1, <3>2
  <2>3. T = Nat
    <3> HIDE DEF T
    <3>1. T \in SUBSET Nat
      BY DEF T
    <3> QED
      BY <2>1, <2>2, <3>1, SetInduction
  <2> QED
    BY <2>3
<1>8. P \in [0 .. Len(s) -> Int]
  BY <1>0, <1>5, <1>7
<1> QED
  BY <1>a, <1>b, <1>8 DEF P

\* A shape of positive dimensions has a number of elements that is no negative
\* number, and one of rank four has their product.
LEMMA DataCount ==
  ASSUME NEW s \in Seq(Int)
  PROVE  /\ BatchDataCount(s) \in Int /\ (FixedShape(s) => BatchDataCount(s) \in Nat)
         /\ Len(s) = 4 => BatchDataCount(s) = s[1] * s[2] * s[3] * s[4]
<1> DEFINE P == Products(s)
<1>0. Len(s) \in Nat /\ \A i \in 1 .. Len(s) : s[i] \in Int
  OBVIOUS
<1>1. /\ P \in [0 .. Len(s) -> Int] /\ P[0] = 1
      /\ \A i \in Nat : i + 1 <= Len(s) => P[i + 1] = P[i] * s[i + 1]
  BY ProductsDef
<1>2. BatchDataCount(s) = P[Len(s)]
  BY DEF BatchDataCount
<1> HIDE DEF P
<1>3. ASSUME FixedShape(s) PROVE P[Len(s)] \in Nat
  <2> DEFINE T == {n \in Nat : n <= Len(s) => P[n] \in Nat}
  <2>1. 0 \in T
    BY <1>1
  <2>2. ASSUME NEW n \in T PROVE n + 1 \in T
    <3> SUFFICES ASSUME n + 1 <= Len(s) PROVE P[n + 1] \in Nat
      BY <2>2
    <3>1. n \in Nat /\ P[n] \in Nat /\ s[n + 1] \in Nat
      BY <1>0, <1>3, <2>2 DEF FixedShape
    <3>2. P[n + 1] = P[n] * s[n + 1]
      BY <1>1, <3>1
    <3> QED
      BY <3>1, <3>2
  <2>3. T = Nat
    <3> HIDE DEF T
    <3>1. T \in SUBSET Nat
      BY DEF T
    <3> QED
      BY <2>1, <2>2, <3>1, SetInduction
  <2> QED
    BY <1>0, <2>3
<1>4. ASSUME Len(s) = 4 PROVE P[4] = s[1] * s[2] * s[3] * s[4]
  <2>1. s[1] \in Int /\ s[2] \in Int /\ s[3] \in Int /\ s[4] \in Int
    BY <1>0, <1>4
  <2>2. 0 + 1 = 1 /\ 1 + 1 = 2 /\ 2 + 1 = 3 /\ 3 + 1 = 4
    OBVIOUS
  <2>3. P[1] = 1 * s[1]
    BY <1>1, <1>4, <2>2
  <2>4. P[2] = P[1] * s[2]
    BY <1>1, <1>4, <2>2
  <2>5. P[3] = P[2] * s[3]
    BY <1>1, <1>4, <2>2
  <2>6. P[4] = P[3] * s[4]
    BY <1>1, <1>4, <2>2
  <2> QED
    BY <2>1, <2>3, <2>4, <2>5, <2>6
<1>5. BatchDataCount(s) \in Int
  BY <1>0, <1>1, <1>2
<1>6. ASSUME Len(s) = 4 PROVE BatchDataCount(s) = s[1] * s[2] * s[3] * s[4]
  <2>1. BatchDataCount(s) = P[4]
    BY <1>2, <1>6
  <2> QED
    BY <1>4, <1>6, <2>1
<1> QED
  BY <1>2, <1>3, <1>5, <1>6

LEMMA TypeSizes == \A t : GetTypeSize(t) \in Nat /\ GetTypeSize("UINT8") = 1
  BY DEF GetTypeSize

-----------------------------------------------------------------------------
(* Model: what is known of it *)

LEMMA LimitFacts == UintLimit \in Nat /\ UintLimit > 1 /\ Seq(Dims) \subseteq Seq(Int)
<1>1. Dims \subseteq Int
  BY ModelConstants DEF Dims
<1>2. ASSUME NEW s \in Seq(Dims) PROVE s \in Seq(Int)
  <2>1. s \in [1 .. Len(s) -> Dims] /\ Len(s) \in Nat
    OBVIOUS
  <2>2. s \in [1 .. Len(s) -> Int]
    BY <1>1, <2>1
  <2> QED
    BY <2>1, <2>2
<1> QED
  BY <1>2, ModelConstants

\* A batch is positive, and that of a fixed shape is its dimension.
LEMMA BatchFacts ==
  ASSUME NEW x \in Dims
  PROVE  x % UintLimit \in Nat \ {0} /\ (x > 0 => x % UintLimit = x)
<1>1. PICK U \in Nat : U = UintLimit /\ U > 1
  BY LimitFacts
<1>2. CASE x = -1
  <2>1. (-1) % U = U - 1
    BY <1>1
  <2>2. x % UintLimit = U - 1 /\ ~(x > 0)
    BY <1>1, <1>2, <2>1
  <2> QED
    BY <1>1, <2>2
<1>3. CASE x \in 1 .. (U - 1)
  <2>1. PICK y \in Nat : y = x /\ y > 0 /\ y < U
    BY <1>1, <1>3
  <2>2. y % U = y
    BY <1>1, <2>1
  <2> QED
    BY <1>1, <2>1, <2>2
<1> QED
  BY <1>1, <1>2, <1>3 DEF Dims

LEMMA InfoFacts ==
  ASSUME InfoKnown, info # NoInfo
  PROVE  /\ info.in \in Seq(Dims) /\ info.in # <<>> /\ info.batch \in Nat \ {0}
         /\ info.out \in Seq(Seq(Int)) /\ Len(info.out) = OutputNum /\ OutputNum \in Nat \ {0}
         /\ info.itype = CastDataType(desc.itype)
         /\ FixedShape(desc.in) => info.in = desc.in
         /\ info.order \in {"NHWC", "NCHW"} =>
              Len(info.in) = 4 /\ (FixedShape(info.in) => info.batch = info.in[1])
<1>1. PICK user \in UserShapes, ok \in BOOLEAN :
        info = GetModelInfo(desc, user, ok) /\ RankMatches(Order(desc), InShape(desc, user))
  BY DEF InfoKnown
<1>2. PICK d \in Descs : d = desc
  BY DEF InfoKnown
<1>3. /\ d.in \in Seq(Dims) /\ d.in # <<>> /\ d.out \in Seq(Seq(Int)) /\ d.out # <<>>
      /\ d.inferred \in Seq(Seq(Int)) /\ Len(d.inferred) = Len(d.out) /\ user \in Seq(Dims)
  BY ModelConstants
<1>4. /\ info.in = InShape(d, user) /\ info.order = Order(d) /\ info.itype = CastDataType(d.itype)
      /\ info.out = (IF ~FixedShape(d.in) /\ user # <<>> /\ ok THEN d.inferred ELSE d.out)
      /\ info.batch = BatchSize(Order(d), InShape(d, user))
  BY <1>1, <1>2 DEF GetModelInfo
<1>5. PICK s \in Seq(Dims) : s = InShape(d, user) /\ s # <<>> /\ (FixedShape(d.in) => s = d.in)
  BY <1>3 DEF InShape
<1>6. info.out \in Seq(Seq(Int)) /\ Len(info.out) = OutputNum /\ OutputNum \in Nat \ {0}
  BY <1>2, <1>3, <1>4 DEF OutputNum
<1>7. /\ Order(d) = "TNC" => Len(s) = 3
      /\ Order(d) \in {"NHWC", "NCHW", "HWCN"} => Len(s) = 4
  BY <1>1, <1>2, <1>5 DEF RankMatches, Orders3, Orders4
<1>8. BatchAxis(Order(d)) \in 1 .. Len(s) /\ (Order(d) \in {"NHWC", "NCHW"} => BatchAxis(Order(d)) = 1)
  <2>0. PICK o : o = Order(d)
    OBVIOUS
  <2>5. PICK n \in Nat : n = Len(s) /\ n # 0
    BY <1>5
  <2>1. o = Order(d) /\ n = Len(s) /\ n >= 1
    BY <2>0, <2>5
  <2>2. CASE o = "TNC"
    BY <1>7, <2>1, <2>2 DEF BatchAxis
  <2>3. CASE o = "HWCN"
    BY <1>7, <2>1, <2>3 DEF BatchAxis
  <2>4. CASE o # "TNC" /\ o # "HWCN"
    BY <2>1, <2>4 DEF BatchAxis
  <2> QED
    BY <2>2, <2>3, <2>4
<1>9. PICK x \in Dims : x = s[BatchAxis(Order(d))] /\ info.batch = x % UintLimit
  BY <1>4, <1>5, <1>8 DEF BatchSize
<1>10. info.batch \in Nat \ {0} /\ (x > 0 => info.batch = x)
  BY <1>9, BatchFacts
<1>11. ASSUME info.order \in {"NHWC", "NCHW"}, FixedShape(info.in) PROVE info.batch = info.in[1]
  <2>1. x = s[1] /\ 1 \in DOMAIN s
    BY <1>4, <1>8, <1>9, <1>11
  <2>2. x > 0
    BY <1>4, <1>5, <1>11, <2>1 DEF FixedShape
  <2> QED
    BY <1>4, <1>5, <1>10, <2>1, <2>2
<1> QED
  BY <1>2, <1>4, <1>5, <1>6, <1>7, <1>10, <1>11

LEMMA SameModel ==
  ASSUME desc' = desc, info' = info
  PROVE  /\ OutputNum' = OutputNum /\ FixedOutputShape' = FixedOutputShape
         /\ \A i : OutputPool(i)' = OutputPool(i)
         /\ \A fmt : Poolable(fmt)' = Poolable(fmt) /\ InputPool(fmt)' = InputPool(fmt)
<1>1. OutputNum' = OutputNum /\ FixedOutputShape' = FixedOutputShape
  BY DEF OutputNum, FixedOutputShape
<1>2. \A i : OutputPool(i)' = OutputPool(i)
  BY DEF OutputPool, OutputBytes
<1>3. GetTensorParams' = GetTensorParams
  BY DEF GetTensorParams
<1>4. InputW' = InputW /\ InputH' = InputH /\ InputC' = InputC
  BY <1>3 DEF InputW, InputH, InputC, InputDim
<1>5. ASSUME NEW fmt PROVE Poolable(fmt)' = Poolable(fmt) /\ InputPool(fmt)' = InputPool(fmt)
  BY <1>3, <1>4 DEF Poolable, InputPool, InputBlock
<1> QED
  BY <1>1, <1>2, <1>5

\* What stays known when the model does.
LEMMA ModelFrame ==
  ASSUME ModelInv, desc' = desc, info' = info
  PROVE  /\ InfoKnown' /\ (inpool' = inpool => InputPoolKnown')
         /\ runner' = runner /\ pools' = pools /\ tensors' = tensors => RunnerKnown'
<1>0. /\ OutputNum' = OutputNum /\ FixedOutputShape' = FixedOutputShape
      /\ \A i : OutputPool(i)' = OutputPool(i)
      /\ \A fmt : Poolable(fmt)' = Poolable(fmt) /\ InputPool(fmt)' = InputPool(fmt)
  BY SameModel
<1>1. InfoKnown'
  BY DEF ModelInv, InfoKnown
<1>2. ASSUME inpool' = inpool PROVE InputPoolKnown'
  BY <1>0, <1>2 DEF ModelInv, InputPoolKnown
<1>3. ASSUME runner' = runner, pools' = pools, tensors' = tensors PROVE RunnerKnown'
  BY <1>0, <1>3 DEF ModelInv, RunnerKnown
<1> QED
  BY <1>1, <1>2, <1>3

-----------------------------------------------------------------------------
(* Model: steps *)

LEMMA ModelStart == ModelInit => ModelInv
<1> SUFFICES ASSUME ModelInit PROVE ModelInv
  OBVIOUS
<1>1. /\ desc \in Descs /\ info = NoInfo /\ runner = NoRunner /\ inpool = NoPool /\ io = NoIo
      /\ tensors = 0 /\ dead = {} /\ held = {} /\ misuse = {}
  BY DEF ModelInit
<1> QED
  BY <1>1 DEF ModelInv, InfoKnown, RunnerKnown, InputPoolKnown, TensorsApart, PackageKnown, InputDimsKnown,
              ItemsGetTheirOutput

\* Nothing is made before the model is loaded.
LEMMA LoadStep ==
  ASSUME ModelInv, NEW user \in UserShapes, NEW ok \in BOOLEAN, Load(desc, user, ok)
  PROVE  ModelInv'
<1>1. info = NoInfo /\ desc' = desc /\ UNCHANGED <<runner, inpool, tensors, dead, held, misuse, unlocated, io>>
  BY DEF Load
<1>2. info' = (IF RankMatches(Order(desc), InShape(desc, user)) THEN GetModelInfo(desc, user, ok) ELSE NoInfo)
  BY DEF Load
<1>3. runner = NoRunner /\ inpool = NoPool /\ io = NoIo
  BY <1>1 DEF ModelInv, RunnerKnown, InputPoolKnown, PackageKnown, Poolable
<1>4. InfoKnown'
  BY <1>1, <1>2 DEF ModelInv, InfoKnown
<1>5. TensorsApart'
  BY <1>1, <1>3 DEF ModelInv, TensorsApart
<1> QED
  BY <1>1, <1>3, <1>4, <1>5 DEF ModelInv, RunnerKnown, InputPoolKnown, PackageKnown, InputDimsKnown, ItemsGetTheirOutput

LEMMA NewTensorsFacts ==
  ASSUME tensors \in Nat, OutputNum \in Nat
  PROVE  /\ NewTensors \in Seq(1 .. (tensors + OutputNum)) /\ Len(NewTensors) = OutputNum
         /\ Elems(NewTensors) \subseteq (tensors + 1) .. (tensors + OutputNum)
         /\ \A k \in 0 .. OutputNum : Elems(SubSeq(NewTensors, 1, k)) \subseteq (tensors + 1) .. (tensors + OutputNum)
<1>1. PICK t \in Nat, n \in Nat : t = tensors /\ n = OutputNum
  OBVIOUS
<1>2. PICK f \in [1 .. n -> (t + 1) .. (t + n)] : f = NewTensors /\ \A i \in 1 .. n : f[i] = t + i
  <2>1. NewTensors = [i \in 1 .. n |-> t + i]
    BY <1>1 DEF NewTensors
  <2> QED
    BY <2>1
<1>3. f \in Seq(1 .. (t + n)) /\ Len(f) = n
  OBVIOUS
<1>4. Elems(f) \subseteq (t + 1) .. (t + n)
  BY DEF Elems
<1>5. ASSUME NEW k \in 0 .. n PROVE Elems(SubSeq(f, 1, k)) \subseteq (t + 1) .. (t + n)
  <2>1. PICK g : g = SubSeq(f, 1, k)
    OBVIOUS
  <2>2. DOMAIN g = 1 .. k /\ \A i \in 1 .. k : g[i] = f[i]
    BY <1>3, <2>1
  <2> QED
    BY <2>1, <2>2 DEF Elems
<1> QED
  BY <1>1, <1>2, <1>3, <1>4, <1>5

\* A longer list of tensors.
LEMMA MoreTensors ==
  ASSUME NEW a \in Nat, NEW b \in Nat, a <= b, NEW s \in Seq(1 .. a)
  PROVE  s \in Seq(1 .. b)
<1>1. s \in [1 .. Len(s) -> 1 .. b] /\ Len(s) \in Nat
  OBVIOUS
<1> QED
  BY <1>1

LEMMA PredictorInitStep ==
  ASSUME ModelInv, NEW ok \in BOOLEAN, PredictorInit(ok)
  PROVE  ModelInv'
<1>1. /\ info # NoInfo /\ runner = NoRunner /\ desc' = desc /\ info' = info
      /\ UNCHANGED <<inpool, held, misuse, unlocated, io>> /\ tensors' = tensors + OutputNum
  BY DEF PredictorInit
<1>2. PICK fixed \in BOOLEAN : fixed = FixedShape(info.in)
  BY DEF FixedShape
<1>3. /\ runner' = [fixed_input_shape_ |-> FixedShape(desc.in), i_shape |-> IF fixed THEN info.in ELSE <<>>,
                   outputs_ |-> IF fixed /\ ok THEN NewTensors ELSE <<>>]
      /\ dead' = (IF fixed THEN dead ELSE dead \cup Elems(NewTensors))
      /\ pools' = (IF FixedOutputShape THEN [i \in 1 .. OutputNum |-> OutputPool(i)] ELSE <<>>)
  BY <1>2 DEF PredictorInit
<1>4. io = NoIo
  BY <1>1 DEF ModelInv, PackageKnown
<1>5. PICK t \in Nat, n \in Nat \ {0} : t = tensors /\ n = OutputNum
  BY <1>1, InfoFacts DEF ModelInv, TensorsApart
<1>6. PICK new \in Seq(1 .. (t + n)) : new = NewTensors /\ Len(new) = n /\ Elems(new) \subseteq (t + 1) .. (t + n)
  BY <1>5, NewTensorsFacts
<1>7. PICK outs \in Seq(1 .. (t + n)) : outs = (IF fixed /\ ok THEN new ELSE <<>>)
  <2>1. <<>> \in Seq(1 .. (t + n))
    OBVIOUS
  <2> QED
    BY <2>1
<1>13. new = NewTensors /\ Len(new) = n /\ Elems(new) \subseteq (t + 1) .. (t + n)
  BY <1>6
<1>15. outs = (IF fixed /\ ok THEN new ELSE <<>>)
  BY <1>7, Zenon
<1>14. outs # <<>> => outs = new /\ fixed
  BY <1>15
<1>8. PICK shape : shape = (IF fixed THEN info.in ELSE <<>>)
  OBVIOUS
<1>9. runner' = [fixed_input_shape_ |-> FixedShape(desc.in), i_shape |-> shape, outputs_ |-> outs]
  <2>1. outs = (IF fixed /\ ok THEN NewTensors ELSE <<>>)
    BY <1>13, <1>15, Zenon
  <2> QED
    BY <1>3, <1>8, <2>1, Zenon
<1>10. RunnerKnown'
  <2>1. info' # NoInfo /\ tensors' = t + n
    BY <1>1, <1>5
  <2>2. runner' \in [fixed_input_shape_ : {FixedShape(desc'.in)}, outputs_ : Seq(1 .. tensors'),
                     i_shape : {IF FixedShape(info'.in) THEN info'.in ELSE <<>>}]
    BY <1>1, <1>2, <1>8, <1>9, <2>1
  <2>5. OutputNum' = OutputNum /\ FixedOutputShape' = FixedOutputShape /\ \A i : OutputPool(i)' = OutputPool(i)
    BY <1>1, SameModel
  <2>6. runner'.outputs_ = outs
    BY <1>9
  <2>3. runner'.outputs_ # <<>> => Len(runner'.outputs_) = OutputNum'
    BY <1>5, <1>13, <1>14, <2>5, <2>6
  <2>7. [i \in 1 .. OutputNum |-> OutputPool(i)]' = [i \in 1 .. OutputNum |-> OutputPool(i)]
    BY <2>5
  <2>4. pools' = (IF FixedOutputShape THEN [i \in 1 .. OutputNum |-> OutputPool(i)] ELSE <<>>)'
    BY <1>3, <2>5, <2>7
  <2> QED
    BY <2>1, <2>2, <2>3, <2>4 DEF RunnerKnown
<1>11. TensorsApart'
  <2>1. /\ dead \subseteq 1 .. t /\ held \subseteq 1 .. t /\ (~unlocated => misuse = {} /\ held \cap dead = {})
    BY <1>5 DEF ModelInv, TensorsApart
  <2>2. dead' \subseteq dead \cup Elems(new) /\ (fixed => dead' = dead)
    BY <1>3, <1>6
  <2>3. dead' \subseteq 1 .. (t + n) /\ held \subseteq 1 .. (t + n)
    BY <1>6, <2>1, <2>2
  <2>4. held \cap dead = {} => held \cap dead' = {}
    BY <1>6, <2>1, <2>2
  <2>5. Elems(outs) \cap (dead' \cup held) = {}
    <3>1. CASE outs = <<>>
      <4>1. Elems(<<>>) = {}
        BY DEF Elems
      <4> QED
        BY <3>1, <4>1
    <3>2. CASE outs # <<>>
      <4>1. outs = new /\ dead' = dead
        BY <1>14, <2>2, <3>2
      <4>2. Elems(new) \subseteq (t + 1) .. (t + n) /\ dead \subseteq 1 .. t /\ held \subseteq 1 .. t
        BY <1>13, <2>1
      <4> QED
        BY <4>1, <4>2
    <3> QED
      BY <3>1, <3>2
  <2>6. runner'.outputs_ = outs /\ tensors' = t + n /\ held' = held /\ misuse' = misuse /\ unlocated' = unlocated
    BY <1>1, <1>5, <1>9
  <2> QED
    BY <2>1, <2>3, <2>4, <2>5, <2>6 DEF TensorsApart
<1>12. InfoKnown' /\ InputPoolKnown'
  BY <1>1, ModelFrame
<1> QED
  BY <1>1, <1>4, <1>10, <1>11, <1>12 DEF ModelInv, PackageKnown, InputDimsKnown, ItemsGetTheirOutput

LEMMA CreateInputPoolStep ==
  ASSUME ModelInv, NEW fmt \in Formats, CreateInputPool(fmt)
  PROVE  ModelInv'
<1>1. /\ Poolable(fmt) /\ inpool' = InputPool(fmt)
      /\ UNCHANGED <<desc, info, runner, pools, tensors, dead, held, misuse, unlocated, io>>
  BY DEF CreateInputPool
<1>2. Poolable(fmt)' /\ inpool' = InputPool(fmt)'
  BY <1>1, SameModel
<1>3. InputPoolKnown'
  BY <1>2 DEF InputPoolKnown
<1>4. InfoKnown' /\ RunnerKnown'
  BY <1>1, ModelFrame
<1>5. TensorsApart'
  BY <1>1 DEF ModelInv, TensorsApart
<1>6. PackageKnown' /\ InputDimsKnown' /\ ItemsGetTheirOutput'
  BY <1>1, SameModel DEF ModelInv, PackageKnown, InputDimsKnown, ItemsGetTheirOutput
<1> QED
  BY <1>3, <1>4, <1>5, <1>6 DEF ModelInv

-----------------------------------------------------------------------------
(* Model: runs *)

\* The dimensions a run starts with are known.
LEMMA DimsGiven ==
  ASSUME ModelInv, runner # NoRunner, NEW given \in PackShapes
  PROVE  /\ InputDims(given) \in Seq(Int)
         /\ \A i \in DOMAIN InputDims(given) : InputDims(given)[i] > 0
         /\ InputDims(given) = <<>> => ~FixedShape(info.in)
<1>1. /\ info # NoInfo /\ runner.fixed_input_shape_ = FixedShape(desc.in)
      /\ runner.i_shape = (IF FixedShape(info.in) THEN info.in ELSE <<>>)
  BY DEF ModelInv, RunnerKnown
<1>2. info.in \in Seq(Int) /\ info.in # <<>> /\ (FixedShape(desc.in) => info.in = desc.in)
  BY <1>1, InfoFacts, LimitFacts DEF ModelInv
<1>3. CASE FixedShape(desc.in)
  <2>1. InputDims(given) = info.in /\ FixedShape(info.in)
    BY <1>1, <1>2, <1>3 DEF InputDims
  <2> QED
    BY <1>2, <2>1 DEF FixedShape
<1>4. CASE ~FixedShape(desc.in) /\ given # <<>> /\ FixedShape(given)
  <2>1. InputDims(given) = given
    BY <1>1, <1>4 DEF InputDims
  <2>2. given \in Seq(Int)
    BY ModelConstants
  <2> QED
    BY <1>4, <2>1, <2>2 DEF FixedShape
<1>5. CASE ~FixedShape(desc.in) /\ ~(given # <<>> /\ FixedShape(given))
  <2>1. InputDims(given) = (IF FixedShape(info.in) THEN info.in ELSE <<>>)
    BY <1>1, <1>5 DEF InputDims
  <2>2. CASE FixedShape(info.in)
    BY <1>2, <2>1, <2>2 DEF FixedShape
  <2>3. CASE ~FixedShape(info.in)
    <3>1. InputDims(given) = <<>> /\ <<>> \in Seq(Int) /\ DOMAIN <<>> = {}
      BY <2>1, <2>3
    <3> QED
      BY <2>3, <3>1
  <2> QED
    BY <2>2, <2>3
<1> QED
  BY <1>3, <1>4, <1>5

\* A run that ends leaves a package.
LEMMA PackageStep ==
  ASSUME ModelInv, desc' = desc, info' = info, runner # NoRunner, runner' # NoRunner,
         NEW status \in {"SUCCESS", "ERROR_BACKEND"}, NEW given \in PackShapes, NEW pooled \in BOOLEAN, NEW n \in Nat,
         pooled => FixedOutputShape /\ n = OutputNum,
         io' = Package(status, InputDims(given), pooled, n)
  PROVE  PackageKnown' /\ InputDimsKnown' /\ ItemsGetTheirOutput'
<1>1. PICK dims \in Seq(Int) : /\ dims = InputDims(given) /\ \A i \in DOMAIN dims : dims[i] > 0
                               /\ dims = <<>> => ~FixedShape(info.in)
  BY DimsGiven
<1>2. PICK e \in Seq(Int) : e = <<>> /\ DOMAIN e = {}
  <2>1. <<>> \in Seq(Int) /\ DOMAIN <<>> = {}
    OBVIOUS
  <2> QED
    BY <2>1
<1>3. io' = [status |-> status, dims |-> dims, pooled |-> pooled, tensors |-> n, items |-> e]
  <2>1. Package(status, InputDims(given), pooled, n) =
          [status |-> status, dims |-> InputDims(given), pooled |-> pooled, tensors |-> n, items |-> <<>>]
    BY DEF Package
  <2>2. InputDims(given) = dims /\ <<>> = e
    BY <1>1, <1>2
  <2>3. io' = [status |-> status, dims |-> InputDims(given), pooled |-> pooled, tensors |-> n, items |-> <<>>]
    BY <2>1, Zenon
  <2> QED
    BY <2>2, <2>3, Zenon
<1>4. /\ io'.dims = dims /\ io'.pooled = pooled /\ io'.tensors = n /\ io'.items = e
      /\ io' \in [status : {"SUCCESS", "ERROR_BACKEND"}, dims : Seq(Int), pooled : BOOLEAN, tensors : Nat, items : Seq(Int)]
  BY <1>3
<1>5. OutputNum' = OutputNum /\ FixedOutputShape' = FixedOutputShape
  BY SameModel
<1>6. PackageKnown'
  <2>1. io'.pooled => FixedOutputShape' /\ io'.tensors = OutputNum'
    BY <1>4, <1>5, Zenon
  <2> QED
    BY <1>4, <2>1 DEF PackageKnown
<1>7. InputDimsKnown'
  <2>1. \A i \in DOMAIN io'.dims : (io'.dims)[i] > 0
    BY <1>1, <1>4
  <2>2. io'.dims = <<>> => ~FixedShape(info'.in)
    <3>1. io'.dims = dims /\ info'.in = info.in /\ (dims = <<>> => ~FixedShape(info.in))
      BY <1>1, <1>4
    <3> QED
      BY <3>1, Zenon
  <2> QED
    BY <2>1, <2>2 DEF InputDimsKnown
<1>8. ItemsGetTheirOutput'
  BY <1>2, <1>4 DEF ItemsGetTheirOutput
<1> QED
  BY <1>6, <1>7, <1>8

LEMMA RunPooledStep ==
  ASSUME ModelInv, NEW given \in PackShapes, NEW ok \in BOOLEAN, RunPooled(given, ok)
  PROVE  ModelInv'
<1>1. /\ runner # NoRunner /\ IntoPools /\ misuse' = misuse \cup (Elems(runner.outputs_) \cap dead)
      /\ io' = Package(IF ok THEN "SUCCESS" ELSE "ERROR_BACKEND", InputDims(given), TRUE, Len(runner.outputs_))
      /\ UNCHANGED <<desc, info, runner, pools, inpool, tensors, dead, held, unlocated>>
  BY DEF RunPooled, ModelRun
<1>2. InfoKnown' /\ InputPoolKnown' /\ RunnerKnown'
  BY <1>1, ModelFrame
<1>3. PICK n \in Nat : n = Len(runner.outputs_) /\ n = OutputNum /\ FixedOutputShape
  <2>1. Len(runner.outputs_) = OutputNum /\ FixedOutputShape
    BY <1>1 DEF ModelInv, RunnerKnown, IntoPools
  <2>2. OutputNum \in Nat
    BY <1>1, InfoFacts DEF ModelInv, RunnerKnown
  <2> QED
    BY <2>1, <2>2
<1>4. PICK status \in {"SUCCESS", "ERROR_BACKEND"} : status = (IF ok THEN "SUCCESS" ELSE "ERROR_BACKEND")
  OBVIOUS
<1>5. io' = Package(status, InputDims(given), TRUE, n)
  BY <1>1, <1>3, <1>4
<1>6. PackageKnown' /\ InputDimsKnown' /\ ItemsGetTheirOutput'
  BY <1>1, <1>3, <1>5, PackageStep
<1>7. TensorsApart'
  BY <1>1 DEF ModelInv, TensorsApart
<1> QED
  BY <1>2, <1>6, <1>7 DEF ModelInv

\* A run that gets its outputs from MagicMind.
NewOutputs(outs, new) ==
  /\ runner # NoRunner /\ UNCHANGED <<desc, info, pools, dead, misuse>>
  /\ tensors' = tensors + OutputNum /\ held' = held \cup new /\ new \subseteq Elems(NewTensors)
  /\ outs = <<>> \/ outs = NewTensors
  /\ runner' = [runner EXCEPT !.outputs_ = outs]
  /\ outs = <<>> => unlocated' = unlocated
  /\ outs # <<>> => unlocated' = TRUE

LEMMA UnpooledOutputs ==
  ASSUME ModelInv, NEW outs, NEW new, NewOutputs(outs, new)
  PROVE  RunnerKnown' /\ TensorsApart'
<1>0. /\ runner # NoRunner /\ desc' = desc /\ info' = info /\ pools' = pools /\ dead' = dead /\ misuse' = misuse
      /\ tensors' = tensors + OutputNum /\ held' = held \cup new /\ new \subseteq Elems(NewTensors)
      /\ outs = <<>> \/ outs = NewTensors
      /\ outs = <<>> => unlocated' = unlocated
      /\ outs # <<>> => unlocated' = TRUE
  BY DEF NewOutputs
<1>1. PICK t \in Nat, n \in Nat \ {0} : t = tensors /\ n = OutputNum
  BY <1>0, InfoFacts DEF ModelInv, TensorsApart, RunnerKnown
<1>2. /\ NewTensors \in Seq(1 .. (t + n)) /\ Len(NewTensors) = n
      /\ Elems(NewTensors) \subseteq (t + 1) .. (t + n)
  BY <1>1, NewTensorsFacts
<1>3. outs \in Seq(1 .. (t + n)) /\ (outs # <<>> => Len(outs) = n)
  <2>1. <<>> \in Seq(1 .. (t + n))
    OBVIOUS
  <2> QED
    BY <1>0, <1>2, <2>1
<1>4. info # NoInfo /\ pools = (IF FixedOutputShape THEN [i \in 1 .. OutputNum |-> OutputPool(i)] ELSE <<>>)
  BY <1>0 DEF ModelInv, RunnerKnown
<1>5. PICK shape, fixed : /\ runner \in [fixed_input_shape_ : {fixed}, outputs_ : Seq(1 .. t), i_shape : {shape}]
                          /\ fixed = FixedShape(desc.in) /\ shape = (IF FixedShape(info.in) THEN info.in ELSE <<>>)
  BY <1>0, <1>1 DEF ModelInv, RunnerKnown
<1>6. runner' \in [fixed_input_shape_ : {fixed}, outputs_ : Seq(1 .. (t + n)), i_shape : {shape}] /\ runner'.outputs_ = outs
  BY <1>3, <1>5 DEF NewOutputs
<1>7. OutputNum' = OutputNum /\ FixedOutputShape' = FixedOutputShape /\ \A i : OutputPool(i)' = OutputPool(i)
  BY <1>0, SameModel
<1>8. RunnerKnown'
  <2>1. [i \in 1 .. OutputNum |-> OutputPool(i)]' = [i \in 1 .. OutputNum |-> OutputPool(i)]
    BY <1>7
  <2>2. pools' = (IF FixedOutputShape THEN [i \in 1 .. OutputNum |-> OutputPool(i)] ELSE <<>>)'
    BY <1>0, <1>4, <1>7, <2>1
  <2>3. runner'.outputs_ # <<>> => Len(runner'.outputs_) = OutputNum'
    BY <1>1, <1>3, <1>6, <1>7
  <2>4. info' # NoInfo
    BY <1>0, <1>4
  <2>5. runner' \in [fixed_input_shape_ : {FixedShape(desc'.in)}, outputs_ : Seq(1 .. tensors'),
                     i_shape : {IF FixedShape(info'.in) THEN info'.in ELSE <<>>}]
    BY <1>0, <1>1, <1>5, <1>6
  <2> QED
    BY <2>2, <2>3, <2>4, <2>5 DEF RunnerKnown
<1>9. TensorsApart'
  <2>1. dead \subseteq 1 .. t /\ held \subseteq 1 .. t /\ (~unlocated => misuse = {} /\ held \cap dead = {})
    BY <1>1 DEF ModelInv, TensorsApart
  <2>2. new \subseteq (t + 1) .. (t + n)
    BY <1>0, <1>2
  <2>3. tensors' = t + n /\ tensors' \in Nat /\ dead' \subseteq 1 .. tensors' /\ held' \subseteq 1 .. tensors'
    BY <1>0, <1>1, <2>1, <2>2
  <2>4. ASSUME ~unlocated'
        PROVE  misuse' = {} /\ held' \cap dead' = {} /\ Elems(runner'.outputs_) \cap (dead' \cup held') = {}
    <3>1. outs = <<>> /\ ~unlocated
      BY <1>0, <2>4
    <3>2. Elems(<<>>) = {}
      BY DEF Elems
    <3>3. runner'.outputs_ = <<>>
      BY <1>6, <3>1
    <3>4. held' \cap dead' = {}
      BY <1>0, <2>1, <2>2, <3>1
    <3> QED
      BY <1>0, <2>1, <3>1, <3>2, <3>3, <3>4
  <2> QED
    BY <2>3, <2>4 DEF TensorsApart
<1> QED
  BY <1>6, <1>8, <1>9

LEMMA RunUnpooledStep ==
  ASSUME ModelInv, NEW given \in PackShapes, RunUnpooled(given)
  PROVE  ModelInv'
<1>1. /\ runner # NoRunner /\ UNCHANGED <<desc, info, inpool>>
      /\ io' = Package("SUCCESS", InputDims(given), FALSE, OutputNum)
  BY DEF RunUnpooled, ModelRun
<1>2. NewOutputs(<<>>, Elems(NewTensors))
  BY DEF RunUnpooled, ModelRun, HandedOut, NewOutputs
<1>3. RunnerKnown' /\ TensorsApart'
  BY <1>2, UnpooledOutputs
<1>4. InfoKnown' /\ InputPoolKnown'
  BY <1>1, ModelFrame
<1>5. runner' # NoRunner /\ OutputNum \in Nat
  <2>1. runner' = [runner EXCEPT !.outputs_ = <<>>]
    BY <1>2 DEF NewOutputs
  <2>2. OutputNum \in Nat
    BY <1>1, InfoFacts DEF ModelInv, RunnerKnown
  <2> QED
    BY <1>1, <2>1, <2>2 DEF ModelInv, RunnerKnown, NoRunner
<1>6. PackageKnown' /\ InputDimsKnown' /\ ItemsGetTheirOutput'
  BY <1>1, <1>5, PackageStep
<1> QED
  BY <1>3, <1>4, <1>6 DEF ModelInv

LEMMA RunUnpooledFailsStep ==
  ASSUME ModelInv, NEW given \in PackShapes, RunUnpooledFails(given)
  PROVE  ModelInv'
<1>1. /\ runner # NoRunner /\ io' = Package("ERROR_BACKEND", InputDims(given), FALSE, 0)
      /\ UNCHANGED <<desc, info, runner, pools, inpool, tensors, dead, held, misuse, unlocated>>
  BY DEF RunUnpooledFails, ModelRun
<1>2. InfoKnown' /\ InputPoolKnown' /\ RunnerKnown'
  BY <1>1, ModelFrame
<1>3. PackageKnown' /\ InputDimsKnown' /\ ItemsGetTheirOutput'
  BY <1>1, PackageStep
<1>4. TensorsApart'
  BY <1>1 DEF ModelInv, TensorsApart
<1> QED
  BY <1>2, <1>3, <1>4 DEF ModelInv

LEMMA RunUnlocatedStep ==
  ASSUME ModelInv, NEW given \in PackShapes, NEW k \in 1 .. OutputNum, RunUnlocated(given, k)
  PROVE  ModelInv'
<1>1. /\ runner # NoRunner /\ UNCHANGED <<desc, info, inpool>>
      /\ io' = Package("ERROR_BACKEND", InputDims(given), FALSE, k - 1)
  BY DEF RunUnlocated, ModelRun
<1>2. OutputNum \in Nat \ {0} /\ tensors \in Nat
  BY <1>1, InfoFacts DEF ModelInv, RunnerKnown, TensorsApart
<1>3. PICK new : new = Elems(SubSeq(NewTensors, 1, k - 1)) /\ new \subseteq Elems(NewTensors)
  <2>1. NewTensors \in Seq(1 .. (tensors + OutputNum)) /\ Len(NewTensors) = OutputNum
    BY <1>2, NewTensorsFacts
  <2>4. PICK n \in Nat : n = k - 1 /\ n <= OutputNum
    BY <1>2
  <2>5. PICK s : s = NewTensors
    OBVIOUS
  <2>2. s = NewTensors /\ n = k - 1 /\ n <= Len(s) /\ s \in Seq(1 .. (tensors + OutputNum))
    BY <2>1, <2>4, <2>5
  <2>3. Elems(SubSeq(s, 1, n)) \subseteq Elems(s)
    <3>1. PICK g : g = SubSeq(s, 1, n)
      OBVIOUS
    <3>2. DOMAIN g = 1 .. n /\ \A i \in 1 .. n : g[i] = s[i] /\ i \in DOMAIN s
      BY <2>2, <3>1
    <3> QED
      BY <3>1, <3>2 DEF Elems
  <2> QED
    BY <2>2, <2>3
<1>4. NewTensors # <<>>
  BY <1>2, NewTensorsFacts
<1>5. NewOutputs(NewTensors, new)
  BY <1>3, <1>4 DEF RunUnlocated, ModelRun, NewOutputs
<1>6. RunnerKnown' /\ TensorsApart'
  BY <1>5, UnpooledOutputs
<1>7. InfoKnown' /\ InputPoolKnown'
  BY <1>1, ModelFrame
<1>8. runner' # NoRunner /\ k - 1 \in Nat
  <2>1. runner' = [runner EXCEPT !.outputs_ = NewTensors]
    BY <1>5 DEF NewOutputs
  <2> QED
    BY <1>1, <1>2, <2>1 DEF ModelInv, RunnerKnown, NoRunner
<1>9. PackageKnown' /\ InputDimsKnown' /\ ItemsGetTheirOutput'
  BY <1>1, <1>8, PackageStep
<1> QED
  BY <1>6, <1>7, <1>9 DEF ModelInv

LEMMA PostprocessStep ==
  ASSUME ModelInv, NEW n \in 1 .. 2, Postprocess(n)
  PROVE  ModelInv'
<1>1. /\ io.status = "SUCCESS" /\ misuse' = misuse \cup (held \cap dead)
      /\ UNCHANGED <<desc, info, runner, pools, inpool, tensors, dead, held, unlocated>>
  BY DEF Postprocess
<1>2. PICK e \in Seq(Int) : e = [i \in 1 .. n |-> Item(i)]
  <2>1. [i \in 1 .. n |-> Item(i)] \in [1 .. n -> Int]
    BY DEF Item
  <2>2. [i \in 1 .. n |-> Item(i)] \in Seq(Int)
    BY <2>1
  <2> QED
    BY <2>2
<1>3. io' = [io EXCEPT !.items = e]
  BY <1>2 DEF Postprocess
<1>4. io # NoIo
  BY <1>1 DEF NoIo
<1>5. /\ io \in [status : {"SUCCESS", "ERROR_BACKEND"}, dims : Seq(Int), pooled : BOOLEAN, tensors : Nat, items : Seq(Int)]
      /\ runner # NoRunner /\ (io.pooled => FixedOutputShape /\ io.tensors = OutputNum)
      /\ \A i \in DOMAIN io.dims : io.dims[i] > 0
      /\ io.dims = <<>> => ~FixedShape(info.in)
  BY <1>4 DEF ModelInv, PackageKnown, InputDimsKnown
<1>6. /\ io' \in [status : {"SUCCESS", "ERROR_BACKEND"}, dims : Seq(Int), pooled : BOOLEAN, tensors : Nat, items : Seq(Int)]
      /\ io'.dims = io.dims /\ io'.pooled = io.pooled /\ io'.tensors = io.tensors /\ io'.items = e
  BY <1>3, <1>5
<1>7. OutputNum' = OutputNum /\ FixedOutputShape' = FixedOutputShape
  BY <1>1, SameModel
<1>8. PackageKnown'
  <2>1. io'.pooled => FixedOutputShape' /\ io'.tensors = OutputNum'
    BY <1>5, <1>6, <1>7, Zenon
  <2> QED
    BY <1>1, <1>5, <1>6, <2>1 DEF PackageKnown
<1>9. InputDimsKnown'
  BY <1>1, <1>5, <1>6 DEF InputDimsKnown
<1>10. ItemsGetTheirOutput'
  <2>1. ASSUME NEW i \in 1 .. n PROVE e[i] = i \/ (~io'.pooled /\ i > 1)
    BY <1>2, <1>6 DEF Item
  <2>2. DOMAIN e = 1 .. n
    BY <1>2
  <2> QED
    BY <1>6, <2>1, <2>2 DEF ItemsGetTheirOutput
<1>11. InfoKnown' /\ InputPoolKnown' /\ RunnerKnown'
  BY <1>1, ModelFrame
<1>12. TensorsApart'
  BY <1>1 DEF ModelInv, TensorsApart
<1> QED
  BY <1>8, <1>9, <1>10, <1>11, <1>12 DEF ModelInv

LEMMA DeliverReleaseStep ==
  ASSUME ModelInv, Deliver \/ \E t \in held : Release(t)
  PROVE  ModelInv'
<1>1. UNCHANGED <<desc, info, runner, pools, inpool, tensors, unlocated>> /\ (io' = io \/ io' = NoIo)
  BY DEF Deliver, Release
<1>2. InfoKnown' /\ InputPoolKnown' /\ RunnerKnown'
  BY <1>1, ModelFrame
<1>3. OutputNum' = OutputNum /\ FixedOutputShape' = FixedOutputShape
  BY <1>1, SameModel
<1>4. PackageKnown' /\ InputDimsKnown' /\ ItemsGetTheirOutput'
  BY <1>1, <1>3 DEF ModelInv, PackageKnown, InputDimsKnown, ItemsGetTheirOutput
<1>5. TensorsApart'
  <2>1. CASE Deliver
    BY <2>1 DEF Deliver, ModelInv, TensorsApart
  <2>2. ASSUME NEW t \in held, Release(t) PROVE TensorsApart'
    BY <1>1, <2>2 DEF Release, ModelInv, TensorsApart
  <2> QED
    BY <2>1, <2>2
<1> QED
  BY <1>2, <1>4, <1>5 DEF ModelInv

\* What the runner still owns dies with it.
LEMMA DestroyRunnerStep ==
  ASSUME ModelInv, DestroyRunner
  PROVE  ModelInv'
<1>1. /\ runner # NoRunner /\ io = NoIo /\ io' = NoIo /\ runner' = NoRunner
      /\ misuse' = misuse \cup (Elems(runner.outputs_) \cap dead) /\ dead' = dead \cup Elems(runner.outputs_)
      /\ UNCHANGED <<desc, info, inpool, tensors, held, unlocated>>
  BY DEF DestroyRunner
<1>2. InfoKnown' /\ InputPoolKnown'
  BY <1>1, ModelFrame
<1>3. PICK outs : outs = Elems(runner.outputs_) /\ outs \subseteq 1 .. tensors
  <2>1. runner.outputs_ \in Seq(1 .. tensors)
    BY <1>1 DEF ModelInv, RunnerKnown
  <2>4. PICK T : T = 1 .. tensors
    OBVIOUS
  <2>2. PICK s \in Seq(T) : s = runner.outputs_
    BY <2>1, <2>4
  <2>3. Elems(s) \subseteq T
    BY <2>2 DEF Elems
  <2> QED
    BY <2>2, <2>3, <2>4
<1>4. TensorsApart'
  BY <1>1, <1>3 DEF ModelInv, TensorsApart
<1> QED
  BY <1>1, <1>2, <1>4 DEF ModelInv, RunnerKnown, PackageKnown, InputDimsKnown, ItemsGetTheirOutput

LEMMA ModelStep == ModelInv /\ [ModelNext]_modelVars => ModelInv'
<1> SUFFICES ASSUME ModelInv, [ModelNext]_modelVars PROVE ModelInv'
  OBVIOUS
<1>1. ASSUME NEW user \in UserShapes, NEW ok \in BOOLEAN, Load(desc, user, ok) PROVE ModelInv'
  BY <1>1, LoadStep
<1>2. ASSUME NEW ok \in BOOLEAN, PredictorInit(ok) PROVE ModelInv'
  BY <1>2, PredictorInitStep
<1>3. ASSUME NEW fmt \in Formats, CreateInputPool(fmt) PROVE ModelInv'
  BY <1>3, CreateInputPoolStep
<1>4. ASSUME NEW s \in PackShapes, RunUnpooled(s) PROVE ModelInv'
  BY <1>4, RunUnpooledStep
<1>5. ASSUME NEW s \in PackShapes, RunUnpooledFails(s) PROVE ModelInv'
  BY <1>5, RunUnpooledFailsStep
<1>6. ASSUME NEW s \in PackShapes, NEW ok \in BOOLEAN, RunPooled(s, ok) PROVE ModelInv'
  BY <1>6, RunPooledStep
<1>7. ASSUME NEW s \in PackShapes, NEW k \in 1 .. OutputNum, RunUnlocated(s, k) PROVE ModelInv'
  BY <1>7, RunUnlocatedStep
<1>8. ASSUME NEW n \in 1 .. 2, Postprocess(n) PROVE ModelInv'
  BY <1>8, PostprocessStep
<1>9. ASSUME Deliver \/ \E t \in held : Release(t) PROVE ModelInv'
  BY <1>9, DeliverReleaseStep
<1>10. ASSUME DestroyRunner PROVE ModelInv'
  BY <1>10, DestroyRunnerStep
<1>11. ASSUME UNCHANGED modelVars PROVE ModelInv'
  <2>1. UNCHANGED <<desc, info, runner, pools, inpool, tensors, dead, held, misuse, unlocated, io>>
    BY <1>11 DEF modelVars
  <2>2. InfoKnown' /\ InputPoolKnown' /\ RunnerKnown'
    BY <2>1, ModelFrame
  <2>3. OutputNum' = OutputNum /\ FixedOutputShape' = FixedOutputShape
    BY <2>1, SameModel
  <2>4. PackageKnown' /\ InputDimsKnown' /\ ItemsGetTheirOutput' /\ TensorsApart'
    BY <2>1, <2>3 DEF ModelInv, PackageKnown, InputDimsKnown, ItemsGetTheirOutput, TensorsApart
  <2> QED
    BY <2>2, <2>4 DEF ModelInv
<1> QED
  BY <1>1, <1>2, <1>3, <1>4, <1>5, <1>6, <1>7, <1>8, <1>9, <1>10, <1>11 DEF ModelNext

-----------------------------------------------------------------------------
(* Model: the sizes of the pools *)

\* What is left of a division by a batch.
LEMMA WholeBatches ==
  ASSUME NEW x \in Nat, NEW b \in Nat \ {0}, x % b = 0
  PROVE  (x \div b) * b = x
  OBVIOUS

LEMMA OutputsFit == ModelInv => PooledOutputsFit
<1> SUFFICES ASSUME ModelInv, io # NoIo, io.pooled
             PROVE  /\ io.tensors = OutputNum
                    /\ Len(pools) = OutputNum
                    /\ \A i \in DOMAIN pools :
                         OutputBytes(i) < UintLimit /\ OutputBytes(i) % info.batch = 0 =>
                           pools[i].size * pools[i].batch = OutputBytes(i)
  BY DEF PooledOutputsFit
<1>1. runner # NoRunner /\ FixedOutputShape /\ io.tensors = OutputNum
  BY DEF ModelInv, PackageKnown
<1>2. info # NoInfo /\ pools = [i \in 1 .. OutputNum |-> OutputPool(i)]
  BY <1>1 DEF ModelInv, RunnerKnown
<1>3. /\ info.batch \in Nat \ {0} /\ info.out \in Seq(Seq(Int)) /\ Len(info.out) = OutputNum /\ OutputNum \in Nat
  BY <1>2, InfoFacts DEF ModelInv
<1>4. Len(pools) = OutputNum /\ DOMAIN pools = 1 .. OutputNum
  BY <1>2, <1>3
<1>5. ASSUME NEW i \in 1 .. OutputNum, OutputBytes(i) < UintLimit, OutputBytes(i) % info.batch = 0
      PROVE  pools[i].size * pools[i].batch = OutputBytes(i)
  <2>1. info.out[i] \in Seq(Int) /\ FixedShape(info.out[i])
    BY <1>1, <1>3 DEF FixedOutputShape
  <2>2. PICK c \in Nat, z \in Nat : c = BatchDataCount(info.out[i]) /\ z = GetTypeSize(info.otype)
    BY <2>1, DataCount, TypeSizes
  <2>3. PICK x \in Nat : x = OutputBytes(i)
    <3>1. c * z \in Nat
      OBVIOUS
    <3> QED
      BY <2>2, <3>1 DEF OutputBytes
  <2>4. PICK U \in Nat : U = UintLimit /\ x % U = x
    <3>1. PICK U \in Nat : U = UintLimit /\ x < U
      BY <1>5, <2>3, LimitFacts
    <3>2. x % U = x
      BY <3>1, ModSmall
    <3> QED
      BY <3>1, <3>2
  <2>5. pools[i] = [batch |-> info.batch, size |-> (OutputBytes(i) % UintLimit) \div info.batch]
    BY <1>2 DEF OutputPool
  <2>6. PICK b \in Nat \ {0} : b = info.batch
    BY <1>3
  <2>7. pools[i].size = x \div b /\ pools[i].batch = b
    BY <2>3, <2>4, <2>5, <2>6
  <2>8. (x \div b) * b = x
    BY <1>5, <2>3, <2>6, WholeBatches
  <2> QED
    BY <2>3, <2>7, <2>8
<1> QED
  BY <1>1, <1>4, <1>5

LEMMA InputFits == ModelInv => InputPoolFits
<1> SUFFICES ASSUME ModelInv, inpool # NoPool, InputBlock(inpool.fmt) < UintLimit,
                    inpool.fmt # "TENSOR" => info.itype = "UINT8", inpool.fmt = "GRAY" => InputC = 1
             PROVE  inpool.size * inpool.batch >= BatchDataCount(info.in) * GetTypeSize(info.itype)
  BY DEF InputPoolFits
<1>1. PICK fmt \in Formats : Poolable(fmt) /\ inpool = InputPool(fmt)
  BY DEF ModelInv, InputPoolKnown
<1>2. /\ info # NoInfo /\ FixedShape(info.in) /\ GetTensorParams.input_order \in {"NHWC", "NCHW"}
      /\ fmt \in {"RGB", "BGR"} => InputC = 3
  BY <1>1 DEF Poolable
<1>3. info.order \in {"NHWC", "NCHW"} /\ GetTensorParams.input_order = info.order
  BY <1>2 DEF GetTensorParams
<1>4. /\ info.in \in Seq(Int) /\ Len(info.in) = 4 /\ info.batch = info.in[1]
      /\ info.itype = CastDataType(desc.itype)
  BY <1>2, <1>3, InfoFacts, LimitFacts DEF ModelInv
<1>5. PICK n \in Nat, a \in Nat, b \in Nat, c \in Nat :
        n = info.in[1] /\ a = info.in[2] /\ b = info.in[3] /\ c = info.in[4]
  <2>1. \A i \in 1 .. 4 : info.in[i] \in Nat
    BY <1>2, <1>4 DEF FixedShape
  <2> QED
    BY <2>1
<1>6. PICK w \in Nat, h \in Nat, d \in Nat :
        /\ w = InputW /\ h = InputH /\ d = InputC
        /\ <<h, w, d>> = <<a, b, c>> \/ <<d, h, w>> = <<a, b, c>>
  <2>1. GetTensorParams.input_shape = info.in
    BY DEF GetTensorParams
  <2>2. CASE info.order = "NHWC"
    BY <1>3, <1>5, <2>1, <2>2 DEF InputW, InputH, InputC, InputDim
  <2>3. CASE info.order = "NCHW"
    BY <1>3, <1>5, <2>1, <2>3 DEF InputW, InputH, InputC, InputDim
  <2> QED
    BY <1>3, <2>2, <2>3
<1>7. PICK z \in Nat : z = GetTypeSize(info.itype) /\ (info.itype = "UINT8" => z = 1)
  BY TypeSizes
<1>8. BatchDataCount(info.in) = n * (w * h * d)
  <2>1. BatchDataCount(info.in) = n * a * b * c
    BY <1>4, <1>5, DataCount
  <2>2. CASE <<h, w, d>> = <<a, b, c>>
    <3>1. h = a /\ w = b /\ d = c
      BY <2>2
    <3>2. n * h * w * d = n * (w * h * d)
      OBVIOUS
    <3> QED
      BY <2>1, <3>1, <3>2
  <2>3. CASE <<d, h, w>> = <<a, b, c>>
    <3>1. d = a /\ h = b /\ w = c
      BY <2>3
    <3>2. n * d * h * w = n * (w * h * d)
      OBVIOUS
    <3> QED
      BY <2>1, <3>1, <3>2
  <2> QED
    BY <1>6, <2>2, <2>3
<1>9. InputBlock(fmt) = w * h * d * z
  <2>1. CASE fmt \in {"RGB", "BGR"}
    <3>1. d = 3 /\ z = 1 /\ InputBlock(fmt) = w * h * 3
      BY <1>1, <1>2, <1>6, <1>7, <2>1 DEF InputPool, InputBlock
    <3> QED
      BY <3>1
  <2>2. CASE fmt = "GRAY"
    <3>1. d = 1 /\ z = 1 /\ InputBlock(fmt) = w * h
      BY <1>1, <1>6, <1>7, <2>2 DEF InputPool, InputBlock
    <3> QED
      BY <3>1
  <2>3. CASE fmt = "TENSOR"
    <3>1. GetTensorParams.input_dtype = info.itype
      BY <1>4 DEF GetTensorParams, CastDataType
    <3> QED
      BY <1>6, <1>7, <2>3, <3>1 DEF InputBlock
  <2> QED
    BY <2>1, <2>2, <2>3 DEF Formats
<1>10. PICK x \in Nat : x = w * h * d * z
  OBVIOUS
<1>11. inpool.size = x /\ inpool.batch = n
  <2>1. PICK U \in Nat : U = UintLimit /\ x < U
    BY <1>1, <1>9, <1>10, LimitFacts DEF InputPool
  <2>2. x % U = x
    BY <2>1, ModSmall
  <2>3. GetTensorParams.batch_num = n
    BY <1>4, <1>5 DEF GetTensorParams
  <2> QED
    BY <1>1, <1>9, <1>10, <2>1, <2>2, <2>3 DEF InputPool
<1>12. x * n = n * (w * h * d) * z /\ x * n \in Nat
  BY <1>10
<1> QED
  BY <1>7, <1>8, <1>11, <1>12

\* A loaded model, its runner and their pools: tensors are freed once, pools hold
\* what the model reads and writes, it runs with known dimensions and every item
\* gets its output, for every description of a model and sequence of packages.
THEOREM ModelIsCorrect == ModelSpec => []ModelCorrect
<1>1. ModelInit => ModelInv
  BY ModelStart
<1>2. ModelInv /\ [ModelNext]_modelVars => ModelInv'
  BY ModelStep
<1>3. ModelInv => ModelCorrect
  BY OutputsFit, InputFits DEF ModelCorrect, ModelInv, TensorsOwnedOnce, TensorsApart
<1> QED
  BY <1>1, <1>2, <1>3, PTL DEF ModelSpec
====
