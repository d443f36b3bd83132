-------------------------- MODULE ResizeQueueProofs --------------------------
(***************************************************************************)
(* That the remote terminal takes sizes in the order in which the user     *)
(* asked for them, for every capacity of the queue and any number of       *)
(* frames and sizes.                                                       *)
(***************************************************************************)
EXTENDS ResizeQueue, SequenceTheorems, TLAPS

Frames == Sizes \cup {NoSize, Keys}

\* The sizes in a channel, whatever else is in it, are later than size.
Later(size, channel) ==
    \A i \in 1 .. Len(channel) : channel[i] \in Sizes => size < channel[i]

\* None of them was asked for after size.
UpTo(size, channel) ==
    \A i \in 1 .. Len(channel) : channel[i] \in Sizes => channel[i] <= size

\* They are in the order in which the user asked for them.
InOrder(channel) ==
    \A i, j \in 1 .. Len(channel) :
        (i < j /\ channel[i] \in Sizes /\ channel[j] \in Sizes)
            => channel[i] < channel[j]

\* Every size on its way is later than those ahead of it: the remote terminal
\* shows an earlier one than client-go writes, that one comes before the queue,
\* and the queue before what the handler has not read.
OrderInv ==
    /\ shown <= asked /\ next <= asked
    /\ UpTo(asked, queue) /\ UpTo(asked, frames)
    /\ InOrder(queue) /\ InOrder(frames)
    /\ Later(shown, queue) /\ Later(shown, frames)
    /\ \A i \in 1 .. Len(queue) : Later(queue[i], frames)
    /\ next # NoSize
           => shown < next /\ Later(next, queue) /\ Later(next, frames)

\* TypeOK without the bounded sequences, which the provers cannot take apart.
ChannelsOK ==
    /\ asked \in Sizes \cup {0}
    /\ frames \in Seq(Frames) /\ Len(frames) <= MaxFrames
    /\ writing \in BOOLEAN
    /\ queue \in Seq(Sizes) /\ Len(queue) <= Capacity
    /\ next \in Sizes \cup {NoSize}
    /\ shown \in Sizes \cup {0}
    /\ stream \in {"open", "stalled", "ended"}

ResizeInv == ChannelsOK /\ OrderInv

-----------------------------------------------------------------------------
(* Sequences. *)

\* A bounded sequence is a sequence that is not too long.
LEMMA BoundedSeqDef ==
    ASSUME NEW S, NEW n \in Nat, NEW seq
    PROVE  seq \in BoundedSeq(S, n) <=> seq \in Seq(S) /\ Len(seq) <= n
<1>1. ASSUME seq \in BoundedSeq(S, n)
      PROVE  seq \in Seq(S) /\ Len(seq) <= n
  <2>1. PICK m \in 0 .. n : seq \in [1 .. m -> S]
    BY <1>1 DEF BoundedSeq, SeqOf
  <2>2. seq \in Seq(S)
    BY <2>1, SeqDef
  <2>3. Len(seq) = m
    BY <2>1, <2>2, LenProperties
  <2>4. QED
    BY <2>2, <2>3
<1>2. ASSUME seq \in Seq(S), Len(seq) <= n
      PROVE  seq \in BoundedSeq(S, n)
  <2>1. Len(seq) \in 0 .. n /\ seq \in [1 .. Len(seq) -> S]
    BY <1>2, LenProperties
  <2>2. QED
    BY <2>1 DEF BoundedSeq, SeqOf
<1>3. QED
  BY <1>1, <1>2

\* What is put into a channel is the last of it.
LEMMA Put ==
    ASSUME NEW S, NEW channel \in Seq(S), NEW elt \in S, NEW longer,
           longer = Append(channel, elt)
    PROVE  /\ longer \in Seq(S)
           /\ Len(channel) \in Nat /\ Len(longer) = Len(channel) + 1
           /\ \A i \in 1 .. Len(longer) :
                \/ i \in 1 .. Len(channel) /\ longer[i] = channel[i]
                \/ i = Len(channel) + 1 /\ longer[i] = elt
<1>1. Len(channel) \in Nat
  BY LenProperties
<1>2. QED
  BY <1>1, AppendProperties

\* What is taken out of a channel is the first of it, and the others follow.
LEMMA Take ==
    ASSUME NEW S, NEW channel \in Seq(S), channel # <<>>, NEW rest,
           rest = Tail(channel)
    PROVE  /\ rest \in Seq(S) /\ Head(channel) \in S
           /\ Len(channel) \in Nat /\ Len(rest) = Len(channel) - 1
           /\ 1 \in 1 .. Len(channel) /\ channel[1] = Head(channel)
           /\ \A i \in 1 .. Len(rest) :
                i + 1 \in 1 .. Len(channel) /\ rest[i] = channel[i + 1]
<1>1. Len(channel) \in Nat \ {0}
  BY EmptySeq
<1>2. QED
  BY <1>1, HeadTailProperties

\* A size that is put behind those before it leaves a channel in order.
LEMMA PutInOrder ==
    ASSUME NEW S, NEW channel \in Seq(S), NEW elt \in S, NEW longer,
           longer = Append(channel, elt)
    PROVE  /\ \A size : Later(size, channel) /\ (elt \in Sizes => size < elt)
                            => Later(size, longer)
           /\ \A size : UpTo(size, channel) /\ (elt \in Sizes => elt <= size)
                            => UpTo(size, longer)
           /\ (/\ InOrder(channel)
               /\ elt \in Sizes => \A i \in 1 .. Len(channel) :
                                    channel[i] \in Sizes => channel[i] < elt)
                  => InOrder(longer)
<1>1. /\ Len(channel) \in Nat /\ Len(longer) = Len(channel) + 1
      /\ \A i \in 1 .. Len(longer) :
            \/ i \in 1 .. Len(channel) /\ longer[i] = channel[i]
            \/ i = Len(channel) + 1 /\ longer[i] = elt
  BY Put
<1>2. ASSUME NEW size, Later(size, channel), elt \in Sizes => size < elt
      PROVE  Later(size, longer)
  BY <1>1, <1>2 DEF Later
<1>3. ASSUME NEW size, UpTo(size, channel), elt \in Sizes => elt <= size
      PROVE  UpTo(size, longer)
  BY <1>1, <1>3 DEF UpTo
<1>4. ASSUME InOrder(channel),
             elt \in Sizes => \A i \in 1 .. Len(channel) :
                                    channel[i] \in Sizes => channel[i] < elt
      PROVE  InOrder(longer)
  <2> SUFFICES ASSUME NEW i \in 1 .. Len(longer), NEW j \in 1 .. Len(longer),
                      i < j, longer[i] \in Sizes, longer[j] \in Sizes
               PROVE  longer[i] < longer[j]
    BY DEF InOrder
  <2>1. i \in 1 .. Len(channel) /\ longer[i] = channel[i]
    BY <1>1
  <2>2. CASE j \in 1 .. Len(channel) /\ longer[j] = channel[j]
    BY <1>4, <2>1, <2>2 DEF InOrder
  <2>3. CASE longer[j] = elt
    BY <1>4, <2>1, <2>3
  <2>4. QED
    BY <1>1, <2>2, <2>3
<1>5. QED
  BY <1>2, <1>3, <1>4

\* What stays in a channel is in order, and later than what is taken out.
LEMMA TakeInOrder ==
    ASSUME NEW S, NEW channel \in Seq(S), channel # <<>>, NEW rest,
           rest = Tail(channel)
    PROVE  /\ \A size : Later(size, channel) => Later(size, rest)
           /\ \A size : UpTo(size, channel) => UpTo(size, rest)
           /\ InOrder(channel)
                => /\ InOrder(rest)
                   /\ Head(channel) \in Sizes => Later(Head(channel), rest)
<1>1. /\ Len(channel) \in Nat /\ Len(rest) = Len(channel) - 1
      /\ 1 \in 1 .. Len(channel) /\ channel[1] = Head(channel)
      /\ \A i \in 1 .. Len(rest) :
            i + 1 \in 1 .. Len(channel) /\ rest[i] = channel[i + 1]
  BY Take
<1>2. ASSUME NEW size, Later(size, channel) PROVE Later(size, rest)
  BY <1>1, <1>2 DEF Later
<1>3. ASSUME NEW size, UpTo(size, channel) PROVE UpTo(size, rest)
  BY <1>1, <1>3 DEF UpTo
<1>4. ASSUME InOrder(channel) PROVE InOrder(rest)
  BY <1>1, <1>4 DEF InOrder
<1>5. ASSUME InOrder(channel), Head(channel) \in Sizes
      PROVE  Later(Head(channel), rest)
  BY <1>1, <1>5 DEF InOrder, Later
<1>6. QED
  BY <1>2, <1>3, <1>4, <1>5

-----------------------------------------------------------------------------

\* TypeOK says of the channels what ChannelsOK says.
LEMMA ChannelsTyped == ChannelsOK <=> TypeOK
BY BoundedSeqDef, SizesAssumption DEF ChannelsOK, TypeOK, Frames

\* What the provers need to know of sizes and of what is no size.
LEMMA SizesAreNumbers ==
    /\ MaxSizes \in Nat /\ Capacity \in Nat \ {0} /\ MaxFrames \in Nat \ {0}
    /\ Sizes \subseteq Frames /\ \A size \in Sizes : size \in Nat
    /\ {NoSize, Keys} \subseteq Frames
    /\ NoSize \notin Sizes /\ Keys \notin Sizes /\ NoSize = 0
BY SizesAssumption, KeysAssumption DEF Sizes, Frames, NoSize

\* What was asked for up to now has been asked for before any later size.
LEMMA UpToLater ==
    ASSUME NEW channel, NEW size \in Nat, UpTo(size, channel), NEW later \in Nat
    PROVE  /\ size <= later => UpTo(later, channel)
           /\ size < later => \A i \in 1 .. Len(channel) :
                                channel[i] \in Sizes => channel[i] < later
<1>1. ASSUME NEW i \in 1 .. Len(channel), channel[i] \in Sizes
      PROVE  channel[i] \in Nat /\ channel[i] <= size
  BY <1>1, SizesAreNumbers DEF UpTo
<1>2. ASSUME NEW i \in 1 .. Len(channel), channel[i] \in Sizes, size <= later
      PROVE  channel[i] <= later
  BY <1>1, <1>2
<1>3. ASSUME NEW i \in 1 .. Len(channel), channel[i] \in Sizes, size < later
      PROVE  channel[i] < later
  BY <1>1, <1>3
<1>4. QED
  BY <1>2, <1>3 DEF UpTo

\* Nothing is on its way.
LEMMA InitResizeInv == Init => ResizeInv
<1> SUFFICES ASSUME Init PROVE ResizeInv
  OBVIOUS
<1>1. /\ <<>> \in Seq(Frames) /\ <<>> \in Seq(Sizes)
      /\ Len(<<>>) = 0
  BY EmptySeq
<1>2. ChannelsOK
  <2>1. 0 <= Capacity /\ 0 <= MaxFrames
    BY SizesAreNumbers
  <2>2. QED
    BY <1>1, <2>1 DEF Init, ChannelsOK
<1>3. OrderInv
  BY <1>1, SMT DEF Init, OrderInv, InOrder, Later, UpTo, NoSize
<1>4. QED
  BY <1>2, <1>3 DEF ResizeInv

\* A user sends a frame: a size in it is later than all before it.
LEMMA SendInv ==
    ASSUME ResizeInv, NEW frame \in Frames, SendFrame(frame),
           asked' \in Sizes \cup {0}, asked <= asked',
           frame \in Sizes => frame = asked' /\ asked < frame
    PROVE  ResizeInv'
<1> USE SizesAreNumbers DEF ResizeInv
<1>1. /\ Len(frames) < MaxFrames
      /\ frames' = Append(frames, frame)
      /\ UNCHANGED <<writing, queue, next, shown, stream>>
      /\ frames \in Seq(Frames)
  BY DEF SendFrame, ChannelsOK
<1>2. ChannelsOK'
  BY <1>1, Put DEF ChannelsOK
<1>3. asked \in Nat /\ shown \in Nat /\ next \in Nat /\ asked' \in Nat
  BY DEF ChannelsOK
<1>4. \A i \in 1 .. Len(queue) : queue[i] \in Sizes
  BY ElementOfSeq DEF ChannelsOK
<1>5. ASSUME NEW size \in Nat, size <= asked, Later(size, frames)
      PROVE  Later(size, frames')
  <2>1. frame \in Sizes => size < frame
    BY <1>3, <1>5
  <2>2. QED
    BY <1>1, <1>5, <2>1, PutInOrder
<1>6. UpTo(asked', frames')
  <2>1. UpTo(asked', frames)
    BY <1>3, UpToLater DEF OrderInv
  <2>2. frame \in Sizes => frame <= asked'
    BY <1>3
  <2>3. QED
    BY <1>1, <2>1, <2>2, PutInOrder
<1>7. InOrder(frames')
  <2>1. frame \in Sizes => \A i \in 1 .. Len(frames) :
                              frames[i] \in Sizes => frames[i] < frame
    BY <1>3, UpToLater DEF OrderInv
  <2>2. QED
    BY <1>1, <2>1, PutInOrder DEF OrderInv
<1>8. UpTo(asked', queue) /\ shown <= asked' /\ next <= asked'
  <2>1. UpTo(asked', queue)
    BY <1>3, UpToLater DEF OrderInv
  <2>2. QED
    BY <1>3, <2>1 DEF OrderInv
<1>9. \A i \in 1 .. Len(queue) : Later(queue[i], frames')
  BY <1>4, <1>5 DEF OrderInv, UpTo
<1>10. Later(shown, frames') /\ (next # NoSize => Later(next, frames'))
  BY <1>3, <1>5 DEF OrderInv
<1>11. OrderInv'
  <2>1. queue' = queue /\ shown' = shown /\ next' = next
    BY <1>1
  <2>2. QED
    BY <1>6, <1>7, <1>8, <1>9, <1>10, <2>1
       DEF OrderInv, UpTo, Later, InOrder, NoSize
<1>12. QED
  BY <1>2, <1>11

\* The handler takes a frame; a size in it is put into the queue, or dropped.
LEMMA ReadFrameInv ==
    ASSUME ResizeInv, ReadFrame
    PROVE  ResizeInv'
<1> USE SizesAreNumbers DEF ResizeInv
<1> DEFINE frame == Head(frames)
<1>1. /\ frames \in Seq(Frames) /\ frames # <<>> /\ frames' = Tail(frames)
      /\ queue \in Seq(Sizes)
      /\ UNCHANGED <<asked, next, shown, stream>>
      /\ writing' \in BOOLEAN
  BY DEF ReadFrame, ChannelsOK
<1>2. /\ frames' \in Seq(Frames) /\ Len(frames') <= MaxFrames
      /\ 1 \in 1 .. Len(frames) /\ frames[1] = frame
  BY <1>1, Take DEF ChannelsOK
<1>3. /\ \A size : Later(size, frames) => Later(size, frames')
      /\ UpTo(asked, frames') /\ InOrder(frames')
      /\ frame \in Sizes => Later(frame, frames')
  BY <1>1, TakeInOrder DEF OrderInv
<1>4. asked \in Nat /\ shown \in Nat /\ next \in Nat
  BY DEF ChannelsOK
<1>5. ASSUME UNCHANGED queue PROVE ResizeInv'
  <2>1. ChannelsOK'
    BY <1>1, <1>2, <1>5 DEF ChannelsOK
  <2>2. OrderInv'
    BY <1>1, <1>3, <1>5 DEF OrderInv, UpTo, Later, InOrder, NoSize
  <2>3. QED
    BY <2>1, <2>2
<1>6. ASSUME frame \in Sizes, Len(queue) < Capacity,
             queue' = Append(queue, frame)
      PROVE  ResizeInv'
  <2>1. /\ queue' \in Seq(Sizes) /\ Len(queue') <= Capacity
        /\ Len(queue) \in Nat /\ Len(queue') = Len(queue) + 1
        /\ \A i \in 1 .. Len(queue') :
                \/ i \in 1 .. Len(queue) /\ queue'[i] = queue[i]
                \/ queue'[i] = frame
    BY <1>1, <1>6, Put
  <2>2. ChannelsOK'
    BY <1>1, <1>2, <2>1 DEF ChannelsOK
  <2>3. /\ frame <= asked /\ shown < frame
        /\ next # NoSize => next < frame
        /\ \A i \in 1 .. Len(queue) : queue[i] < frame
    BY <1>2, <1>6 DEF OrderInv, UpTo, Later
  <2>4. /\ UpTo(asked, queue') /\ InOrder(queue') /\ Later(shown, queue')
        /\ next # NoSize => Later(next, queue')
    BY <1>1, <1>6, <2>3, PutInOrder DEF OrderInv
  <2>5. \A i \in 1 .. Len(queue') : Later(queue'[i], frames')
    BY <1>3, <1>6, <2>1 DEF OrderInv
  <2>6. OrderInv'
    BY <1>1, <1>3, <2>4, <2>5 DEF OrderInv, UpTo, Later, InOrder, NoSize
  <2>7. QED
    BY <2>2, <2>6
<1>7. QED
  BY <1>5, <1>6 DEF ReadFrame, HandleControl, Push

\* client-go takes a size out of the queue, writes it, or fails to write it.
LEMMA ResizerInv ==
    ASSUME ResizeInv, Resizer
    PROVE  ResizeInv'
<1> USE SizesAreNumbers DEF ResizeInv
<1>1. asked \in Nat /\ shown \in Nat /\ next \in Nat
  BY DEF ChannelsOK
<1>2. CASE TakeNext
  <2>1. /\ queue \in Seq(Sizes) /\ queue # <<>> /\ queue' = Tail(queue)
        /\ next' = Head(queue)
        /\ UNCHANGED <<asked, frames, writing, shown, stream>>
    BY <1>2 DEF TakeNext, ChannelsOK
  <2>2. /\ queue' \in Seq(Sizes) /\ Len(queue') <= Capacity
        /\ Len(queue) \in Nat
        /\ next' \in Sizes
        /\ 1 \in 1 .. Len(queue) /\ queue[1] = next'
        /\ \A i \in 1 .. Len(queue') :
                i + 1 \in 1 .. Len(queue) /\ queue'[i] = queue[i + 1]
    BY <2>1, Take DEF ChannelsOK
  <2>3. /\ UpTo(asked, queue') /\ InOrder(queue') /\ Later(shown, queue')
        /\ Later(next', queue')
    <3>1. UpTo(asked, queue')
      BY <2>2 DEF OrderInv, UpTo
    <3>2. InOrder(queue')
      <4>1. ASSUME NEW i \in 1 .. Len(queue'), NEW j \in 1 .. Len(queue'),
                   i < j, queue'[i] \in Sizes, queue'[j] \in Sizes
            PROVE  queue'[i] < queue'[j]
        <5>1. /\ i + 1 \in 1 .. Len(queue) /\ j + 1 \in 1 .. Len(queue)
              /\ i + 1 < j + 1
              /\ queue'[i] = queue[i + 1] /\ queue'[j] = queue[j + 1]
          BY <2>2, <4>1
        <5>2. QED
          BY <4>1, <5>1 DEF OrderInv, InOrder
      <4>2. QED
        BY <4>1 DEF InOrder
    <3>3. ASSUME NEW i \in 1 .. Len(queue'), queue'[i] \in Sizes
          PROVE  shown < queue'[i] /\ next' < queue'[i]
      <4>1. i + 1 \in 1 .. Len(queue) /\ 1 < i + 1 /\ queue'[i] = queue[i + 1]
        BY <2>2, <3>3
      <4>2. shown < queue[i + 1]
        BY <3>3, <4>1 DEF OrderInv, Later
      <4>3. queue[1] < queue[i + 1]
        BY <2>2, <3>3, <4>1 DEF OrderInv, InOrder
      <4>4. QED
        BY <2>2, <4>1, <4>2, <4>3
    <3>4. Later(shown, queue') /\ Later(next', queue')
      BY <3>3 DEF Later
    <3>5. QED
      BY <3>1, <3>2, <3>3, <3>4
  <2>4. next' <= asked /\ shown < next' /\ Later(next', frames)
    BY <2>2 DEF OrderInv, UpTo, Later
  <2>5. \A i \in 1 .. Len(queue') : Later(queue'[i], frames)
    BY <2>2 DEF OrderInv
  <2>6. ChannelsOK'
    BY <2>1, <2>2 DEF ChannelsOK
  <2>7. OrderInv'
    BY <2>1, <2>3, <2>4, <2>5 DEF OrderInv, UpTo, Later, InOrder
  <2>8. QED
    BY <2>6, <2>7
<1>3. CASE Encode
  <2>1. /\ next # NoSize /\ shown' = next /\ next' = NoSize
        /\ UNCHANGED <<asked, frames, writing, queue, stream>>
    BY <1>3 DEF Encode
  <2>2. ChannelsOK'
    BY <2>1 DEF ChannelsOK
  <2>3. OrderInv'
    BY <1>1, <2>1 DEF OrderInv, UpTo, Later, InOrder
  <2>4. QED
    BY <2>2, <2>3
<1>4. CASE EncodeFails
  <2>1. next' = NoSize /\ UNCHANGED <<asked, frames, writing, queue, shown, stream>>
    BY <1>4 DEF EncodeFails
  <2>2. ChannelsOK'
    BY <2>1 DEF ChannelsOK
  <2>3. OrderInv'
    BY <1>1, <2>1 DEF OrderInv, UpTo, Later, InOrder
  <2>4. QED
    BY <2>2, <2>3
<1>5. QED
  BY <1>2, <1>3, <1>4 DEF Resizer

\* Every step keeps the sizes in order.
LEMMA NextResizeInv == ResizeInv /\ [Next]_vars => ResizeInv'
<1> SUFFICES ASSUME ResizeInv, [Next]_vars PROVE ResizeInv'
  OBVIOUS
<1>1. CASE AskSize
  <2>1. asked' \in Sizes /\ asked' = asked + 1 /\ asked \in Nat
    BY <1>1, SizesAreNumbers DEF AskSize, ResizeInv, ChannelsOK, Sizes
  <2>2. QED
    BY <1>1, <2>1, SizesAreNumbers, SendInv DEF AskSize
<1>2. CASE SendOther
  <2>1. asked' = asked /\ asked \in Sizes \cup {0} /\ asked \in Nat
    BY <1>2, SizesAreNumbers DEF SendOther, ResizeInv, ChannelsOK
  <2>2. PICK frame \in {NoSize, Keys} : SendFrame(frame)
    BY <1>2 DEF SendOther
  <2>3. asked' \in Sizes \cup {0} /\ asked <= asked'
    BY <2>1
  <2>4. frame \in Frames /\ frame \notin Sizes
    BY SizesAreNumbers
  <2>5. QED
    BY <2>2, <2>3, <2>4, SendInv
<1>3. ASSUME UNCHANGED <<asked, frames, queue, next, shown>>,
             writing' \in BOOLEAN, stream' \in {"open", "stalled", "ended"}
      PROVE  ResizeInv'
  BY <1>3 DEF ResizeInv, ChannelsOK, OrderInv, UpTo, Later, InOrder
<1>4. CASE Stall \/ End
  BY <1>3, <1>4 DEF Stall, End, ResizeInv, ChannelsOK
<1>5. CASE ReadFrame
  BY <1>5, ReadFrameInv
<1>6. CASE InputTaken
  BY <1>3, <1>6 DEF InputTaken, ResizeInv, ChannelsOK
<1>7. CASE Resizer
  BY <1>7, ResizerInv
<1>8. CASE UNCHANGED vars
  BY <1>3, <1>8 DEF vars, ResizeInv, ChannelsOK
<1>9. QED
  BY <1>1, <1>2, <1>4, <1>5, <1>6, <1>7, <1>8 DEF Next

\* The invariant holds in every reachable state.
LEMMA ResizeCorrect == Spec => []ResizeInv
BY InitResizeInv, NextResizeInv, PTL DEF Spec

-----------------------------------------------------------------------------

\* Every variable of the sizes' way keeps its type: neither the channel of
\* resizeQueue nor the connection ever holds more than it has room for.
THEOREM ResizeTyped == Spec => []TypeOK
<1>1. ResizeInv => TypeOK
  BY ChannelsTyped DEF ResizeInv
<1>2. QED
  BY <1>1, ResizeCorrect, PTL

\* The remote terminal never goes back to a size the user asked for earlier,
\* whichever sizes the full queue has dropped.
THEOREM SizesArriveInOrder == Spec => SizesInOrder
<1>1. ResizeInv /\ [Next]_vars => [shown' # shown => shown' > shown]_vars
  <2> SUFFICES ASSUME ResizeInv, Next, shown' # shown PROVE shown' > shown
    BY DEF vars
  <2>1. next # NoSize /\ shown' = next
    BY DEF Next, AskSize, SendOther, SendFrame, Stall, End, ReadFrame,
           InputTaken, Resizer, TakeNext, Encode, EncodeFails
  <2>2. shown < next /\ shown \in Nat /\ next \in Nat
    BY <2>1, SizesAreNumbers DEF ResizeInv, ChannelsOK, OrderInv
  <2>3. QED
    BY <2>1, <2>2
<1>2. QED
  BY <1>1, ResizeCorrect, PTL DEF Spec, SizesInOrder
=============================================================================
