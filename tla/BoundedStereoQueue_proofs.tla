---------------------- MODULE BoundedStereoQueue_proofs ----------------------
(***************************************************************************)
(* Proofs about the sound queue, for every value of its constants: lemmas  *)
(* on what each of its operators does to a queue, which the proofs of the  *)
(* shared queue cite as well, and every property of the queue on its own.  *)
(***************************************************************************)
EXTENDS BoundedStereoQueue, SequenceTheorems, TLAPS

\* A queue the operations can meet: well-typed and within its capacity.
Queue(r) == r \in QueueType /\ Len(r.frames) <= Capacity
-----------------------------------------------------------------------------
(***************************************************************************)
(* Lemmas on the operators.                                                *)
(***************************************************************************)

\* Where a suffix of n of k elements starts.
LEMMA SuffixStart ==
  ASSUME NEW k \in Nat, NEW n \in Nat
  PROVE  /\ Least(n, k) \in Nat /\ Least(n, k) <= k /\ Least(n, k) <= n
         /\ Greatest(1, k - n + 1) = k - Least(n, k) + 1
BY DEF Least, Greatest

\* LastN is a suffix of the expected length.
LEMMA LastNSuffix ==
  ASSUME NEW s \in Seq(Frame), NEW n \in Nat
  PROVE  /\ LastN(s, n) \in Seq(Frame)
         /\ Len(LastN(s, n)) = Least(n, Len(s))
         /\ \A i \in 1..Least(n, Len(s)) :
              LastN(s, n)[i] = s[Len(s) - Least(n, Len(s)) + i]
<1> DEFINE k == Len(s)
           l == Least(n, k)
           m == Greatest(1, k - n + 1)
<1>0. k \in Nat
  BY LenProperties
<1> HIDE DEF k
<1>1. k \in Nat /\ m \in Nat /\ 1 <= m /\ l \in Nat /\ l <= k /\ m = k - l + 1
  <2>1. l \in Nat /\ l <= k /\ m = k - l + 1
    BY <1>0, SuffixStart
  <2> HIDE DEF l, m
  <2>2. QED
    BY <1>0, <2>1
<1>2. \A i \in m..k : s[i] \in Frame
  BY <1>1 DEF k
<1> HIDE DEF m, l
<1>3. /\ SubSeq(s, m, k) \in Seq(Frame)
      /\ Len(SubSeq(s, m, k)) = IF m <= k THEN k - m + 1 ELSE 0
      /\ \A i \in 1..k - m + 1 : SubSeq(s, m, k)[i] = s[m + i - 1]
  BY <1>1, <1>2, SubSeqProperties
<1>4. Len(SubSeq(s, m, k)) = l
  BY <1>1, <1>3
<1>5. \A i \in 1..l : SubSeq(s, m, k)[i] = s[k - l + i]
  <2>1. ASSUME NEW i \in 1..l PROVE m + i - 1 = k - l + i /\ i \in 1..k - m + 1
    BY <1>1
  <2>2. QED
    BY <1>3, <2>1
<1>6. LastN(s, n) = SubSeq(s, m, k)
  BY DEF LastN, m, k
<1>7. QED
  BY <1>3, <1>4, <1>5, <1>6 DEF l, k

\* The fields that filling the queue leaves alone.
SameOutput(p, r) ==
  /\ p.popped = r.popped /\ p.underflow = r.underflow /\ p.output = r.output
  /\ p.repeated = r.repeated /\ p.concealed = r.concealed
  /\ p.starvation = r.starvation /\ p.prepared = r.prepared
  /\ p.low = r.low /\ p.critical = r.critical /\ p.last = r.last
  /\ p.lastValid = r.lastValid /\ p.starved = r.starved /\ p.phase = r.phase

\* Re-arming the recovery runs touches nothing but the two run lengths.
LEMMA ResetKeeps ==
  ASSUME NEW r \in QueueType
  PROVE  LET p == ResetRecoveryRuns(r) IN
         /\ p \in QueueType
         /\ p.frames = r.frames /\ p.pushed = r.pushed
         /\ p.dropped = r.dropped /\ p.peak = r.peak
         /\ SameOutput(p, r)
<1>1. 0 \in 0..MaxConcealment
  BY QueueConstants
<1>2. QED
  BY <1>1 DEF ResetRecoveryRuns, QueueType, SameOutput

\* What a refill with the frames fs does to the queue r, whichever way they come:
\* every frame is counted as pushed and kept or dropped, and the newest are kept.
Filled(p, r, fs) ==
  /\ Queue(p)
  /\ SameOutput(p, r)
  /\ p.pushed = r.pushed + Len(fs)
  /\ p.dropped + Len(p.frames) = r.dropped + Len(r.frames) + Len(fs)
  /\ Len(p.frames) <= Len(r.frames) + Len(fs)
  /\ r.frames # <<>> => p.frames # <<>>
  /\ \A i \in 1..Len(p.frames) :
       p.frames[i] = (r.frames \o fs)[Len(r.frames) + Len(fs) - Len(p.frames) + i]

\* Storing kept and counting Len(fs) frames pushed and d dropped.
Refill(r, fs, kept, d) ==
  ResetRecoveryRuns(
    [r EXCEPT !.frames = kept,
              !.pushed = r.pushed + Len(fs),
              !.dropped = r.dropped + d,
              !.peak = Greatest(r.peak, Len(kept))])

\* kept is what is left of the queue and fs when the d oldest frames are dropped.
Keeps(r, fs, kept, d) ==
  /\ kept \in Seq(Frame) /\ d \in Nat
  /\ Len(kept) <= Capacity
  /\ Len(kept) + d = Len(r.frames) + Len(fs)
  /\ r.frames # <<>> => kept # <<>>
  /\ \A i \in 1..Len(kept) :
       kept[i] = (r.frames \o fs)[Len(r.frames) + Len(fs) - Len(kept) + i]

\* A refill that keeps the newest frames has the effect of Filled.
LEMMA RefillEffect ==
  ASSUME NEW r, Queue(r), NEW fs \in Seq(Frame), NEW kept, NEW d,
         Keeps(r, fs, kept, d)
  PROVE  Filled(Refill(r, fs, kept, d), r, fs)
<1> DEFINE a == Len(kept)
           b == Len(fs)
           c == Len(r.frames)
           e == r.dropped
           peak == Greatest(r.peak, a)
           g == [r EXCEPT !.frames = kept, !.pushed = r.pushed + b,
                          !.dropped = e + d, !.peak = peak]
           p == ResetRecoveryRuns(g)
<1>1. /\ a \in Nat /\ b \in Nat /\ c \in Nat /\ Capacity \in Nat
      /\ e \in Nat /\ r.pushed \in Nat /\ r.peak \in 0..Capacity
      /\ d \in Nat /\ kept \in Seq(Frame)
      /\ a <= Capacity /\ a + d = c + b
  BY QueueConstants, LenProperties DEF Queue, QueueType, Keeps
<1> HIDE DEF a, b, c, e
<1>2. /\ peak \in 0..Capacity /\ r.pushed + b \in Nat /\ e + d \in Nat
      /\ (e + d) + a = e + c + b
      /\ a <= c + b
  BY <1>1 DEF Greatest
<1> HIDE DEF peak
<1>3. /\ g \in QueueType
      /\ g.frames = kept
      /\ g.pushed = r.pushed + b
      /\ g.dropped = e + d
      /\ SameOutput(g, r)
  BY <1>1, <1>2 DEF Queue, QueueType, SameOutput
<1> HIDE DEF g
<1>4. /\ p \in QueueType
      /\ p.frames = kept
      /\ p.pushed = r.pushed + b
      /\ p.dropped = e + d
      /\ SameOutput(p, r)
  BY <1>3, ResetKeeps DEF SameOutput
<1>5. Refill(r, fs, kept, d) = p
  BY DEF Refill, p, g, peak, a, b, e
<1> HIDE DEF p
<1>6. Queue(p)
  BY <1>1, <1>4 DEF Queue, a
<1>7. p.pushed = r.pushed + Len(fs)
  BY <1>4 DEF b
<1>8. p.dropped + Len(p.frames) = r.dropped + Len(r.frames) + Len(fs)
  BY <1>2, <1>4 DEF a, b, c, e
<1>9. Len(p.frames) <= Len(r.frames) + Len(fs)
  BY <1>2, <1>4 DEF a, b, c
<1>10. r.frames # <<>> => p.frames # <<>>
  BY <1>4 DEF Keeps
<1>11. \A i \in 1..Len(p.frames) :
         p.frames[i] = (r.frames \o fs)[Len(r.frames) + Len(fs) - Len(p.frames) + i]
  BY <1>4 DEF Keeps
<1>12. QED
  BY <1>4, <1>5, <1>6, <1>7, <1>8, <1>9, <1>10, <1>11 DEF Filled

\* push_slice: what a slice does, the empty one included.
LEMMA PushSliceEffect ==
  ASSUME NEW r, Queue(r), NEW fs \in Seq(Frame)
  PROVE  Filled(PushSlice(r, fs), r, fs)
<1>0. /\ r.frames \in Seq(Frame) /\ Len(r.frames) \in Nat /\ Len(fs) \in Nat
      /\ Capacity \in Nat /\ Capacity > 0
  BY QueueConstants, LenProperties DEF Queue, QueueType
<1>1. CASE fs = <<>>
  <2>1. Len(fs) = 0 /\ r.frames \o fs = r.frames
    BY <1>0, <1>1, ConcatEmptySeq
  <2>2. PushSlice(r, fs) = r
    BY <1>1 DEF PushSlice
  <2>3. QED
    BY <1>0, <2>1, <2>2, SMTT(30) DEF Filled, Queue, QueueType, SameOutput
<1>2. CASE fs # <<>>
  <2> DEFINE both == r.frames \o fs
             kept == LastN(both, Capacity)
             d == Len(r.frames) + Len(fs) - Len(kept)
  <2>1. both \in Seq(Frame) /\ Len(both) = Len(r.frames) + Len(fs)
    BY <1>0, ConcatProperties
  <2>2. /\ kept \in Seq(Frame) /\ Len(kept) = Least(Capacity, Len(both))
        /\ \A i \in 1..Least(Capacity, Len(both)) :
             kept[i] = both[Len(both) - Least(Capacity, Len(both)) + i]
    BY <1>0, <2>1, LastNSuffix
  <2>3. Len(fs) > 0
    BY <1>0, <1>2, EmptySeq
  <2>4. /\ Len(kept) \in Nat /\ Len(kept) <= Capacity /\ Len(kept) > 0
        /\ Len(kept) <= Len(both)
    BY <1>0, <2>1, <2>2, <2>3 DEF Least
  <2> HIDE DEF kept, both
  <2>5. kept # <<>>
    BY <2>2, <2>4, EmptySeq
  <2>6. d \in Nat /\ Len(kept) + d = Len(r.frames) + Len(fs)
    BY <1>0, <2>1, <2>4
  <2>7. \A i \in 1..Len(kept) : kept[i] = both[Len(r.frames) + Len(fs) - Len(kept) + i]
    <3>1. \A i \in 1..Len(kept) : kept[i] = both[Len(both) - Len(kept) + i]
      BY <2>2
    <3>2. QED
      BY <2>1, <3>1
  <2> HIDE DEF d
  <2>8. PushSlice(r, fs) = Refill(r, fs, kept, d)
    BY <1>2 DEF PushSlice, Refill, kept, both, d
  <2>9. Keeps(r, fs, kept, d)
    BY <2>2, <2>4, <2>5, <2>6, <2>7 DEF Keeps, both
  <2>10. QED
    BY <2>8, <2>9, RefillEffect
<1>3. QED
  BY <1>1, <1>2

\* push: one frame is a slice of length one.
LEMMA PushEffect ==
  ASSUME NEW r, Queue(r), NEW f \in Frame
  PROVE  Filled(Push(r, f), r, <<f>>)
<1> DEFINE s == r.frames
           full == Len(s) = Capacity
           kept == Append(IF full THEN Tail(s) ELSE s, f)
           d == IF full THEN 1 ELSE 0
<1>1. /\ s \in Seq(Frame) /\ Len(s) \in Nat /\ Len(s) <= Capacity
      /\ Capacity \in Nat /\ Capacity > 0
  BY QueueConstants, LenProperties DEF Queue, QueueType
<1>2. <<f>> \in Seq(Frame) /\ Len(<<f>>) = 1 /\ <<f>>[1] = f
  OBVIOUS
<1>3. /\ Len(s \o <<f>>) = Len(s) + 1
      /\ \A i \in 1..Len(s) : (s \o <<f>>)[i] = s[i]
      /\ (s \o <<f>>)[Len(s) + 1] = f
  BY <1>1, <1>2, ConcatProperties
<1>4. /\ kept \in Seq(Frame) /\ Len(kept) + d = Len(s) + 1
      /\ Len(kept) <= Capacity /\ kept # <<>>
      /\ \A i \in 1..Len(kept) : kept[i] = (s \o <<f>>)[Len(s) + 1 - Len(kept) + i]
  <2>1. CASE full
    <3>1. s # <<>>
      BY <1>1, <2>1, EmptySeq
    <3>2. /\ Tail(s) \in Seq(Frame) /\ Len(Tail(s)) = Len(s) - 1
          /\ \A i \in 1..Len(s) - 1 : Tail(s)[i] = s[i + 1]
      BY <1>1, <3>1, HeadTailProperties
    <3>3. /\ kept \in Seq(Frame) /\ kept # <<>> /\ Len(kept) = Len(s)
          /\ \A i \in 1..Len(s) - 1 : kept[i] = Tail(s)[i]
          /\ kept[Len(s)] = f
      BY <1>1, <2>1, <3>2, AppendProperties
    <3>4. ASSUME NEW i \in 1..Len(s) PROVE kept[i] = (s \o <<f>>)[i + 1]
      <4>1. CASE i = Len(s)
        BY <1>1, <1>3, <3>3, <4>1
      <4>2. CASE i # Len(s)
        <5>1. i \in 1..Len(s) - 1 /\ i + 1 \in 1..Len(s)
          BY <1>1, <4>2
        <5>2. QED
          BY <1>3, <3>2, <3>3, <5>1
      <4>3. QED
        BY <4>1, <4>2
    <3>5. \A i \in 1..Len(kept) : i \in 1..Len(s) /\ Len(s) + 1 - Len(kept) + i = i + 1
      <4> DEFINE k == Len(s)
                 a == Len(kept)
      <4>1. k \in Nat /\ a = k
        BY <1>1, <3>3
      <4> HIDE DEF k, a
      <4>2. \A i \in 1..a : i \in 1..k /\ k + 1 - a + i = i + 1
        BY <4>1
      <4>3. QED
        BY <4>2 DEF k, a
    <3>6. Len(kept) + d = Len(s) + 1 /\ Len(kept) <= Capacity
      BY <1>1, <2>1, <3>3
    <3> HIDE DEF kept, d
    <3>7. QED
      BY <3>3, <3>4, <3>5, <3>6
  <2>2. CASE ~full
    <3>1. /\ kept \in Seq(Frame) /\ kept # <<>> /\ Len(kept) = Len(s) + 1
          /\ \A i \in 1..Len(s) : kept[i] = s[i]
          /\ kept[Len(s) + 1] = f
      BY <1>1, <2>2, AppendProperties
    <3>2. QED
      BY <1>1, <1>3, <2>2, <3>1
  <2>3. QED
    BY <2>1, <2>2
<1>5. d \in Nat
  OBVIOUS
<1>6. Push(r, f) = Refill(r, <<f>>, kept, d)
  <2>1. r.dropped \in Nat
    BY DEF Queue, QueueType
  <2>2. (IF full THEN r.dropped + 1 ELSE r.dropped) = r.dropped + d
    BY <2>1
  <2>3. QED
    BY <1>2, <2>2 DEF Push, Refill
<1> HIDE DEF kept, d
<1>7. Keeps(r, <<f>>, kept, d)
  BY <1>2, <1>4, <1>5 DEF Keeps
<1>8. QED
  BY <1>2, <1>6, <1>7, RefillEffect

\* The rate is one of the four fixed ones, each at most a frame per output.
LEMMA PlayoutRateRange ==
  ASSUME NEW r
  PROVE  RateOne \in Nat /\ PlayoutRate(r) \in Nat /\ PlayoutRate(r) <= RateOne
BY DEF PlayoutRate, RateEmergency, RateCritical, RateLow, RateGuard, RateOne

\* prepare_for_playback: the newest frames stay and every counter restarts.
LEMMA PrepareEffect ==
  ASSUME NEW r, Queue(r), NEW prebuffer \in Nat
  PROVE  LET p == Prepare(r, prebuffer) IN
         /\ Queue(p)
         /\ p.pushed = 0 /\ p.popped = 0 /\ p.dropped = 0 /\ p.output = 0
         /\ p.repeated = 0 /\ p.starvation = 0
         /\ Len(p.frames) <= Len(r.frames)
         /\ \A i \in 1..Len(p.frames) :
              p.frames[i] = r.frames[Len(r.frames) - Len(p.frames) + i]
<1> DEFINE s == r.frames
           keep == Least(prebuffer, Capacity)
           kept == LastN(s, keep)
           k == Len(kept)
           p == Prepare(r, prebuffer)
<1>1. /\ s \in Seq(Frame) /\ Len(s) \in Nat /\ Capacity \in Nat /\ MaxConcealment \in Nat
      /\ SmallCapacity \in Nat /\ LowFloor \in Nat /\ CriticalFloor \in Nat
  BY QueueConstants, LenProperties DEF Queue, QueueType
<1>2. keep \in Nat /\ keep <= Capacity
  BY <1>1 DEF Least
<1> HIDE DEF keep, s
<1>3. /\ kept \in Seq(Frame) /\ k = Least(keep, Len(s))
      /\ \A i \in 1..Least(keep, Len(s)) : kept[i] = s[Len(s) - Least(keep, Len(s)) + i]
  BY <1>1, <1>2, LastNSuffix
<1>4. k \in Nat /\ k <= Capacity /\ k <= Len(s)
  BY <1>1, <1>2, <1>3 DEF Least
<1>5. LowWatermark(keep) \in Nat
  BY <1>1, <1>2 DEF LowWatermark, Clamp, Greatest, Least
<1>6. CriticalWatermark(keep) \in Nat
  <2> DEFINE low == LowWatermark(keep)
  <2>1. low \in Nat
    BY <1>5
  <2> HIDE DEF low
  <2>2. /\ Least(Greatest(low \div 4, 1), low) \in Nat
        /\ Least(Clamp(low \div 2, CriticalFloor, low), low) \in Nat
    BY <1>1, <2>1 DEF Clamp, Greatest, Least
  <2>3. QED
    BY <2>2 DEF CriticalWatermark, low
<1>7. (IF kept = <<>> THEN Silence ELSE Head(kept)) \in Frame \cup {Silence}
  BY <1>3, HeadTailProperties
<1> DEFINE low == LowWatermark(keep)
           critical == CriticalWatermark(keep)
           last == IF kept = <<>> THEN Silence ELSE Head(kept)
           valid == kept # <<>>
           w == [NewQueue EXCEPT !.frames = kept, !.peak = k, !.prepared = TRUE,
                                 !.low = low, !.critical = critical,
                                 !.last = last, !.lastValid = valid]
<1>a. p = w
  BY DEF Prepare, s, keep
<1>b. /\ low \in Nat /\ critical \in Nat /\ last \in Frame \cup {Silence}
      /\ valid \in BOOLEAN /\ k \in 0..Capacity /\ kept \in Seq(Frame)
  BY <1>1, <1>3, <1>4, <1>5, <1>6, <1>7
<1> HIDE DEF p, kept, k, low, critical, last, valid
<1>c. NewQueue \in QueueType
  BY <1>1, EmptySeq, PlayoutRateRange DEF NewQueue, QueueType
<1>d. w \in QueueType
  BY <1>b, <1>c DEF QueueType
<1>e. /\ w.frames = kept
      /\ w.pushed = 0 /\ w.popped = 0 /\ w.dropped = 0 /\ w.output = 0
      /\ w.repeated = 0 /\ w.starvation = 0
  BY DEF NewQueue
<1> HIDE DEF w
<1>8. /\ p \in QueueType
      /\ p.frames = kept
      /\ p.pushed = 0 /\ p.popped = 0 /\ p.dropped = 0 /\ p.output = 0
      /\ p.repeated = 0 /\ p.starvation = 0
  BY <1>a, <1>d, <1>e
<1> HIDE DEF p
<1>9. Queue(p) /\ Len(p.frames) <= Len(r.frames)
  BY <1>4, <1>8 DEF Queue, k, s
<1>10. \A i \in 1..Len(p.frames) : p.frames[i] = s[Len(s) - Len(p.frames) + i]
  BY <1>3, <1>8 DEF k
<1>11. QED
  BY <1>8, <1>9, <1>10 DEF p, s
-----------------------------------------------------------------------------
(***************************************************************************)
(* What one output frame does to the queue r.                              *)
(***************************************************************************)

\* A real frame is taken out.
Taken(p, r) ==
  /\ r.frames # <<>> /\ p.frames = Tail(r.frames)
  /\ p.popped = r.popped + 1 /\ p.output = r.output + 1
  /\ p.repeated = r.repeated /\ p.starvation = r.starvation

\* A frame is interpolated, and a third of the output stays the limit.
Stretched(p, r) ==
  /\ r.frames # <<>> /\ p.frames = r.frames
  /\ p.popped = r.popped /\ p.output = r.output + 1
  /\ p.repeated = r.repeated + 1 /\ p.starvation = r.starvation
  /\ 3 * p.repeated <= p.output

\* Nothing is queued; a starvation is counted when the spell begins.
Starved(p, r) ==
  /\ r.frames = <<>> /\ p.frames = <<>>
  /\ p.popped = r.popped /\ p.output = r.output + 1
  /\ p.repeated = r.repeated
  /\ \/ p.starvation = r.starvation /\ p.starved = r.starved
     \/ p.starvation = r.starvation + 1 /\ ~r.starved /\ p.starved
     \/ p.starvation = r.starvation /\ p.starved

Drained(p, r) ==
  /\ Queue(p)
  /\ p.pushed = r.pushed /\ p.dropped = r.dropped
  /\ Taken(p, r) \/ Stretched(p, r) \/ Starved(p, r)

\* Taking the head out of a queue leaves a queue.
LEMMA TakeFrameEffect ==
  ASSUME NEW r, Queue(r), r.frames # <<>>
  PROVE  Drained(TakeFrame(r), r) /\ TakeFrame(r).phase = r.phase
<1>1. r.frames \in Seq(Frame) /\ r.popped \in Nat /\ r.output \in Nat /\ r \in QueueType
  BY DEF Queue, QueueType
<1>2. /\ Head(r.frames) \in Frame /\ Tail(r.frames) \in Seq(Frame)
      /\ Len(Tail(r.frames)) = Len(r.frames) - 1 /\ Len(r.frames) \in Nat
  BY <1>1, HeadTailProperties, LenProperties
<1>3. Len(Tail(r.frames)) <= Capacity
  BY <1>2, QueueConstants DEF Queue
<1> DEFINE h == Head(r.frames)
           t == Tail(r.frames)
           n == r.popped + 1
           o == r.output + 1
           p == [r EXCEPT !.frames = t, !.popped = n, !.output = o, !.last = h,
                          !.lastValid = TRUE, !.starved = FALSE]
<1>4. n \in Nat /\ o \in Nat /\ h \in Frame /\ t \in Seq(Frame)
  BY <1>1, <1>2
<1>5. TakeFrame(r) = p
  BY DEF TakeFrame
<1> HIDE DEF h, t, n, o
<1>6. /\ p \in QueueType /\ p.frames = t /\ p.pushed = r.pushed
      /\ p.dropped = r.dropped /\ p.popped = n
      /\ p.output = o /\ p.repeated = r.repeated
      /\ p.starvation = r.starvation /\ p.phase = r.phase
  BY <1>1, <1>4 DEF QueueType
<1> HIDE DEF p
<1>7. QED
  BY <1>3, <1>5, <1>6 DEF Drained, Taken, Queue, t, n, o

\* Setting the phase leaves the effect alone.
LEMMA PhaseEffect ==
  ASSUME NEW r, NEW u, Drained(u, r), NEW x \in 0..RateOne
  PROVE  Drained([u EXCEPT !.phase = x], r)
<1> DEFINE p == [u EXCEPT !.phase = x]
<1>1. u \in QueueType /\ Len(u.frames) <= Capacity
  BY DEF Drained, Queue
<1>2. /\ p \in QueueType /\ p.frames = u.frames /\ p.pushed = u.pushed
      /\ p.dropped = u.dropped /\ p.popped = u.popped /\ p.output = u.output
      /\ p.repeated = u.repeated /\ p.starvation = u.starvation
      /\ p.starved = u.starved
  BY <1>1 DEF QueueType
<1> HIDE DEF p
<1>3. QED
  BY <1>1, <1>2 DEF Drained, Queue, Taken, Stretched, Starved, p

\* The phase after a real frame stays within one frame.
LEMMA PhaseRange ==
  ASSUME NEW r, Queue(r)
  PROVE  PhaseAfterTake(r) \in 0..RateOne
<1> DEFINE x == r.phase
           y == PlayoutRate(r)
<1>1. x \in 0..RateOne /\ RateOne \in Nat /\ y \in Nat /\ y <= RateOne
  BY PlayoutRateRange DEF Queue, QueueType
<1> HIDE DEF x, y
<1>2. Greatest(x + y, RateOne) - RateOne \in 0..RateOne /\ RateOne \in 0..RateOne
  BY <1>1 DEF Greatest
<1>3. QED
  BY <1>2 DEF PhaseAfterTake, x, y

\* A stretched frame, when the code allows one.
LEMMA StretchEffect ==
  ASSUME NEW r, Queue(r), Stretches(r)
  PROVE  Drained(Stretch(r), r)
<1> DEFINE x == r.phase + PlayoutRate(r)
           o == r.output + 1
           n == r.repeated + 1
           k == r.stretch + 1
           p == [r EXCEPT !.phase = x, !.output = o, !.repeated = n,
                          !.stretch = k, !.starved = FALSE]
<1>1. /\ r \in QueueType /\ r.phase \in 0..RateOne /\ r.output \in Nat
      /\ r.repeated \in Nat /\ r.stretch \in Nat /\ Len(r.frames) <= Capacity
  BY DEF Queue, QueueType
<1>2. /\ r.phase + PlayoutRate(r) < RateOne /\ 3 * (r.repeated + 1) <= r.output + 1
      /\ r.frames # <<>>
  BY DEF Stretches, CanStretch, BelowLowWater
<1>3. x \in 0..RateOne
  <2> DEFINE y == PlayoutRate(r)
             z == r.phase
  <2>1. y \in Nat /\ z \in 0..RateOne /\ z + y < RateOne /\ RateOne \in Nat
    BY <1>1, <1>2, PlayoutRateRange
  <2> HIDE DEF y, z
  <2>2. z + y \in 0..RateOne
    BY <2>1
  <2>3. QED
    BY <2>2 DEF y, z
<1>4. o \in Nat /\ n \in Nat /\ k \in Nat /\ 3 * n <= o
  BY <1>1, <1>2, SMTT(30)
<1>5. Stretch(r) = p
  BY DEF Stretch
<1> HIDE DEF x, o, n, k
<1>6. /\ p \in QueueType /\ p.frames = r.frames /\ p.pushed = r.pushed
      /\ p.dropped = r.dropped /\ p.popped = r.popped /\ p.output = o
      /\ p.repeated = n /\ p.starvation = r.starvation
  BY <1>1, <1>3, <1>4 DEF QueueType
<1> HIDE DEF p
<1>7. Stretched(p, r)
  BY <1>2, <1>4, <1>6 DEF Stretched, o, n
<1>8. QED
  BY <1>1, <1>5, <1>6, <1>7 DEF Drained, Queue

\* Popping an empty queue: one starvation per spell, concealed or silent.
LEMMA StarveEffect ==
  ASSUME NEW r, Queue(r), r.frames = <<>>
  PROVE  Drained(Starve(r), r)
<1> DEFINE o == r.output + 1
           a == IF r.prepared /\ ~r.starved THEN r.starvation + 1 ELSE r.starvation
           b == r.starved \/ r.prepared
           c == IF Conceals(r) THEN r.conceal + 1 ELSE r.conceal
           d == IF Conceals(r) THEN r.concealed + 1 ELSE r.concealed
           e == IF Conceals(r) THEN r.underflow ELSE r.underflow + 1
           x == RateOne
           p == [r EXCEPT !.phase = x, !.output = o, !.starvation = a,
                          !.starved = b, !.conceal = c, !.concealed = d,
                          !.underflow = e]
<1>1. /\ r \in QueueType /\ r.output \in Nat /\ r.starvation \in Nat
      /\ r.starved \in BOOLEAN /\ r.prepared \in BOOLEAN
      /\ r.conceal \in 0..MaxConcealment /\ r.concealed \in Nat
      /\ r.underflow \in Nat /\ Len(r.frames) <= Capacity
  BY DEF Queue, QueueType
<1>2. /\ o \in Nat /\ a \in Nat /\ b \in BOOLEAN /\ d \in Nat /\ e \in Nat
      /\ x \in 0..RateOne
  <2>1. o \in Nat /\ a \in Nat /\ d \in Nat /\ e \in Nat
    BY <1>1
  <2>2. b \in BOOLEAN
    BY <1>1
  <2>3. RateOne \in Nat
    BY PlayoutRateRange
  <2>4. QED
    BY <2>1, <2>2, <2>3
<1>3. c \in 0..MaxConcealment
  BY <1>1, QueueConstants DEF Conceals
<1>4. \/ a = r.starvation /\ b = r.starved
      \/ a = r.starvation + 1 /\ ~r.starved /\ b
      \/ a = r.starvation /\ b
  BY <1>1
<1>5. Starve(r) = p
  BY DEF Starve
<1> HIDE DEF o, a, b, c, d, e, x
<1>6. /\ p \in QueueType /\ p.frames = r.frames /\ p.pushed = r.pushed
      /\ p.dropped = r.dropped /\ p.popped = r.popped /\ p.output = o
      /\ p.repeated = r.repeated /\ p.starvation = a /\ p.starved = b
  BY <1>1, <1>2, <1>3 DEF QueueType
<1> HIDE DEF p
<1>7. Starved(p, r)
  BY <1>4, <1>6 DEF Starved, o
<1>8. QED
  BY <1>1, <1>5, <1>6, <1>7 DEF Drained, Queue

\* pop_for_playback, whichever of its ways it takes.
LEMMA PopEffect ==
  ASSUME NEW r, Queue(r)
  PROVE  Drained(Pop(r), r)
<1>1. CASE r.frames = <<>>
  BY <1>1, StarveEffect DEF Pop
<1>2. CASE r.frames # <<>> /\ Stretches(r)
  BY <1>2, StretchEffect DEF Pop
<1>3. CASE r.frames # <<>> /\ ~Stretches(r)
  BY <1>3, TakeFrameEffect, PhaseRange, PhaseEffect DEF Pop
<1>4. QED
  BY <1>1, <1>2, <1>3

\* pop_or_silence.
LEMMA PopOrSilenceEffect ==
  ASSUME NEW r, Queue(r)
  PROVE  Drained(PopOrSilence(r), r)
<1>1. CASE r.frames # <<>>
  BY <1>1, TakeFrameEffect DEF PopOrSilence
<1>2. CASE r.frames = <<>>
  <2> DEFINE u == r.underflow + 1
             o == r.output + 1
             p == [r EXCEPT !.underflow = u, !.output = o]
  <2>1. /\ r \in QueueType /\ Len(r.frames) <= Capacity /\ u \in Nat /\ o \in Nat
    <3>1. r \in QueueType /\ Len(r.frames) <= Capacity
      BY DEF Queue
    <3>2. r.underflow \in Nat /\ r.output \in Nat
      BY <3>1 DEF QueueType
    <3> QED BY <3>1, <3>2
  <2>2. PopOrSilence(r) = p
    BY <1>2 DEF PopOrSilence
  <2> HIDE DEF u, o
  <2>3. /\ p \in QueueType /\ p.frames = r.frames /\ p.pushed = r.pushed
        /\ p.dropped = r.dropped /\ p.popped = r.popped /\ p.output = o
        /\ p.repeated = r.repeated /\ p.starvation = r.starvation
        /\ p.starved = r.starved
    BY <2>1 DEF QueueType
  <2> HIDE DEF p
  <2>4. Starved(p, r)
    BY <1>2, <2>3 DEF Starved, o
  <2>5. QED
    BY <2>1, <2>2, <2>3, <2>4 DEF Drained, Queue
<1>3. QED
  BY <1>1, <1>2

\* The queue begins empty.
LEMMA NewQueueOK == Queue(NewQueue)
<1>1. 0 \in 0..Capacity /\ 0 \in 0..MaxConcealment /\ 0 <= Capacity
  BY QueueConstants
<1>2. RateOne \in 0..RateOne
  BY PlayoutRateRange
<1>3. NewQueue \in QueueType
  BY <1>1, <1>2, EmptySeq DEF NewQueue, QueueType
<1>4. NewQueue.frames = <<>> /\ Len(<<>>) = 0
  BY EmptySeq DEF NewQueue
<1>5. QED
  BY <1>1, <1>3, <1>4 DEF Queue
-----------------------------------------------------------------------------
(***************************************************************************)
(* Type correctness.                                                       *)
(***************************************************************************)

\* The frames the sound board renders next.
LEMMA ProducedFrames ==
  ASSUME QueueTypeOK, NEW n \in Nat
  PROVE  /\ Produced(n) \in Seq(Frame) /\ Len(Produced(n)) = n
         /\ \A i \in 1..n : Produced(n)[i] = produced + i
<1>1. \A i \in 1..n : produced + i \in Frame
  BY DEF QueueTypeOK, Frame
<1>2. QED
  BY <1>1 DEF Produced

\* What a pop hands over is one of the kinds, and heard stays a natural number.
LEMMA PoppingType ==
  ASSUME QueueTypeOK, NEW p, Drained(p, queue), Popping(p)
  PROVE  lastHeard' \in Nat /\ emitted' \in Kinds
<1>1. emitted' \in Kinds
  BY DEF Popping, Emission, Kinds
<1>2. CASE p.popped = queue.popped + 1
  <2>1. queue.frames \in Seq(Frame) /\ queue.popped \in Nat
    BY DEF QueueTypeOK, QueueType
  <2>2. queue.frames # <<>>
    BY <1>2, <2>1 DEF Drained, Taken, Stretched, Starved
  <2>3. Head(queue.frames) \in Frame
    BY <2>1, <2>2, HeadTailProperties
  <2>4. QED
    BY <1>1, <1>2, <2>3 DEF Popping, Frame
<1>3. CASE p.popped # queue.popped + 1
  BY <1>1, <1>3 DEF Popping, QueueTypeOK
<1>4. QED
  BY <1>2, <1>3

LEMMA TypeInit == QueueInit => QueueTypeOK
<1>1. NewQueue \in QueueType /\ Len(NewQueue.frames) <= Capacity
  BY NewQueueOK DEF Queue
<1>2. QED
  BY <1>1 DEF QueueInit, QueueTypeOK, Kinds

LEMMA TypeStep == QueueTypeOK /\ [QueueNext]_queueVars => QueueTypeOK'
<1> SUFFICES ASSUME QueueTypeOK, [QueueNext]_queueVars PROVE QueueTypeOK'
  OBVIOUS
<1>0. Queue(queue) /\ produced \in Nat
  BY DEF QueueTypeOK, Queue
<1>1. CASE PushOne
  <2>1. produced + 1 \in Frame /\ produced + 1 \in Nat
    BY <1>0 DEF Frame
  <2>2. Queue(queue')
    BY <1>0, <1>1, <2>1, PushEffect DEF PushOne, Filled
  <2>3. QED
    BY <1>1, <2>1, <2>2 DEF PushOne, QueueTypeOK, Queue
<1>2. CASE PushMany
  <2>1. PICK n \in PushLengths :
          /\ queue' = PushSlice(queue, Produced(n))
          /\ produced' = produced + n
          /\ UNCHANGED <<held, lastHeard, emitted>>
    BY <1>2 DEF PushMany
  <2>2. n \in Nat
    BY CallerConstants
  <2>3. Queue(queue')
    BY <1>0, <2>1, <2>2, ProducedFrames, PushSliceEffect DEF Filled
  <2>4. produced + n \in Nat
    BY <1>0, <2>2
  <2>5. QED
    BY <2>1, <2>3, <2>4 DEF QueueTypeOK, Queue
<1>3. CASE PrepareQueue
  <2>1. PICK prebuffer \in Prebuffers :
          /\ queue' = Prepare(queue, prebuffer)
          /\ held' = Len(queue'.frames)
          /\ UNCHANGED <<produced, lastHeard, emitted>>
    BY <1>3 DEF PrepareQueue
  <2>2. prebuffer \in Nat
    BY CallerConstants
  <2>3. Queue(queue')
    BY <1>0, <2>1, <2>2, PrepareEffect
  <2>4. Len(queue'.frames) \in Nat
    BY <2>3, LenProperties DEF Queue, QueueType
  <2>5. QED
    BY <2>1, <2>3, <2>4 DEF QueueTypeOK, Queue
<1>4. ASSUME NEW p, Drained(p, queue), Popping(p) PROVE QueueTypeOK'
  <2>1. queue' = p /\ UNCHANGED <<produced, held>>
    BY <1>4 DEF Popping
  <2>2. QED
    BY <1>4, <2>1, PoppingType DEF Drained, Queue, QueueTypeOK
<1>5. CASE PopForPlayback
  BY <1>0, <1>4, <1>5, PopEffect DEF PopForPlayback
<1>6. CASE PopPlain
  BY <1>0, <1>4, <1>6, PopOrSilenceEffect DEF PopPlain
<1>7. CASE UNCHANGED queueVars
  BY <1>7 DEF queueVars, QueueTypeOK
<1>8. QED
  BY <1>1, <1>2, <1>3, <1>5, <1>6, <1>7 DEF QueueNext

\* Whatever is called in whatever order, the queue stays within its capacity and
\* every counter, run and phase within its range.
THEOREM QueueTypeCorrect == QueueSpec => []QueueTypeOK
<1>1. QueueInit => QueueTypeOK
  BY TypeInit
<1>2. QueueTypeOK /\ [QueueNext]_queueVars => QueueTypeOK'
  BY TypeStep
<1>3. QED
  BY <1>1, <1>2, PTL DEF QueueSpec
-----------------------------------------------------------------------------
(***************************************************************************)
(* Every step fills, prepares or drains.                                   *)
(***************************************************************************)

Filling ==
  \E fs \in Seq(Frame) :
    /\ Filled(queue', queue, fs)
    /\ produced' = produced + Len(fs)
    /\ \A i \in 1..Len(fs) : fs[i] = produced + i
    /\ UNCHANGED <<held, lastHeard>>

Preparing ==
  /\ queue'.pushed = 0 /\ queue'.popped = 0 /\ queue'.dropped = 0 /\ queue'.output = 0
  /\ queue'.repeated = 0 /\ queue'.starvation = 0
  /\ Len(queue'.frames) <= Len(queue.frames)
  /\ \A i \in 1..Len(queue'.frames) :
       queue'.frames[i] = queue.frames[Len(queue.frames) - Len(queue'.frames) + i]
  /\ held' = Len(queue'.frames)
  /\ UNCHANGED <<produced, lastHeard>>

Draining ==
  /\ Drained(queue', queue)
  /\ lastHeard' = IF queue'.popped = queue.popped + 1 THEN Head(queue.frames) ELSE lastHeard
  /\ UNCHANGED <<produced, held>>

LEMMA StepShape ==
  ASSUME QueueTypeOK, QueueNext
  PROVE  Filling \/ Preparing \/ Draining
<1>0. Queue(queue) /\ produced \in Nat
  BY DEF QueueTypeOK, Queue
<1>1. CASE PushOne
  <2> DEFINE fs == <<produced + 1>>
  <2>1. produced + 1 \in Frame
    BY <1>0 DEF Frame
  <2>2. /\ fs \in Seq(Frame) /\ Len(fs) = 1
        /\ \A i \in 1..Len(fs) : fs[i] = produced + i
    BY <2>1
  <2>3. Filled(queue', queue, fs)
    BY <1>0, <1>1, <2>1, PushEffect DEF PushOne
  <2> HIDE DEF fs
  <2>4. QED
    BY <1>1, <2>2, <2>3 DEF PushOne, Filling
<1>2. CASE PushMany
  <2>1. PICK n \in PushLengths :
          /\ queue' = PushSlice(queue, Produced(n))
          /\ produced' = produced + n
          /\ UNCHANGED <<held, lastHeard, emitted>>
    BY <1>2 DEF PushMany
  <2>2. n \in Nat
    BY CallerConstants
  <2>3. /\ Produced(n) \in Seq(Frame) /\ Len(Produced(n)) = n
        /\ \A i \in 1..n : Produced(n)[i] = produced + i
    BY <2>2, ProducedFrames
  <2>4. Filled(queue', queue, Produced(n))
    BY <1>0, <2>1, <2>3, PushSliceEffect
  <2>5. QED
    BY <2>1, <2>3, <2>4 DEF Filling
<1>3. CASE PrepareQueue
  <2>1. PICK prebuffer \in Prebuffers :
          /\ queue' = Prepare(queue, prebuffer)
          /\ held' = Len(queue'.frames)
          /\ UNCHANGED <<produced, lastHeard, emitted>>
    BY <1>3 DEF PrepareQueue
  <2>2. prebuffer \in Nat
    BY CallerConstants
  <2>3. QED
    BY <1>0, <2>1, <2>2, PrepareEffect DEF Preparing
<1>4. CASE PopForPlayback
  BY <1>0, <1>4, PopEffect DEF PopForPlayback, Popping, Draining
<1>5. CASE PopPlain
  BY <1>0, <1>5, PopOrSilenceEffect DEF PopPlain, Popping, Draining
<1>6. QED
  BY <1>1, <1>2, <1>3, <1>4, <1>5 DEF QueueNext

\* What a drain does to the length and the accounts.
LEMMA DrainingCounts ==
  ASSUME QueueTypeOK, QueueTypeOK', Draining
  PROVE  /\ queue'.pushed = queue.pushed /\ queue'.dropped = queue.dropped
         /\ \/ /\ Len(queue.frames) > 0 /\ Len(queue'.frames) = Len(queue.frames) - 1
               /\ queue'.popped = queue.popped + 1 /\ lastHeard' = queue.frames[1]
               /\ \A i \in 1..Len(queue'.frames) : queue'.frames[i] = queue.frames[i + 1]
            \/ /\ queue'.frames = queue.frames /\ queue'.popped = queue.popped /\ lastHeard' = lastHeard
<1>1. /\ queue.frames \in Seq(Frame) /\ Len(queue.frames) \in Nat /\ queue.popped \in Nat
  BY LenProperties DEF QueueTypeOK, QueueType
<1>2. queue'.pushed = queue.pushed /\ queue'.dropped = queue.dropped
  BY DEF Draining, Drained
<1>3. CASE Taken(queue', queue)
  <2>1. /\ queue.frames # <<>> /\ queue'.frames = Tail(queue.frames) /\ queue'.popped = queue.popped + 1
        /\ lastHeard' = Head(queue.frames)
    BY <1>3 DEF Taken, Draining
  <2>2. Len(queue.frames) > 0
    BY <1>1, <2>1, EmptySeq
  <2>3. /\ Len(queue'.frames) = Len(queue.frames) - 1
        /\ \A i \in 1..Len(queue'.frames) : queue'.frames[i] = queue.frames[i + 1]
    BY <1>1, <2>1, HeadTailProperties
  <2>4. Head(queue.frames) = queue.frames[1]
    BY <1>1, <2>1
  <2>5. QED
    BY <1>2, <2>1, <2>2, <2>3, <2>4
<1>4. CASE Stretched(queue', queue)
  BY <1>1, <1>2, <1>4 DEF Stretched, Draining
<1>5. CASE Starved(queue', queue)
  BY <1>1, <1>2, <1>5 DEF Starved, Draining
<1>6. QED
  BY <1>3, <1>4, <1>5 DEF Draining, Drained
-----------------------------------------------------------------------------
(***************************************************************************)
(* The safety invariants.                                                  *)
(***************************************************************************)

LEMMA ConservationInit == QueueInit => Conservation
BY EmptySeq DEF QueueInit, NewQueue, Conservation

LEMMA ConservationStep ==
  ASSUME QueueTypeOK, QueueTypeOK', Conservation, QueueNext PROVE Conservation'
<1> DEFINE P == queue.pushed    O == queue.popped    D == queue.dropped    L == Len(queue.frames)
           Pn == queue'.pushed  On == queue'.popped  Dn == queue'.dropped  Ln == Len(queue'.frames)
           C == held     Cn == held'
<1>1. /\ P \in Nat /\ O \in Nat /\ D \in Nat /\ L \in Nat /\ C \in Nat
      /\ C + P = O + D + L
  BY LenProperties DEF QueueTypeOK, QueueType, Conservation
<1>2. Pn \in Nat /\ On \in Nat /\ Dn \in Nat /\ Ln \in Nat /\ Cn \in Nat
  BY LenProperties DEF QueueTypeOK, QueueType
<1>3. CASE Filling
  <2>1. PICK fs \in Seq(Frame) : Filled(queue', queue, fs) /\ Cn = C
    BY <1>3 DEF Filling
  <2> DEFINE k == Len(fs)
  <2>2. k \in Nat /\ Pn = P + k /\ Dn + Ln = D + L + k /\ On = O /\ Cn = C
    BY <2>1, LenProperties DEF Filled, SameOutput
  <2> HIDE DEF P, O, D, L, Pn, On, Dn, Ln, C, Cn, k
  <2>3. Cn + Pn = On + Dn + Ln
    BY <1>1, <1>2, <2>2
  <2>4. QED
    BY <2>3 DEF Conservation, Pn, On, Dn, Ln, Cn
<1>4. CASE Preparing
  <2>1. Pn = 0 /\ On = 0 /\ Dn = 0 /\ Cn = Ln
    BY <1>4 DEF Preparing
  <2> HIDE DEF P, O, D, L, Pn, On, Dn, Ln, C, Cn
  <2>2. Cn + Pn = On + Dn + Ln
    BY <1>2, <2>1
  <2>3. QED
    BY <2>2 DEF Conservation, Pn, On, Dn, Ln, Cn
<1>5. CASE Draining
  <2>1. /\ Pn = P /\ Dn = D /\ Cn = C
        /\ (On = O + 1 /\ Ln = L - 1) \/ (On = O /\ Ln = L)
    BY <1>5, DrainingCounts DEF Draining
  <2> HIDE DEF P, O, D, L, Pn, On, Dn, Ln, C, Cn
  <2>2. Cn + Pn = On + Dn + Ln
    BY <1>1, <1>2, <2>1
  <2>3. QED
    BY <2>2 DEF Conservation, Pn, On, Dn, Ln, Cn
<1>6. QED
  BY <1>3, <1>4, <1>5, StepShape

\* No order of pushes, preparations and pops loses a frame without counting it or
\* counts one twice.
THEOREM FramesConservedAlone == QueueSpec => []Conservation
<1>1. QueueInit => Conservation
  BY ConservationInit
<1>2. QueueTypeOK /\ QueueTypeOK' /\ Conservation /\ [QueueNext]_queueVars => Conservation'
  <2>1. CASE QueueNext
    BY <2>1, ConservationStep
  <2>2. CASE UNCHANGED queueVars
    BY <2>2 DEF queueVars, Conservation
  <2>3. QED
    BY <2>1, <2>2
<1>3. QED
  BY <1>1, <1>2, QueueTypeCorrect, PTL DEF QueueSpec

LEMMA ContiguousInit == QueueInit => Contiguous
BY EmptySeq DEF QueueInit, NewQueue, Contiguous

LEMMA ContiguousStep ==
  ASSUME QueueTypeOK, QueueTypeOK', Contiguous, QueueNext PROVE Contiguous'
<1> DEFINE L == Len(queue.frames)  Ln == Len(queue'.frames)  R == produced  H == lastHeard
<1>1. /\ L \in Nat /\ R \in Nat /\ H \in Nat /\ H + L <= R
      /\ \A i \in 1..L : queue.frames[i] = R - L + i
  BY LenProperties DEF QueueTypeOK, QueueType, Contiguous
<1>2. Ln \in Nat
  BY LenProperties DEF QueueTypeOK, QueueType
<1>3. CASE Filling
  <2>1. PICK fs \in Seq(Frame) :
          /\ Filled(queue', queue, fs) /\ produced' = R + Len(fs) /\ lastHeard' = H
          /\ \A i \in 1..Len(fs) : fs[i] = R + i
    BY <1>3 DEF Filling
  <2> DEFINE k == Len(fs)
             both == queue.frames \o fs
  <2>2. k \in Nat /\ queue.frames \in Seq(Frame)
    BY LenProperties DEF QueueTypeOK, QueueType
  <2>3. /\ Len(both) = L + k
        /\ \A i \in 1..L : both[i] = queue.frames[i]
        /\ \A i \in 1..k : both[L + i] = fs[i]
    BY <2>2, ConcatProperties
  <2>4. /\ Ln <= L + k
        /\ \A i \in 1..Ln : queue'.frames[i] = both[L + k - Ln + i]
    BY <2>1 DEF Filled
  <2>5. \A i \in 1..k : both[L + i] = R + i
    BY <2>1, <2>3
  <2>6. \A i \in 1..L : both[i] = R - L + i
    BY <1>1, <2>3
  <2> HIDE DEF L, Ln, R, H, k, both
  <2>7. ASSUME NEW j \in 1..L + k PROVE both[j] = R - L + j
    <3>1. CASE j <= L
      BY <1>1, <2>2, <2>6, <3>1
    <3>2. CASE j > L
      <4> DEFINE i == j - L
      <4>1. i \in 1..k /\ L + i = j /\ R + i = R - L + j
        BY <1>1, <2>2, <3>2
      <4>2. QED
        BY <2>5, <4>1
    <3>3. QED
      BY <1>1, <2>2, <3>1, <3>2
  <2>8. ASSUME NEW i \in 1..Ln PROVE queue'.frames[i] = (R + k) - Ln + i
    <3> DEFINE j == L + k - Ln + i
    <3>1. j \in 1..L + k /\ R - L + j = (R + k) - Ln + i
      BY <1>1, <1>2, <2>2, <2>4
    <3>2. QED
      BY <2>4, <2>7, <3>1
  <2>9. H + Ln <= R + k
    BY <1>1, <1>2, <2>2, <2>4
  <2>10. QED
    BY <2>1, <2>8, <2>9 DEF Contiguous, Ln, R, H, k
<1>4. CASE Preparing
  <2>1. /\ Ln <= L /\ produced' = R /\ lastHeard' = H
        /\ \A i \in 1..Ln : queue'.frames[i] = queue.frames[L - Ln + i]
    BY <1>4 DEF Preparing
  <2> HIDE DEF L, Ln, R, H
  <2>2. ASSUME NEW i \in 1..Ln PROVE queue'.frames[i] = R - Ln + i
    <3> DEFINE j == L - Ln + i
    <3>1. j \in 1..L /\ R - L + j = R - Ln + i
      BY <1>1, <1>2, <2>1
    <3>2. QED
      BY <1>1, <2>1, <3>1
  <2>3. H + Ln <= R
    BY <1>1, <1>2, <2>1
  <2>4. QED
    BY <2>1, <2>2, <2>3 DEF Contiguous, Ln, R, H
<1>5. CASE Draining
  <2>0. produced' = R
    BY <1>5 DEF Draining
  <2>1. CASE queue'.frames = queue.frames /\ lastHeard' = lastHeard
    BY <1>1, <2>0, <2>1 DEF Contiguous
  <2>2. CASE /\ L > 0 /\ Ln = L - 1 /\ lastHeard' = queue.frames[1]
             /\ \A i \in 1..Ln : queue'.frames[i] = queue.frames[i + 1]
    <3>0. 1 \in 1..L
      BY <1>1, <2>2
    <3>1. lastHeard' = R - L + 1
      BY <1>1, <2>2, <3>0
    <3> HIDE DEF L, Ln, R, H
    <3>2. ASSUME NEW i \in 1..Ln PROVE queue'.frames[i] = R - Ln + i
      <4>1. i + 1 \in 1..L /\ R - L + (i + 1) = R - Ln + i
        BY <1>1, <1>2, <2>2
      <4>2. QED
        BY <1>1, <2>2, <4>1
    <3>3. lastHeard' + Ln <= R
      BY <1>1, <1>2, <2>2, <3>1
    <3>4. QED
      BY <2>0, <3>2, <3>3 DEF Contiguous, Ln, R
  <2>3. QED
    BY <1>5, <2>1, <2>2, DrainingCounts
<1>6. QED
  BY <1>3, <1>4, <1>5, StepShape

\* The queue holds consecutive frames up to the newest, all later than any heard.
THEOREM QueueContiguous == QueueSpec => []Contiguous
<1>1. QueueInit => Contiguous
  BY ContiguousInit
<1>2. QueueTypeOK /\ QueueTypeOK' /\ Contiguous /\ [QueueNext]_queueVars => Contiguous'
  <2>1. CASE QueueNext
    BY <2>1, ContiguousStep
  <2>2. CASE UNCHANGED queueVars
    BY <2>2 DEF queueVars, Contiguous
  <2>3. QED
    BY <2>1, <2>2
<1>3. QED
  BY <1>1, <1>2, QueueTypeCorrect, PTL DEF QueueSpec

LEMMA StretchStep ==
  ASSUME QueueTypeOK, QueueTypeOK', StretchWithinThird, QueueNext PROVE StretchWithinThird'
<1> DEFINE A == queue.repeated  O == queue.output
<1>1. A \in Nat /\ O \in Nat /\ 3 * A <= O
  BY DEF QueueTypeOK, QueueType, StretchWithinThird
<1>2. CASE Filling
  BY <1>1, <1>2 DEF Filling, Filled, SameOutput, StretchWithinThird
<1>3. CASE Preparing
  BY <1>3 DEF Preparing, StretchWithinThird
<1>4. CASE Draining
  <2>1. CASE Stretched(queue', queue)
    BY <2>1 DEF Stretched, StretchWithinThird
  <2>2. CASE Taken(queue', queue) \/ Starved(queue', queue)
    <3>1. queue'.repeated = A /\ queue'.output = O + 1
      BY <2>2 DEF Taken, Starved
    <3> HIDE DEF A, O
    <3>2. 3 * A <= O + 1
      BY <1>1
    <3>3. QED
      BY <3>1, <3>2 DEF StretchWithinThird
  <2>3. QED
    BY <1>4, <2>1, <2>2 DEF Draining, Drained
<1>5. QED
  BY <1>2, <1>3, <1>4, StepShape

\* Interpolated frames never exceed a third of the output.
THEOREM StretchBounded == QueueSpec => []StretchWithinThird
<1>1. QueueInit => StretchWithinThird
  BY DEF QueueInit, NewQueue, StretchWithinThird
<1>2. QueueTypeOK /\ QueueTypeOK' /\ StretchWithinThird /\ [QueueNext]_queueVars => StretchWithinThird'
  <2>1. CASE QueueNext
    BY <2>1, StretchStep
  <2>2. CASE UNCHANGED queueVars
    BY <2>2 DEF queueVars, StretchWithinThird
  <2>3. QED
    BY <2>1, <2>2
<1>3. QED
  BY <1>1, <1>2, QueueTypeCorrect, PTL DEF QueueSpec

LEMMA StarvationStep ==
  ASSUME QueueTypeOK, QueueTypeOK', StarvationPerSpell, QueueNext PROVE StarvationPerSpell'
<1> DEFINE S == queue.starvation  O == queue.popped
<1>1. /\ S \in Nat /\ O \in Nat
      /\ S <= O + (IF queue.starved \/ queue.frames # <<>> THEN 1 ELSE 0)
  BY DEF QueueTypeOK, QueueType, StarvationPerSpell
<1>2. CASE Filling
  <2>1. /\ queue'.starvation = S /\ queue'.popped = O /\ queue'.starved = queue.starved
        /\ queue.frames # <<>> => queue'.frames # <<>>
    BY <1>2 DEF Filling, Filled, SameOutput
  <2>2. QED
    BY <1>1, <2>1 DEF StarvationPerSpell
<1>3. CASE Preparing
  BY <1>3 DEF Preparing, StarvationPerSpell
<1>4. CASE Draining
  <2>1. CASE Taken(queue', queue)
    <3>1. queue'.starvation = S /\ queue'.popped = O + 1
      BY <2>1 DEF Taken
    <3>2. S <= O + 1
      BY <1>1
    <3>3. QED
      BY <1>1, <3>1, <3>2 DEF StarvationPerSpell
  <2>2. CASE Stretched(queue', queue)
    <3>1. queue'.starvation = S /\ queue'.popped = O /\ queue'.frames # <<>>
      BY <2>2 DEF Stretched
    <3>2. S <= O + 1
      BY <1>1
    <3>3. QED
      BY <3>1, <3>2 DEF StarvationPerSpell
  <2>3. CASE Starved(queue', queue)
    <3>1. queue.frames = <<>> /\ queue'.popped = O
      BY <2>3 DEF Starved
    <3>2. \/ queue'.starvation = S /\ queue'.starved = queue.starved
          \/ queue'.starvation = S + 1 /\ ~queue.starved /\ queue'.starved
          \/ queue'.starvation = S /\ queue'.starved
      BY <2>3 DEF Starved
    <3>3. S <= O + 1 /\ (~queue.starved => S <= O)
      BY <1>1, <3>1
    <3>4. QED
      BY <1>1, <3>1, <3>2, <3>3 DEF StarvationPerSpell
  <2>4. QED
    BY <1>4, <2>1, <2>2, <2>3 DEF Draining, Drained
<1>5. QED
  BY <1>2, <1>3, <1>4, StepShape

\* The starvation counter counts empty spells, not empty pops: every event but
\* the current one is paid for by a real frame.
THEOREM StarvationCounted == QueueSpec => []StarvationPerSpell
<1>1. QueueInit => StarvationPerSpell
  BY DEF QueueInit, NewQueue, StarvationPerSpell
<1>2. QueueTypeOK /\ QueueTypeOK' /\ StarvationPerSpell /\ [QueueNext]_queueVars => StarvationPerSpell'
  <2>1. CASE QueueNext
    BY <2>1, StarvationStep
  <2>2. CASE UNCHANGED queueVars
    BY <2>2 DEF queueVars, StarvationPerSpell
  <2>3. QED
    BY <2>1, <2>2
<1>3. QED
  BY <1>1, <1>2, QueueTypeCorrect, PTL DEF QueueSpec
-----------------------------------------------------------------------------
(***************************************************************************)
(* Concealment.  A fade that has begun was paid for by the frames popped   *)
(* before it; one that is re-armed has its payment queued.                 *)
(***************************************************************************)

CriticalRefill(r) == Greatest(r.critical, 1)

Fades ==
  IF queue.conceal = 0
  THEN queue.concealed * CriticalRefill(queue)
         <= MaxConcealment * (queue.popped + Least(Len(queue.frames), CriticalRefill(queue)))
  ELSE (queue.concealed - queue.conceal) * CriticalRefill(queue) <= MaxConcealment * queue.popped

\* A refill leaves no fewer frames, and re-arms a fade only at the critical watermark.
Rearmed(p, r) ==
  /\ p.concealed = r.concealed /\ p.critical = r.critical /\ p.popped = r.popped
  /\ Len(p.frames) >= Len(r.frames)
  /\ p.conceal = r.conceal \/ (p.conceal = 0 /\ Len(p.frames) >= CriticalRefill(r))

LEMMA RefillRearms ==
  ASSUME NEW r, Queue(r), NEW fs \in Seq(Frame), NEW kept \in Seq(Frame), NEW d \in Nat,
         Len(kept) >= Len(r.frames)
  PROVE  Rearmed(Refill(r, fs, kept, d), r)
<1> DEFINE n == r.pushed + Len(fs)
           m == r.dropped + d
           k == Greatest(r.peak, Len(kept))
           g == [r EXCEPT !.frames = kept, !.pushed = n, !.dropped = m, !.peak = k]
           p == ResetRecoveryRuns(g)
<1>1. r \in QueueType
  BY DEF Queue
<1> HIDE DEF n, m, k
<1>2. /\ g.frames = kept /\ g.conceal = r.conceal /\ g.concealed = r.concealed
      /\ g.critical = r.critical /\ g.popped = r.popped
  BY <1>1 DEF QueueType
<1>3. /\ p.frames = g.frames /\ p.concealed = g.concealed /\ p.critical = g.critical
      /\ p.popped = g.popped
      /\ p.conceal = IF g.prepared /\ Len(g.frames) >= Greatest(g.critical, 1)
                     THEN 0 ELSE g.conceal
  BY <1>1 DEF ResetRecoveryRuns, QueueType
<1>4. Refill(r, fs, kept, d) = p
  BY DEF Refill, n, m, k
<1> HIDE DEF g, p
<1> QED BY <1>2, <1>3, <1>4 DEF Rearmed, CriticalRefill

LEMMA PushSliceRearms ==
  ASSUME NEW r, Queue(r), NEW fs \in Seq(Frame)
  PROVE  Rearmed(PushSlice(r, fs), r)
<1>1. /\ r.frames \in Seq(Frame) /\ Len(r.frames) \in Nat /\ Len(fs) \in Nat
      /\ Len(r.frames) <= Capacity /\ Capacity \in Nat
  BY QueueConstants, LenProperties DEF Queue, QueueType
<1>2. CASE fs = <<>>
  BY <1>1, <1>2 DEF PushSlice, Rearmed
<1>3. CASE fs # <<>>
  <2> DEFINE both == r.frames \o fs
             kept == LastN(both, Capacity)
             d == Len(r.frames) + Len(fs) - Len(kept)
  <2>1. both \in Seq(Frame) /\ Len(both) = Len(r.frames) + Len(fs)
    BY <1>1, ConcatProperties
  <2>2. kept \in Seq(Frame) /\ Len(kept) = Least(Capacity, Len(both))
    BY <1>1, <2>1, LastNSuffix
  <2>3. Len(kept) >= Len(r.frames) /\ d \in Nat
    BY <1>1, <2>1, <2>2 DEF Least
  <2>4. PushSlice(r, fs) = Refill(r, fs, kept, d)
    BY <1>3 DEF PushSlice, Refill
  <2> HIDE DEF both, kept, d
  <2> QED BY <2>2, <2>3, <2>4, RefillRearms
<1> QED BY <1>2, <1>3

LEMMA PushRearms ==
  ASSUME NEW r, Queue(r), NEW f \in Frame
  PROVE  Rearmed(Push(r, f), r)
<1> DEFINE s == r.frames
           full == Len(s) = Capacity
           kept == Append(IF full THEN Tail(s) ELSE s, f)
           d == IF full THEN 1 ELSE 0
<1>1. /\ s \in Seq(Frame) /\ Len(s) \in Nat /\ Capacity \in Nat /\ Capacity > 0
      /\ r.dropped \in Nat
  BY QueueConstants, LenProperties DEF Queue, QueueType
<1>2. <<f>> \in Seq(Frame) /\ Len(<<f>>) = 1 /\ d \in Nat
  OBVIOUS
<1>3. kept \in Seq(Frame) /\ Len(kept) >= Len(s)
  <2>1. CASE full
    <3>1. s # <<>>
      BY <1>1, <2>1, EmptySeq
    <3>2. Tail(s) \in Seq(Frame) /\ Len(Tail(s)) = Len(s) - 1
      BY <1>1, <3>1, HeadTailProperties
    <3> QED BY <1>1, <2>1, <3>2, AppendProperties
  <2>2. CASE ~full
    BY <1>1, <2>2, AppendProperties
  <2> QED BY <2>1, <2>2
<1>4. Push(r, f) = Refill(r, <<f>>, kept, d)
  <2>1. (IF full THEN r.dropped + 1 ELSE r.dropped) = r.dropped + d
    BY <1>1
  <2> QED BY <1>2, <2>1 DEF Push, Refill
<1> HIDE DEF kept, d
<1> QED BY <1>2, <1>3, <1>4, RefillRearms

\* What an output frame does to the fade: a frame taken pays, one concealed spends.
Faded(p, r) ==
  /\ p.critical = r.critical
  /\ \/ /\ Len(r.frames) > 0 /\ Len(p.frames) = Len(r.frames) - 1
        /\ p.popped = r.popped + 1 /\ p.conceal = r.conceal /\ p.concealed = r.concealed
     \/ /\ p.frames = r.frames /\ p.popped = r.popped
        /\ p.conceal = r.conceal /\ p.concealed = r.concealed
     \/ /\ Len(r.frames) = 0 /\ p.frames = r.frames /\ p.popped = r.popped
        /\ p.conceal = r.conceal + 1 /\ p.concealed = r.concealed + 1

LEMMA TakeFades ==
  ASSUME NEW r, Queue(r), r.frames # <<>>, NEW x
  PROVE  Faded(TakeFrame(r), r) /\ Faded([TakeFrame(r) EXCEPT !.phase = x], r)
<1>1. /\ r \in QueueType /\ r.frames \in Seq(Frame) /\ Len(r.frames) > 0
      /\ Len(Tail(r.frames)) = Len(r.frames) - 1
  BY HeadTailProperties, LenProperties, EmptySeq DEF Queue, QueueType
<1> DEFINE u == TakeFrame(r)
           p == [u EXCEPT !.phase = x]
<1>2. /\ u.frames = Tail(r.frames) /\ u.popped = r.popped + 1 /\ u.critical = r.critical
      /\ u.conceal = r.conceal /\ u.concealed = r.concealed
  BY <1>1 DEF TakeFrame, QueueType
<1>3. /\ p.frames = u.frames /\ p.popped = u.popped /\ p.critical = u.critical
      /\ p.conceal = u.conceal /\ p.concealed = u.concealed
  BY <1>1 DEF TakeFrame, QueueType
<1> HIDE DEF u, p
<1>4. Faded(u, r) /\ Faded(p, r)
  BY <1>1, <1>2, <1>3 DEF Faded
<1> QED BY <1>4 DEF u, p

LEMMA PopFades ==
  ASSUME NEW r, Queue(r)
  PROVE  Faded(Pop(r), r) /\ Faded(PopOrSilence(r), r)
<1>1. r \in QueueType
  BY DEF Queue
<1>2. CASE r.frames # <<>>
  <2>1. Faded(Stretch(r), r)
    BY <1>1 DEF Stretch, Faded, QueueType
  <2> QED BY <1>2, <2>1, TakeFades DEF Pop, PopOrSilence
<1>3. CASE r.frames = <<>>
  <2>0. Len(r.frames) = 0
    BY <1>3
  <2>1. /\ Starve(r).frames = r.frames /\ Starve(r).popped = r.popped
        /\ Starve(r).critical = r.critical
        /\ Starve(r).conceal = IF Conceals(r) THEN r.conceal + 1 ELSE r.conceal
        /\ Starve(r).concealed = IF Conceals(r) THEN r.concealed + 1 ELSE r.concealed
    BY <1>1 DEF Starve, QueueType
  <2>2. Faded(Starve(r), r)
    BY <2>0, <2>1 DEF Faded
  <2>3. Faded(PopOrSilence(r), r)
    BY <1>1, <1>3 DEF PopOrSilence, Faded, QueueType
  <2> QED BY <1>3, <2>2, <2>3 DEF Pop
<1> QED BY <1>2, <1>3

\* What a step does to the bound: monotone in frames popped and in frames queued.
LEMMA Distribute ==
  ASSUME NEW a \in Int, NEW b \in Int, NEW c \in Int
  PROVE  (a + b) * c = a * c + b * c
  OBVIOUS

LEMMA Monotone ==
  ASSUME NEW m \in Nat, NEW a \in Int, NEW b \in Int, a <= b
  PROVE  m * a <= m * b
  OBVIOUS

\* What an unfinished fade has left to emit is covered by one refill.
LEMMA FadePaid ==
  ASSUME NEW x \in Nat, NEW k \in Nat, NEW c \in Nat, NEW n \in Nat, NEW m \in Nat,
         k <= m, (x - k) * c <= m * n
  PROVE  x * c <= m * (n + c)
<1>1. x * c = (x - k) * c + k * c
  <2>1. x - k \in Int /\ (x - k) + k = x
    OBVIOUS
  <2>2. ((x - k) + k) * c = (x - k) * c + k * c
    BY <2>1, Distribute
  <2> QED BY <2>1, <2>2
<1>2. k * c <= m * c
  <2>1. c * k <= c * m
    BY Monotone
  <2> QED BY <2>1
<1>3. m * (n + c) = m * n + m * c
  OBVIOUS
<1>4. (x - k) * c \in Int /\ k * c \in Int /\ m * c \in Int /\ m * n \in Int
  OBVIOUS
<1>5. (x - k) * c + k * c <= m * n + m * c
  BY <1>2, <1>4
<1> QED BY <1>1, <1>3, <1>5

LEMMA FadesBound == ASSUME QueueTypeOK, Fades PROVE ConcealmentPaidFor
<1> DEFINE x == queue.concealed   k == queue.conceal   c == CriticalRefill(queue)   n == queue.popped
           l == Len(queue.frames) m == MaxConcealment
<1>1. /\ x \in Nat /\ k \in Nat /\ c \in Nat /\ n \in Nat /\ l \in Nat /\ m \in Nat /\ k <= m
  BY QueueConstants, LenProperties DEF QueueTypeOK, QueueType, CriticalRefill, Greatest
<1>2. IF k = 0 THEN x * c <= m * (n + Least(l, c)) ELSE (x - k) * c <= m * n
  BY DEF Fades
<1> HIDE DEF x, k, c, n, l, m
<1>3. ASSUME k = 0 PROVE x * c <= m * (n + c)
  <2>1. n + Least(l, c) \in Int /\ n + Least(l, c) <= n + c
    BY <1>1 DEF Least
  <2>2. m * (n + Least(l, c)) <= m * (n + c)
    BY <1>1, <2>1, Monotone
  <2>3. m * (n + Least(l, c)) \in Int /\ m * (n + c) \in Int /\ x * c \in Int
    BY <1>1, <2>1
  <2> QED BY <1>2, <1>3, <2>2, <2>3
<1>4. ASSUME k # 0 PROVE x * c <= m * (n + c)
  BY <1>1, <1>2, <1>4, FadePaid
<1>5. x * c <= m * (n + c)
  BY <1>3, <1>4
<1> QED BY <1>5 DEF ConcealmentPaidFor, CriticalRefill, x, c, n, m

LEMMA PrepareRestarts ==
  ASSUME NEW r, NEW prebuffer
  PROVE  /\ Prepare(r, prebuffer).concealed = 0 /\ Prepare(r, prebuffer).conceal = 0
         /\ Prepare(r, prebuffer).phase = RateOne /\ Prepare(r, prebuffer).repeated = 0
  BY DEF Prepare, NewQueue

LEMMA FadesStep ==
  ASSUME QueueTypeOK, QueueTypeOK', Fades, QueueNext PROVE Fades'
<1> DEFINE x == queue.concealed    k == queue.conceal    c == CriticalRefill(queue)
           n == queue.popped       l == Len(queue.frames)
           xx == queue'.concealed  kk == queue'.conceal  cc == CriticalRefill(queue')
           nn == queue'.popped     ll == Len(queue'.frames)
           m == MaxConcealment
<1>1. /\ x \in Nat /\ k \in Nat /\ c \in Nat /\ n \in Nat /\ l \in Nat /\ m \in Nat
      /\ k <= m /\ Queue(queue) /\ produced \in Nat
  BY QueueConstants, LenProperties DEF QueueTypeOK, Queue, QueueType, CriticalRefill, Greatest
<1>2. xx \in Nat /\ kk \in Nat /\ cc \in Nat /\ nn \in Nat /\ ll \in Nat
  BY LenProperties DEF QueueTypeOK, QueueType, CriticalRefill, Greatest
<1>3. IF k = 0 THEN x * c <= m * (n + Least(l, c)) ELSE (x - k) * c <= m * n
  BY DEF Fades
<1> SUFFICES IF kk = 0 THEN xx * cc <= m * (nn + Least(ll, cc)) ELSE (xx - kk) * cc <= m * nn
  BY DEF Fades
<1>4. CASE Rearmed(queue', queue)
  <2>1. /\ xx = x /\ cc = c /\ nn = n /\ ll >= l /\ (kk = k \/ (kk = 0 /\ ll >= c))
    BY <1>4 DEF Rearmed, CriticalRefill
  <2> HIDE DEF x, k, c, n, l, m, xx, kk, cc, nn, ll
  <2>2. CASE k = 0
    <3>1. kk = 0 /\ n + Least(l, c) <= n + Least(ll, c)
      BY <1>1, <1>2, <2>1, <2>2 DEF Least
    <3>2. n + Least(l, c) \in Int /\ n + Least(ll, c) \in Int
      BY <1>1, <1>2 DEF Least
    <3>3. m * (n + Least(l, c)) <= m * (n + Least(ll, c))
      BY <1>1, <3>1, <3>2, Monotone
    <3>4. m * (n + Least(l, c)) \in Int /\ m * (n + Least(ll, c)) \in Int /\ x * c \in Int
      BY <1>1, <3>2
    <3> QED BY <1>3, <2>1, <2>2, <3>1, <3>3, <3>4
  <2>3. CASE k # 0 /\ kk = k
    BY <1>3, <2>1, <2>3
  <2>4. CASE k # 0 /\ kk = 0 /\ ll >= c
    <3>1. Least(ll, c) = c
      BY <1>1, <1>2, <2>4 DEF Least
    <3>2. x * c <= m * (n + c)
      BY <1>3, <2>4, FadePaid, <1>1
    <3> QED BY <2>1, <2>4, <3>1, <3>2
  <2> QED BY <2>1, <2>2, <2>3, <2>4
<1>5. CASE xx = 0 /\ kk = 0
  <2> HIDE DEF m, xx, kk, cc, nn, ll
  <2>1. nn + Least(ll, cc) \in Nat
    BY <1>2 DEF Least
  <2>2. xx * cc = 0 /\ 0 <= m * (nn + Least(ll, cc))
    BY <1>1, <1>2, <1>5, <2>1
  <2> QED BY <1>5, <2>2
<1>6. CASE Faded(queue', queue)
  <2>1. /\ cc = c
        /\ \/ l > 0 /\ ll = l - 1 /\ nn = n + 1 /\ kk = k /\ xx = x
           \/ ll = l /\ nn = n /\ kk = k /\ xx = x
           \/ l = 0 /\ ll = 0 /\ nn = n /\ kk = k + 1 /\ xx = x + 1
    BY <1>6 DEF Faded, CriticalRefill
  <2> HIDE DEF x, k, c, n, l, m, xx, kk, cc, nn, ll
  <2>2. CASE l > 0 /\ ll = l - 1 /\ nn = n + 1 /\ kk = k /\ xx = x
    <3>1. CASE k = 0
      <4>1. n + Least(l, c) <= nn + Least(ll, c)
        BY <1>1, <1>2, <2>2 DEF Least
      <4>2. n + Least(l, c) \in Int /\ nn + Least(ll, c) \in Int
        BY <1>1, <1>2 DEF Least
      <4>3. m * (n + Least(l, c)) <= m * (nn + Least(ll, c))
        BY <1>1, <4>1, <4>2, Monotone
      <4>4. m * (n + Least(l, c)) \in Int /\ m * (nn + Least(ll, c)) \in Int /\ x * c \in Int
        BY <1>1, <4>2
      <4> QED BY <1>3, <2>1, <2>2, <3>1, <4>3, <4>4
    <3>2. CASE k # 0
      <4>1. m * n <= m * nn
        BY <1>1, <1>2, <2>2, Monotone
      <4>2. m * n \in Int /\ m * nn \in Int /\ (x - k) * c \in Int
        BY <1>1, <1>2
      <4> QED BY <1>3, <2>1, <2>2, <3>2, <4>1, <4>2
    <3> QED BY <3>1, <3>2
  <2>3. CASE ll = l /\ nn = n /\ kk = k /\ xx = x
    BY <1>3, <2>1, <2>3
  <2>4. CASE l = 0 /\ ll = 0 /\ nn = n /\ kk = k + 1 /\ xx = x + 1
    <3>1. xx - kk = x - k /\ kk # 0
      BY <1>1, <2>4
    <3>2. (x - k) * c <= m * n
      <4>1. CASE k = 0
        <5>1. n + Least(l, c) = n /\ x - k = x
          BY <1>1, <2>4, <4>1 DEF Least
        <5> QED BY <1>3, <4>1, <5>1
      <4>2. CASE k # 0
        BY <1>3, <4>2
      <4> QED BY <4>1, <4>2
    <3> QED BY <2>1, <2>4, <3>1, <3>2
  <2> QED BY <2>1, <2>2, <2>3, <2>4
<1>7. CASE PushOne
  <2>1. produced + 1 \in Frame
    BY <1>1 DEF Frame
  <2> QED BY <1>1, <1>4, <1>7, <2>1, PushRearms DEF PushOne
<1>8. CASE PushMany
  <2>1. PICK i \in PushLengths : queue' = PushSlice(queue, Produced(i))
    BY <1>8 DEF PushMany
  <2>2. Produced(i) \in Seq(Frame)
    BY CallerConstants, ProducedFrames
  <2> QED BY <1>1, <1>4, <2>1, <2>2, PushSliceRearms
<1>9. CASE PrepareQueue
  BY <1>5, <1>9, PrepareRestarts DEF PrepareQueue
<1>10. CASE PopForPlayback \/ PopPlain
  BY <1>1, <1>6, <1>10, PopFades DEF PopForPlayback, PopPlain, Popping
<1> QED BY <1>7, <1>8, <1>9, <1>10 DEF QueueNext

\* Every fade is paid for with audio played, but for one.
THEOREM FadesPaidFor == QueueSpec => []ConcealmentPaidFor
<1>1. QueueInit => Fades
  <2>1. QueueInit => queue.concealed = 0 /\ queue.conceal = 0 /\ queue.popped = 0 /\ queue.critical = 0
                /\ queue.frames = <<>>
    BY DEF QueueInit, NewQueue
  <2>2. Len(<<>>) = 0 /\ MaxConcealment \in Nat
    BY QueueConstants
  <2> QED BY <2>1, <2>2 DEF Fades, CriticalRefill, Greatest, Least
<1>2. QueueTypeOK /\ QueueTypeOK' /\ Fades /\ [QueueNext]_queueVars => Fades'
  <2>1. CASE QueueNext
    BY <2>1, FadesStep
  <2>2. CASE UNCHANGED queueVars
    BY <2>2 DEF queueVars, Fades
  <2> QED BY <2>1, <2>2
<1>3. QueueTypeOK /\ Fades => ConcealmentPaidFor
  BY FadesBound
<1> QED BY <1>1, <1>2, <1>3, QueueTypeCorrect, PTL DEF QueueSpec
-----------------------------------------------------------------------------
(***************************************************************************)
(* Two stretches in a row would add two rates of at least a half.          *)
(***************************************************************************)

StretchPhase == emitted = "stretch" => queue.phase >= RateEmergency

LEMMA HalfRate ==
  ASSUME NEW r
  PROVE  PlayoutRate(r) \in Nat /\ PlayoutRate(r) >= RateEmergency
  BY DEF PlayoutRate, RateEmergency, RateCritical, RateLow, RateGuard

\* Only a stretch repeats, and it advances the phase by the rate.
LEMMA PopPhase ==
  ASSUME NEW r, Queue(r)
  PROVE  /\ Pop(r).repeated = r.repeated + 1 =>
              Stretches(r) /\ Pop(r).phase = r.phase + PlayoutRate(r)
         /\ PopOrSilence(r).repeated = r.repeated
<1>1. r \in QueueType /\ r.repeated \in Nat /\ r.repeated # r.repeated + 1
  <2>1. r \in QueueType /\ r.repeated \in Nat
    BY DEF Queue, QueueType
  <2> QED BY <2>1
<1>2. Stretch(r).phase = r.phase + PlayoutRate(r)
  BY <1>1 DEF Stretch, QueueType
<1>3. TakeFrame(r).repeated = r.repeated
  BY <1>1 DEF TakeFrame, QueueType
<1>4. [TakeFrame(r) EXCEPT !.phase = PhaseAfterTake(r)].repeated = r.repeated
  BY <1>1 DEF TakeFrame, QueueType
<1>5. Starve(r).repeated = r.repeated
  BY <1>1 DEF Starve, QueueType
<1>6. PopOrSilence(r).repeated = r.repeated
  BY <1>1, <1>3 DEF PopOrSilence, QueueType
<1> QED BY <1>1, <1>2, <1>4, <1>5, <1>6 DEF Pop

LEMMA StretchPhaseStep ==
  ASSUME QueueTypeOK, QueueTypeOK', StretchPhase, QueueNext
  PROVE  StretchPhase' /\ ~(emitted = "stretch" /\ queue'.repeated = queue.repeated + 1)
<1>1. /\ Queue(queue) /\ produced \in Nat /\ queue.phase \in Nat /\ queue.repeated \in Nat
      /\ RateOne \in Nat /\ RateEmergency \in Nat /\ RateEmergency + RateEmergency = RateOne
      /\ RateEmergency <= RateOne
  <2>1. Queue(queue) /\ produced \in Nat /\ queue.phase \in 0..RateOne /\ queue.repeated \in Nat
    BY DEF QueueTypeOK, Queue, QueueType
  <2>2. /\ RateOne \in Nat /\ RateEmergency \in Nat /\ RateEmergency + RateEmergency = RateOne
        /\ RateEmergency <= RateOne
    BY DEF RateOne, RateEmergency
  <2> QED BY <2>1, <2>2
<1>2. CASE PushOne \/ PushMany
  <2>1. emitted' = emitted /\ \E fs \in Seq(Frame) : Filled(queue', queue, fs)
    <3>1. CASE PushOne
      <4>1. produced + 1 \in Frame /\ <<produced + 1>> \in Seq(Frame)
        BY <1>1 DEF Frame
      <4> QED BY <1>1, <3>1, <4>1, PushEffect DEF PushOne
    <3>2. CASE PushMany
      <4>1. PICK i \in PushLengths : queue' = PushSlice(queue, Produced(i)) /\ emitted' = emitted
        BY <3>2 DEF PushMany
      <4>2. Produced(i) \in Seq(Frame)
        BY CallerConstants, ProducedFrames
      <4> QED BY <1>1, <4>1, <4>2, PushSliceEffect
    <3> QED BY <1>2, <3>1, <3>2
  <2>2. queue'.phase = queue.phase /\ queue'.repeated = queue.repeated
    BY <2>1 DEF Filled, SameOutput
  <2> QED BY <1>1, <2>1, <2>2 DEF StretchPhase
<1>3. CASE PrepareQueue
  <2>1. queue'.phase = RateOne /\ queue'.repeated = 0
    BY <1>3, PrepareRestarts DEF PrepareQueue
  <2> QED BY <1>1, <2>1 DEF StretchPhase
<1>4. CASE PopForPlayback \/ PopPlain
  <2>1. emitted' = "stretch" => queue'.repeated = queue.repeated + 1
    BY <1>4 DEF PopForPlayback, PopPlain, Popping, Emission
  <2>2. queue'.repeated = queue.repeated + 1 =>
          Stretches(queue) /\ queue'.phase = queue.phase + PlayoutRate(queue)
    BY <1>1, <1>4, PopPhase DEF PopForPlayback, PopPlain, Popping
  <2>3. Stretches(queue) => queue.phase + PlayoutRate(queue) < RateOne
    BY DEF Stretches
  <2> DEFINE y == PlayoutRate(queue)
             z == queue.phase
  <2>4. y \in Nat /\ y >= RateEmergency /\ z \in Nat
    BY <1>1, HalfRate
  <2> HIDE DEF y, z
  <2>5. z + y >= RateEmergency /\ (z >= RateEmergency => ~(z + y < RateOne))
    BY <1>1, <2>4
  <2> QED BY <2>1, <2>2, <2>3, <2>5 DEF StretchPhase, y, z
<1> QED BY <1>2, <1>3, <1>4 DEF QueueNext

\* Whatever rates the controller picks, two outputs in a row are never both stretched.
THEOREM StretchesApart == QueueSpec => NoDoubleStretch
<1>1. QueueInit => StretchPhase
  BY DEF QueueInit, StretchPhase
<1>2. QueueTypeOK /\ QueueTypeOK' /\ StretchPhase /\ [QueueNext]_queueVars => StretchPhase'
  <2>1. CASE QueueNext
    BY <2>1, StretchPhaseStep
  <2>2. CASE UNCHANGED queueVars
    BY <2>2 DEF queueVars, StretchPhase
  <2> QED BY <2>1, <2>2
<1>3. QueueTypeOK /\ QueueTypeOK' /\ StretchPhase /\ [QueueNext]_queueVars =>
        [~(emitted = "stretch" /\ queue'.repeated = queue.repeated + 1)]_queueVars
  BY StretchPhaseStep
<1> QED BY <1>1, <1>2, <1>3, QueueTypeCorrect, PTL DEF QueueSpec, NoDoubleStretch
=============================================================================
