-------------------------- MODULE MicrophoneInputProof --------------------------
(***************************************************************************)
(* Proofs about MicrophoneInput, for every number of frames, streams,      *)
(* turns and sessions, every window, limit and power.                      *)
(*                                                                         *)
(* The control state (Control) excludes phases from each other; the gates  *)
(* (GatesOK) hold windows of the frames captured, with their power; the    *)
(* queue (QueueOK) holds the last of what was let through, in order.       *)
(* Each step is quiet, which at most resets a gate and takes from the      *)
(* queue, or the arrival of a frame, which comes to one of the outcomes    *)
(* Comes lists.  Privacy, echo and whole speech have each an invariant of  *)
(* their own on top of these (SessionOK, EchoOK, SpeechOK).                *)
(*                                                                         *)
(* The power of a window is a fold over a set.  What is shown of it by     *)
(* induction over the set is shown here by its least counterexample.       *)
(***************************************************************************)
EXTENDS MicrophoneInput, Integers, FiniteSetTheorems, WellFoundedInduction, TLAPS

\* A set of numbers has a least one.
LEMMA Least == ASSUME NEW T \in SUBSET Nat, T # {} PROVE \E n \in T : \A m \in T : n <= m
<1> DEFINE R == {ss \in Nat \X Nat : ss[1] < ss[2]}
<1>1. IsWellFoundedOn(R, Nat)
  BY NatLessThanWellFounded, Zenon DEF OpToRel
<1>2. \E x \in T : \A y \in T : ~ (<<y, x>> \in R)
  <2> HIDE DEF R
  <2> QED BY <1>1, WFMin 
<1>3. PICK x \in T : \A y \in T : ~ (<<y, x>> \in R)
  BY <1>2
<1>4. \A y \in T : ~(y < x)
  BY <1>3
<1> QED BY <1>4

\* A set of subsets of a finite set has a smallest one.
LEMMA Smallest ==
  ASSUME NEW U, IsFiniteSet(U), NEW T \in SUBSET SUBSET U, T # {}
  PROVE  \E s \in T : \A t \in T : t \subseteq s => t = s
<1> DEFINE R == StrictSubsetOrdering(U)
<1>1. IsWellFoundedOn(R, FiniteSubsetsOf(U))
  BY FS_StrictSubsetOrderingWellFounded, Zenon
<1>2. T \subseteq FiniteSubsetsOf(U)
  BY FS_Subset DEF FiniteSubsetsOf
<1>3. \E x \in T : \A y \in T : ~ (<<y, x>> \in R)
  <2> HIDE DEF R
  <2> QED BY <1>1, <1>2, WFMin 
<1> QED BY <1>3 DEF StrictSubsetOrdering

\* The power of a set of frames, met in c, as the fold weighs it.
Picked(s) == CHOOSE x \in s : TRUE
Body(c, g, s) == IF s = {} THEN 0 ELSE c[Picked(s)].power + g[s \ {Picked(s)}]
IsWeigh(c, U, g) == g = [s \in SUBSET U |-> Body(c, g, s)]
Weigh(c, U) == CHOOSE g : IsWeigh(c, U, g)
PowerIn(c, U) == Weigh(c, U)[U]

\* TotalPower is that of the frames captured.
LEMMA TotalIsPowerIn == ASSUME NEW S PROVE TotalPower(S) = PowerIn(captured, S)
  BY DEF TotalPower, PowerIn, Weigh, IsWeigh, Body, Picked, MapThenSumSet, MapThenFoldSet, Power
LEMMA TotalIsPowerInNext == ASSUME NEW S PROVE TotalPower(S)' = PowerIn(captured', S)
  BY DEF TotalPower, PowerIn, Weigh, IsWeigh, Body, Picked, MapThenSumSet, MapThenFoldSet, Power
\* The fold takes a member.
LEMMA PickedIn == ASSUME NEW s, s # {} PROVE Picked(s) \in s
  BY DEF Picked

\* There is a function that weighs all subsets: the least size without one would have one.
LEMMA WeighIs ==
  ASSUME NEW c, NEW U, IsFiniteSet(U)
  PROVE  IsWeigh(c, U, Weigh(c, U))
<1> DEFINE Upto(n) == \E g : \A s \in SUBSET U : Cardinality(s) <= n => g[s] = Body(c, g, s)
<1>0. \A s \in SUBSET U : IsFiniteSet(s) /\ Cardinality(s) \in Nat /\ Cardinality(s) <= Cardinality(U)
  BY FS_Subset, FS_CardinalityType
<1>1. \A n \in Nat : Upto(n)
  <2> SUFFICES ASSUME {n \in Nat : ~Upto(n)} # {} PROVE FALSE
    OBVIOUS
  <2>1. PICK n \in {k \in Nat : ~Upto(k)} : \A m \in {k \in Nat : ~Upto(k)} : n <= m
    <3> HIDE DEF Upto
    <3> QED BY Least
  <2>2. CASE n = 0
    <3> DEFINE g == [s \in SUBSET U |-> 0]
    <3>1. \A s \in SUBSET U : Cardinality(s) <= 0 => g[s] = Body(c, g, s)
      BY <1>0, FS_EmptySet DEF Body
    <3> HIDE DEF g
    <3> QED BY <2>1, <2>2, <3>1
  <2>3. CASE n > 0
    <3>1. Upto(n - 1)
      <4> HIDE DEF Upto
      <4> QED BY <2>1, <2>3
    <3>2. PICK g : \A s \in SUBSET U : Cardinality(s) <= n - 1 => g[s] = Body(c, g, s)
      BY <3>1
    <3> DEFINE h == [s \in SUBSET U |-> Body(c, g, s)]
    <3>3. ASSUME NEW s \in SUBSET U, Cardinality(s) <= n PROVE h[s] = Body(c, h, s)
      <4>1. CASE s = {}
        BY <4>1 DEF Body
      <4>2. CASE s # {}
        <5> DEFINE t == s \ {Picked(s)}
        <5>1. Picked(s) \in s
          BY <4>2, PickedIn
        <5>2. t \in SUBSET U /\ Cardinality(t) <= n - 1
          BY <5>1, <1>0, <3>3, FS_RemoveElement
        <5>3. g[t] = Body(c, g, t)
          BY <5>2, <3>2
        <5>4. h[t] = g[t]
          BY <5>3, <5>2
        <5> QED BY <5>4, <4>2 DEF Body
      <4> QED BY <4>1, <4>2
    <3>4. Upto(n)
      <4> HIDE DEF h
      <4> QED BY <3>3
    <3> HIDE DEF Upto
    <3> QED BY <3>4, <2>1
  <2> HIDE DEF Upto
  <2> QED BY <2>1, <2>2, <2>3
<1>2. PICK g : \A s \in SUBSET U : Cardinality(s) <= Cardinality(U) => g[s] = Body(c, g, s)
  BY <1>1, FS_CardinalityType
<1> DEFINE h == [s \in SUBSET U |-> g[s]]
<1>3. h = [s \in SUBSET U |-> Body(c, h, s)]
  <2>1. ASSUME NEW s \in SUBSET U PROVE g[s] = Body(c, h, s)
    <3>1. g[s] = Body(c, g, s)
      BY <1>0, <1>2
    <3>2. s \ {Picked(s)} \in SUBSET U
      OBVIOUS
    <3> QED BY <3>1, <3>2 DEF Body
  <2> QED BY <2>1
<1> HIDE DEF h
<1>4. \E f : IsWeigh(c, U, f)
  BY <1>3 DEF IsWeigh
<1> QED BY <1>4, Zenon DEF Weigh

\* What it weighs a subset at.
LEMMA WeighAt ==
  ASSUME NEW c, NEW U, IsFiniteSet(U), NEW s \in SUBSET U
  PROVE  Weigh(c, U)[s] = Body(c, Weigh(c, U), s)
<1> DEFINE F == Weigh(c, U)
<1>1. IsWeigh(c, U, F)
  BY WeighIs
<1> HIDE DEF F
<1>2. F[s] = Body(c, F, s)
  BY <1>1 DEF IsWeigh
<1> QED BY <1>2 DEF F

\* The frames of U have a power.
Weighed(c, U) == \A f \in U : c[f].power \in Nat

\* The power of frames is a number.
LEMMA WeighNat ==
  ASSUME NEW c, NEW U, IsFiniteSet(U), Weighed(c, U)
  PROVE  \A s \in SUBSET U : Weigh(c, U)[s] \in Nat
<1> DEFINE T == {s \in SUBSET U : Weigh(c, U)[s] \notin Nat}
<1> SUFFICES ASSUME T # {} PROVE FALSE
  OBVIOUS
<1>1. PICK s \in T : \A t \in T : t \subseteq s => t = s
  <2>1. T \in SUBSET SUBSET U
    OBVIOUS
  <2> HIDE DEF T
  <2> QED BY <2>1, Smallest
<1>2. Weigh(c, U)[s] = Body(c, Weigh(c, U), s)
  BY WeighAt
<1>3. s # {}
  BY <1>2 DEF Body
<1>4. Picked(s) \in s
  BY <1>3, PickedIn
<1>5. Weigh(c, U)[s \ {Picked(s)}] \in Nat
  BY <1>1, <1>4
<1> QED BY <1>2, <1>3, <1>4, <1>5 DEF Body, Weighed

\* It depends on the power of the frames weighed only.
LEMMA WeighSame ==
  ASSUME NEW c, NEW d, NEW U, NEW V, IsFiniteSet(V), U \subseteq V,
         \A f \in U : c[f].power = d[f].power
  PROVE  \A s \in SUBSET U : Weigh(c, U)[s] = Weigh(d, V)[s]
<1>0. IsFiniteSet(U)
  BY FS_Subset
<1> DEFINE T == {s \in SUBSET U : Weigh(c, U)[s] # Weigh(d, V)[s]}
<1> SUFFICES ASSUME T # {} PROVE FALSE
  OBVIOUS
<1>1. PICK s \in T : \A t \in T : t \subseteq s => t = s
  <2>1. T \in SUBSET SUBSET U
    OBVIOUS
  <2> HIDE DEF T
  <2> QED BY <2>1, <1>0, Smallest
<1>2. Weigh(c, U)[s] = Body(c, Weigh(c, U), s)
  BY <1>0, WeighAt
<1>3. Weigh(d, V)[s] = Body(d, Weigh(d, V), s)
  BY WeighAt
<1>4. s # {}
  BY <1>2, <1>3 DEF Body
<1>5. Picked(s) \in s
  BY <1>4, PickedIn
<1>6. Weigh(c, U)[s \ {Picked(s)}] = Weigh(d, V)[s \ {Picked(s)}]
  BY <1>1, <1>5
<1> QED BY <1>2, <1>3, <1>4, <1>5, <1>6 DEF Body

\* It does not depend on the order in which the fold takes them.
LEMMA WeighTakesAny ==
  ASSUME NEW c, NEW U, IsFiniteSet(U), Weighed(c, U)
  PROVE  \A s \in SUBSET U : \A y \in s : Weigh(c, U)[s] = c[y].power + Weigh(c, U)[s \ {y}]
<1> DEFINE F == Weigh(c, U)
           T == {s \in SUBSET U : \E y \in s : F[s] # c[y].power + F[s \ {y}]}
<1>0. /\ \A s \in SUBSET U : F[s] \in Nat /\ F[s] = Body(c, F, s)
      /\ \A f \in U : c[f].power \in Nat
  BY WeighNat, WeighAt DEF Weighed
<1> HIDE DEF F
<1> SUFFICES ASSUME T # {} PROVE FALSE
  BY DEF F
<1>1. PICK s \in T : \A t \in T : t \subseteq s => t = s
  <2>1. T \in SUBSET SUBSET U
    OBVIOUS
  <2> HIDE DEF T
  <2> QED BY <2>1, Smallest
<1>2. PICK y \in s : F[s] # c[y].power + F[s \ {y}]
  BY <1>1
<1> DEFINE x == Picked(s)
           both == s \ {x, y}
<1>3. x \in s
  BY PickedIn
<1> HIDE DEF x
<1>4. F[s] = c[x].power + F[s \ {x}]
  BY <1>0, <1>3 DEF Body, x
<1>5. x # y
  BY <1>2, <1>4
<1>6. F[s \ {x}] = c[y].power + F[both]
  <2>1. s \ {x} \notin T /\ y \in s \ {x} /\ s \ {x} \in SUBSET U
    BY <1>1, <1>3, <1>5
  <2>2. (s \ {x}) \ {y} = both
    OBVIOUS
  <2> QED BY <2>1, <2>2
<1>7. F[s \ {y}] = c[x].power + F[both]
  <2>1. s \ {y} \notin T /\ x \in s \ {y} /\ s \ {y} \in SUBSET U
    BY <1>1, <1>3, <1>5
  <2>2. (s \ {y}) \ {x} = both
    OBVIOUS
  <2> QED BY <2>1, <2>2
<1>8. c[x].power \in Nat /\ c[y].power \in Nat /\ F[both] \in Nat
  BY <1>0, <1>3
<1> QED BY <1>2, <1>4, <1>6, <1>7, <1>8

\* The same facts, of the set weighed.
LEMMA PowerNat ==
  ASSUME NEW c, NEW S, IsFiniteSet(S), Weighed(c, S)
  PROVE  PowerIn(c, S) \in Nat
  BY WeighNat DEF PowerIn

LEMMA PowerSame ==
  ASSUME NEW c, NEW d, NEW S, IsFiniteSet(S), \A f \in S : c[f].power = d[f].power
  PROVE  PowerIn(c, S) = PowerIn(d, S)
  BY WeighSame DEF PowerIn

LEMMA PowerNone == ASSUME NEW c PROVE PowerIn(c, {}) = 0
<1>1. IsFiniteSet({})
  BY FS_EmptySet
<1>2. Weigh(c, {})[{}] = Body(c, Weigh(c, {}), {})
  BY <1>1, WeighAt
<1> QED BY <1>2 DEF PowerIn, Body

\* The power with a frame less or more.
LEMMA PowerWithout ==
  ASSUME NEW c, NEW S, IsFiniteSet(S), Weighed(c, S), NEW y \in S
  PROVE  PowerIn(c, S) = c[y].power + PowerIn(c, S \ {y})
<1>1. Weigh(c, S)[S] = c[y].power + Weigh(c, S)[S \ {y}]
  BY WeighTakesAny
<1>2. Weigh(c, S \ {y})[S \ {y}] = Weigh(c, S)[S \ {y}]
  BY WeighSame
<1> QED BY <1>1, <1>2 DEF PowerIn

LEMMA PowerWith ==
  ASSUME NEW c, NEW S, IsFiniteSet(S), NEW y, y \notin S, Weighed(c, S \cup {y})
  PROVE  PowerIn(c, S \cup {y}) = c[y].power + PowerIn(c, S)
<1>1. IsFiniteSet(S \cup {y})
  BY FS_AddElement
<1>2. PowerIn(c, S \cup {y}) = c[y].power + PowerIn(c, (S \cup {y}) \ {y})
  BY <1>1, PowerWithout
<1>3. (S \cup {y}) \ {y} = S
  OBVIOUS
<1> QED BY <1>2, <1>3

LEMMA PowerOfOne == ASSUME NEW c, NEW y, c[y].power \in Nat PROVE PowerIn(c, {y}) = c[y].power
<1>1. IsFiniteSet({}) /\ y \notin {} /\ Weighed(c, {} \cup {y})
  BY FS_EmptySet DEF Weighed
<1>2. PowerIn(c, {} \cup {y}) = c[y].power + PowerIn(c, {})
  BY <1>1, PowerWith
<1>3. {} \cup {y} = {y}
  OBVIOUS
<1> QED BY <1>2, <1>3, PowerNone

-----------------------------------------------------------------------------
\* Windows: frame numbers in order, and without a gap.
Rising(w) == \A i, j \in DOMAIN w : i < j => w[i] < w[j]
Consecutive(w) == \A i \in DOMAIN w : w[i] = w[1] + i - 1

\* The members of a sequence.
LEMMA SeqRange ==
  ASSUME NEW S, NEW w \in Seq(S)
  PROVE  Range(w) \subseteq S /\ Range(w) = {w[i] : i \in 1 .. Len(w)} /\ IsFiniteSet(Range(w))
<1>1. Range(w) = {w[i] : i \in 1 .. Len(w)} /\ Range(w) \subseteq S
  BY DEF Range
<1>2. IsFiniteSet(1 .. Len(w))
  BY FS_Interval
<1>3. w \in Surjection(1 .. Len(w), Range(w))
  BY DEF Surjection, Range
<1>4. IsFiniteSet(Range(w))
  BY <1>2, <1>3, FS_Surjection
<1> QED BY <1>1, <1>4

\* A window that is not full grows; a full one loses its oldest frame.
LEMMA SlideGrows ==
  ASSUME NEW w \in Seq(Nat), NEW n \in Nat \ {0}, Len(w) < n, NEW f \in Nat
  PROVE  /\ Slide(w, n, f) \in Seq(Nat) /\ Len(Slide(w, n, f)) = Len(w) + 1
         /\ \A i \in 1 .. Len(w) : Slide(w, n, f)[i] = w[i]
         /\ Slide(w, n, f)[Len(w) + 1] = f /\ Leaving(w, n) = {}
  BY DEF Slide, Leaving

LEMMA SlideMoves ==
  ASSUME NEW w \in Seq(Nat), NEW n \in Nat \ {0}, Len(w) = n, NEW f \in Nat
  PROVE  /\ Slide(w, n, f) \in Seq(Nat) /\ Len(Slide(w, n, f)) = Len(w)
         /\ \A i \in 1 .. Len(w) - 1 : Slide(w, n, f)[i] = w[i + 1]
         /\ Slide(w, n, f)[Len(w)] = f /\ Leaving(w, n) = {w[1]}
  BY DEF Slide, Leaving

\* The frames in the window that slides.
LEMMA SlideRange ==
  ASSUME NEW w \in Seq(Nat), NEW n \in Nat \ {0}, Len(w) <= n, NEW f \in Nat, Rising(w)
  PROVE  /\ Range(Slide(w, n, f)) = (Range(w) \ Leaving(w, n)) \cup {f}
         /\ Leaving(w, n) \subseteq Range(w)
<1> DEFINE v == Slide(w, n, f)
<1>0. Range(w) = {w[i] : i \in 1 .. Len(w)}
  BY SeqRange
<1>1. CASE Len(w) < n
  <2>1. /\ v \in Seq(Nat) /\ Len(v) = Len(w) + 1
        /\ \A i \in 1 .. Len(w) : v[i] = w[i]
        /\ v[Len(w) + 1] = f /\ Leaving(w, n) = {}
    BY <1>1, SlideGrows
  <2> HIDE DEF v
  <2>2. Range(v) = {v[i] : i \in 1 .. Len(v)}
    BY <2>1, SeqRange
  <2>3. Range(v) = Range(w) \cup {f}
    BY <1>0, <2>1, <2>2, SMTT(30)
  <2> QED BY <2>1, <2>3 DEF v
<1>2. CASE Len(w) = n
  <2>1. /\ v \in Seq(Nat) /\ Len(v) = Len(w)
        /\ \A i \in 1 .. Len(w) - 1 : v[i] = w[i + 1]
        /\ v[Len(w)] = f /\ Leaving(w, n) = {w[1]}
    BY <1>2, SlideMoves
  <2> HIDE DEF v
  <2>2. Range(w) \ {w[1]} = {w[i] : i \in 2 .. Len(w)}
    <3>1. \A i \in 2 .. Len(w) : w[i] # w[1]
      BY <1>2 DEF Rising
    <3> QED BY <1>0, <3>1
  <2>3. Range(v) = {v[i] : i \in 1 .. Len(v)}
    BY <2>1, SeqRange
  <2>4. Range(v) \subseteq {w[i] : i \in 2 .. Len(w)} \cup {f}
    BY <2>1, <2>3, SMTT(30)
  <2>5. \A i \in 2 .. Len(w) : w[i] = v[i - 1] /\ i - 1 \in 1 .. Len(v)
    BY <2>1
  <2>6. Len(v) \in 1 .. Len(v)
    BY <2>1, <1>2
  <2>7. {w[i] : i \in 2 .. Len(w)} \cup {f} \subseteq Range(v)
    <3>1. \A i \in 2 .. Len(w) : w[i] \in Range(v)
      BY <2>3, <2>5
    <3>2. f \in Range(v)
      BY <2>1, <2>3, <2>6
    <3> QED BY <3>1, <3>2
  <2>8. w[1] \in Range(w)
    BY <1>0, <1>2
  <2> QED BY <2>1, <2>2, <2>4, <2>7, <2>8 DEF v
<1> QED BY <1>1, <1>2

\* It stays in order and ends with the new frame.
LEMMA SlideRises ==
  ASSUME NEW w \in Seq(Nat), NEW n \in Nat \ {0}, Len(w) <= n, NEW f \in Nat,
         \A g \in Range(w) : g < f
  PROVE  /\ Slide(w, n, f) \in Seq(Nat) /\ Len(Slide(w, n, f)) <= n /\ Slide(w, n, f) # <<>>
         /\ Slide(w, n, f)[Len(Slide(w, n, f))] = f
         /\ Rising(w) => Rising(Slide(w, n, f))
         /\ Consecutive(w) /\ (w # <<>> => w[Len(w)] + 1 = f) => Consecutive(Slide(w, n, f))
<1> DEFINE v == Slide(w, n, f)
<1>0. /\ \A i \in 1 .. Len(w) : w[i] < f /\ w[i] \in Nat
      /\ DOMAIN w = 1 .. Len(w)
  BY DEF Range
<1>l. Len(w) \in Nat
  OBVIOUS
<1>1. CASE Len(w) < n
  <2>1. /\ v \in Seq(Nat) /\ Len(v) = Len(w) + 1
        /\ \A i \in 1 .. Len(w) : v[i] = w[i]
        /\ v[Len(w) + 1] = f
    BY <1>1, SlideGrows, SMTT(30)
  <2> HIDE DEF v
  <2>d. DOMAIN v = 1 .. Len(v)
    BY <2>1
  <2>l. Len(v) = Len(w) + 1
    BY <2>1
  <2>2. Rising(w) => Rising(v)
    <3> SUFFICES ASSUME Rising(w), NEW i \in 1 .. Len(v), NEW j \in 1 .. Len(v), i < j
                 PROVE  v[i] < v[j]
      BY <2>d DEF Rising
    <3>1. CASE j = Len(v)
      <4>1. i \in 1 .. Len(w)
        BY <1>l, <2>l, <3>1
      <4> QED BY <1>0, <2>1, <3>1, <4>1
    <3>2. CASE j # Len(v)
      <4>1. i \in 1 .. Len(w) /\ j \in 1 .. Len(w)
        BY <1>l, <2>l, <3>2
      <4>2. w[i] < w[j]
        BY <1>0, <4>1 DEF Rising
      <4> QED BY <2>1, <4>1, <4>2
    <3> QED BY <3>1, <3>2
  <2>3. Consecutive(w) /\ (w # <<>> => w[Len(w)] + 1 = f) => Consecutive(v)
    <3>1. CASE w = <<>>
      BY <2>1, <2>d, <3>1 DEF Consecutive
    <3>2. CASE w # <<>>
      <4>1. Len(w) >= 1 /\ v[1] = w[1]
        BY <1>0, <2>1, <3>2
      <4>2. ASSUME Consecutive(w), w[Len(w)] + 1 = f, NEW i \in 1 .. Len(v)
            PROVE  v[i] = v[1] + i - 1
        <5>1. \A j \in 1 .. Len(w) : w[j] = w[1] + j - 1
          BY <1>0, <4>2 DEF Consecutive
        <5>2. w[1] \in Nat
          BY <1>0, <4>1
        <5>3. CASE i = Len(v)
          <6>1. w[Len(w)] = w[1] + Len(w) - 1
            BY <1>0, <4>1, <5>1
          <6> QED BY <1>0, <2>1, <4>1, <4>2, <5>2, <5>3, <6>1
        <5>4. CASE i # Len(v)
          BY <1>0, <2>1, <4>1, <5>1, <5>2, <5>4, SMTT(30)
        <5> QED BY <5>3, <5>4
      <4> QED BY <2>d, <3>2, <4>2 DEF Consecutive
    <3> QED BY <3>1, <3>2
  <2> QED BY <1>1, <2>1, <2>2, <2>3 DEF v
<1>2. CASE Len(w) = n
  <2>1. /\ v \in Seq(Nat) /\ Len(v) = Len(w)
        /\ \A i \in 1 .. Len(w) - 1 : v[i] = w[i + 1]
        /\ v[Len(w)] = f
    BY <1>2, SlideMoves
  <2> HIDE DEF v
  <2>d. DOMAIN v = 1 .. Len(v)
    BY <2>1
  <2>l. Len(v) = Len(w)
    BY <2>1
  <2>2. Rising(w) => Rising(v)
    <3> SUFFICES ASSUME Rising(w), NEW i \in 1 .. Len(v), NEW j \in 1 .. Len(v), i < j
                 PROVE  v[i] < v[j]
      BY <2>d DEF Rising
    <3>1. CASE j = Len(v)
      <4>1. i \in 1 .. Len(w) - 1 /\ i + 1 \in 1 .. Len(w)
        BY <1>l, <2>l, <3>1
      <4>2. v[i] = w[i + 1] /\ w[i + 1] < f
        BY <1>0, <2>1, <4>1
      <4> QED BY <2>1, <3>1, <4>2
    <3>2. CASE j # Len(v)
      <4>1. /\ i \in 1 .. Len(w) - 1 /\ j \in 1 .. Len(w) - 1 /\ i + 1 < j + 1
            /\ i + 1 \in 1 .. Len(w) /\ j + 1 \in 1 .. Len(w)
        BY <1>l, <2>l, <3>2
      <4>2. w[i + 1] < w[j + 1]
        BY <1>0, <4>1 DEF Rising
      <4> QED BY <2>1, <4>1, <4>2
    <3> QED BY <3>1, <3>2
  <2>3. Consecutive(w) /\ (w # <<>> => w[Len(w)] + 1 = f) => Consecutive(v)
    <3> SUFFICES ASSUME Consecutive(w), w # <<>> => w[Len(w)] + 1 = f, NEW i \in 1 .. Len(v)
                 PROVE  v[i] = v[1] + i - 1
      BY <2>d DEF Consecutive
    <3>1. \A j \in 1 .. Len(w) : w[j] = w[1] + j - 1
      BY <1>0 DEF Consecutive
    <3>2. Len(w) >= 1 /\ w[1] \in Nat /\ w[Len(w)] = w[1] + Len(w) - 1 /\ f = w[1] + Len(w)
      BY <1>0, <1>2, <3>1
    <3>3. \A j \in 1 .. Len(v) : v[j] = w[1] + j
      <4> TAKE j \in 1 .. Len(v)
      <4>1. CASE j = Len(v)
        BY <2>1, <3>2, <4>1
      <4>2. CASE j # Len(v)
        <5>1. j \in 1 .. Len(w) - 1 /\ j + 1 \in 1 .. Len(w)
          BY <1>l, <2>l, <4>2
        <5>2. v[j] = w[j + 1] /\ w[j + 1] = w[1] + (j + 1) - 1
          BY <2>1, <3>1, <5>1
        <5> QED BY <3>2, <5>2
      <4> QED BY <4>1, <4>2
    <3> QED BY <1>0, <2>1, <3>2, <3>3
  <2> QED BY <1>2, <2>1, <2>2, <2>3 DEF v
<1> QED BY <1>1, <1>2

-----------------------------------------------------------------------------
\* A frame as it was captured.
Met == [power : Powers \cup {0}, at : [session : Nat, stream : Nat, turn : Nat], kind : Kinds]

\* The window of frames from g on, captured over stream s, was loud enough to barge in.
LoudFrom(c, g, s) ==
  /\ g + BargeWindow - 1 <= Len(c)
  /\ \A h \in g .. g + BargeWindow - 1 : c[h].kind \in {"playing", "refused"} /\ c[h].at.stream = s
  /\ PowerIn(c, g .. g + BargeWindow - 1) >= BargePower * BargeWindow

\* Some such window there was.
OpenedFor(c, s) == \E g \in Nat \ {0} : LoudFrom(c, g, s)

\* The values of the gates.
BargeGates == [stream : Nat, window : Seq(Nat), sum : Int, open : BOOLEAN]
ListenGates == [window : Seq(Nat), active : Int, open : BOOLEAN, quiet : 0 .. ListenRelease]

\* What the barge-in gate keeps, against the frames captured: a window without gaps of the
\* stream it is for, with its power, and no window once it is open, for which there was reason.
BargeHolds(c, b) ==
  /\ b \in BargeGates
  /\ Len(b.window) <= BargeWindow /\ Range(b.window) \subseteq 1 .. Len(c)
  /\ Consecutive(b.window)
  /\ \A f \in Range(b.window) : c[f].kind \in {"playing", "refused"} /\ c[f].at.stream = b.stream
  /\ (b.open \/ BargePower = 0 \/ b.stream = NoStream) => b.window = <<>>
  /\ b.sum = PowerIn(c, Range(b.window))
  /\ b.open => OpenedFor(c, b.stream)

\* What the listening gate keeps: frames heard while nothing played, and how many are loud.
ListenHolds(c, l) ==
  /\ l \in ListenGates
  /\ Len(l.window) <= ListenWindow /\ Range(l.window) \subseteq 1 .. Len(c)
  /\ Rising(l.window)
  /\ \A f \in Range(l.window) : c[f].kind = "listening"
  /\ (l.open \/ ListenPower = 0) => l.window = <<>>
  /\ l.active = Cardinality({f \in Range(l.window) : c[f].power >= ListenPower})

\* The constants.
LEMMA Limits ==
  /\ QueueLimit \in Nat \ {0} /\ BargeWindow \in Nat \ {0} /\ ListenWindow \in Nat \ {0}
  /\ ListenRelease \in Nat \ {0} /\ BargePower \in Nat /\ ListenPower \in Nat
  /\ MaxFrames \in Nat /\ MaxStreams \in Nat /\ MaxTurns \in Nat /\ MaxSessions \in Nat
  /\ ListenMin \in 1 .. ListenWindow /\ Powers \subseteq Nat
  BY MicrophoneAssumption

\* One frame more has been captured.
LEMMA FrameLater ==
  ASSUME NEW c \in Seq(Met), NEW m \in Met
  PROVE  /\ Append(c, m) \in Seq(Met) /\ Len(Append(c, m)) = Len(c) + 1 /\ Len(c) \in Nat
         /\ \A f \in 1 .. Len(c) : Append(c, m)[f] = c[f] /\ c[f] \in Met
         /\ Append(c, m)[Len(c) + 1] = m
  OBVIOUS

\* The parts of a frame captured are numbers.
LEMMA MetPower ==
  ASSUME NEW m \in Met
  PROVE  m.power \in Nat /\ m.at.session \in Nat /\ m.at.stream \in Nat /\ m.at.turn \in Nat
<1>1. m.power \in Powers \cup {0} /\ m.at \in [session : Nat, stream : Nat, turn : Nat]
  BY DEF Met
<1>2. m.power \in Nat
  <2>1. m.power \in Powers \/ m.power = 0
    BY <1>1
  <2>2. CASE m.power \in Powers
    BY <2>2, Limits, Zenon
  <2> QED BY <2>1, <2>2
<1>3. m.at.session \in Nat /\ m.at.stream \in Nat /\ m.at.turn \in Nat
  BY <1>1
<1> QED BY <1>2, <1>3

\* Frames captured can be weighed.
LEMMA WeighedFrames ==
  ASSUME NEW c \in Seq(Met), NEW S \in SUBSET (1 .. Len(c))
  PROVE  Weighed(c, S) /\ IsFiniteSet(S)
<1>1. \A f \in 1 .. Len(c) : c[f] \in Met
  OBVIOUS
<1>2. \A f \in S : c[f].power \in Nat
  BY <1>1, MetPower
<1>3. IsFiniteSet(1 .. Len(c))
  BY FS_Interval
<1> QED BY <1>2, <1>3, FS_Subset DEF Weighed

\* What held of the gates holds with one more frame captured.
LEMMA LoudLater ==
  ASSUME NEW c \in Seq(Met), NEW m \in Met, NEW g \in Nat \ {0}, NEW s, LoudFrom(c, g, s)
  PROVE  LoudFrom(Append(c, m), g, s)
<1> DEFINE d == Append(c, m)
<1>1. Len(d) = Len(c) + 1 /\ Len(c) \in Nat /\ \A f \in 1 .. Len(c) : d[f] = c[f]
  BY FrameLater
<1> HIDE DEF d
<1>2. g + BargeWindow - 1 <= Len(c) /\ g .. g + BargeWindow - 1 \subseteq 1 .. Len(c)
  BY <1>1, Limits DEF LoudFrom
<1>3. \A h \in g .. g + BargeWindow - 1 : d[h] = c[h]
  BY <1>1, <1>2
<1>4. IsFiniteSet(g .. g + BargeWindow - 1)
  BY Limits, FS_Interval
<1>5. PowerIn(d, g .. g + BargeWindow - 1) = PowerIn(c, g .. g + BargeWindow - 1)
  BY <1>3, <1>4, PowerSame, ZenonT(60)
<1>6. g + BargeWindow - 1 <= Len(d)
  BY <1>1, <1>2, Limits
<1> QED BY <1>3, <1>5, <1>6 DEF LoudFrom, d

LEMMA BargeLater ==
  ASSUME NEW c \in Seq(Met), NEW m \in Met, NEW b, BargeHolds(c, b)
  PROVE  BargeHolds(Append(c, m), b)
<1> DEFINE d == Append(c, m)
<1>1. Len(d) = Len(c) + 1 /\ Len(c) \in Nat /\ \A f \in 1 .. Len(c) : d[f] = c[f]
  BY FrameLater
<1>2. b.open => OpenedFor(d, b.stream)
  BY LoudLater DEF BargeHolds, OpenedFor
<1> HIDE DEF d
<1>3. Range(b.window) \subseteq 1 .. Len(c)
  BY DEF BargeHolds
<1>4. Range(b.window) \subseteq 1 .. Len(d) /\ \A f \in Range(b.window) : d[f] = c[f]
  BY <1>1, <1>3
<1>5. PowerIn(d, Range(b.window)) = PowerIn(c, Range(b.window))
  BY <1>3, <1>4, WeighedFrames, PowerSame
<1> QED BY <1>2, <1>4, <1>5 DEF BargeHolds, d

LEMMA ListenLater ==
  ASSUME NEW c \in Seq(Met), NEW m \in Met, NEW l, ListenHolds(c, l)
  PROVE  ListenHolds(Append(c, m), l)
<1> DEFINE d == Append(c, m)
<1>1. Len(d) = Len(c) + 1 /\ Len(c) \in Nat /\ \A f \in 1 .. Len(c) : d[f] = c[f]
  BY FrameLater
<1> HIDE DEF d
<1>3. Range(l.window) \subseteq 1 .. Len(c)
  BY DEF ListenHolds
<1>4. Range(l.window) \subseteq 1 .. Len(d) /\ \A f \in Range(l.window) : d[f] = c[f]
  BY <1>1, <1>3
<1>5. {f \in Range(l.window) : d[f].power >= ListenPower}
        = {f \in Range(l.window) : c[f].power >= ListenPower}
  BY <1>4
<1> QED BY <1>4, <1>5 DEF ListenHolds, d

\* The empty window.
LEMMA NoWindow == Range(<<>>) = {} /\ <<>> \in Seq(Nat) /\ Len(<<>>) = 0 /\ Rising(<<>>) /\ Consecutive(<<>>)
  BY DEF Range, Rising, Consecutive

\* A gate that was reset.
LEMMA BargeFresh ==
  ASSUME NEW c \in Seq(Met), NEW s \in Nat
  PROVE  BargeHolds(c, [BargeReset EXCEPT !.stream = s]) /\ BargeHolds(c, BargeReset)
<1>1. ASSUME NEW b \in BargeGates,
             b.window = <<>>, b.sum = 0, b.open = FALSE
      PROVE  BargeHolds(c, b)
  <2>1. 0 = PowerIn(c, Range(b.window)) /\ Range(b.window) = {}
    BY <1>1, NoWindow, PowerNone
  <2>2. b.window \in Seq(Nat) /\ Len(b.window) <= BargeWindow /\ Consecutive(b.window)
    BY <1>1, NoWindow, Limits
  <2> QED BY <1>1, <2>1, <2>2 DEF BargeHolds
<1>2. BargeReset \in BargeGates
      /\ BargeReset.window = <<>> /\ BargeReset.sum = 0 /\ BargeReset.open = FALSE
  BY DEF BargeReset, NoStream, BargeGates
<1> HIDE DEF BargeReset
<1> DEFINE b == [BargeReset EXCEPT !.stream = s]
<1>3. b \in BargeGates
      /\ b.window = <<>> /\ b.sum = 0 /\ b.open = FALSE
  BY <1>2 DEF BargeGates
<1> HIDE DEF b
<1>4. BargeHolds(c, b) /\ BargeHolds(c, BargeReset)
  BY <1>1, <1>2, <1>3
<1> QED BY <1>4 DEF b

LEMMA ListenFresh ==
  ASSUME NEW c \in Seq(Met)
  PROVE  ListenHolds(c, ListenReset) /\ ListenHolds(c, ListenOpened(ListenReset))
<1>1. ASSUME NEW l \in ListenGates,
             l.window = <<>>, l.active = 0
      PROVE  ListenHolds(c, l)
  <2>1. {f \in Range(l.window) : c[f].power >= ListenPower} = {} /\ Range(l.window) = {}
    BY <1>1, NoWindow
  <2>2. Len(l.window) <= ListenWindow /\ Rising(l.window)
    BY <1>1, NoWindow, Limits
  <2> QED BY <1>1, <2>1, <2>2, FS_EmptySet DEF ListenHolds
<1>2. ListenReset \in ListenGates
      /\ ListenReset.window = <<>> /\ ListenReset.active = 0
  BY Limits DEF ListenReset, ListenGates
<1> DEFINE l == ListenOpened(ListenReset)
<1>3. l \in ListenGates
      /\ l.window = <<>> /\ l.active = 0
  <2>1. 0 \in 0 .. ListenRelease
    BY Limits
  <2> HIDE DEF ListenReset
  <2> QED BY <1>2, <2>1 DEF ListenOpened, ListenGates
<1> HIDE DEF l
<1>4. ListenHolds(c, ListenReset) /\ ListenHolds(c, l)
  BY <1>1, <1>2, <1>3
<1> QED BY <1>4 DEF l

\* A window without a gap is an interval.
LEMMA ConsecutiveRises ==
  ASSUME NEW w \in Seq(Nat), Consecutive(w)
  PROVE  /\ Rising(w)
         /\ w # <<>> => w[1] \in Nat /\ Range(w) = w[1] .. w[Len(w)] /\ w[Len(w)] = w[1] + Len(w) - 1
<1>1. \A i \in 1 .. Len(w) : w[i] = w[1] + i - 1 /\ w[i] \in Nat
  BY DEF Consecutive
<1>2. DOMAIN w = 1 .. Len(w) /\ Len(w) \in Nat
  OBVIOUS
<1>3. w # <<>> => Len(w) >= 1 /\ 1 \in 1 .. Len(w) /\ Len(w) \in 1 .. Len(w)
  BY <1>2
<1>4. CASE w = <<>>
  BY <1>4 DEF Rising
<1>5. CASE w # <<>>
  <2>1. w[1] \in Nat /\ w[Len(w)] = w[1] + Len(w) - 1
    BY <1>1, <1>3, <1>5
  <2>2. \A i, j \in 1 .. Len(w) : i < j => w[i] < w[j]
    BY <1>1, <2>1
  <2>3. Range(w) = {w[i] : i \in 1 .. Len(w)}
    BY SeqRange
  <2>4. ASSUME NEW k \in w[1] .. w[Len(w)] PROVE k \in Range(w)
    <3>1. k - w[1] + 1 \in 1 .. Len(w) /\ k = w[1] + (k - w[1] + 1) - 1
      BY <1>2, <2>1
    <3> QED BY <1>1, <2>3, <3>1
  <2>5. ASSUME NEW k \in Range(w) PROVE k \in w[1] .. w[Len(w)]
    <3>1. PICK i \in 1 .. Len(w) : k = w[i]
      BY <2>3
    <3> QED BY <1>1, <1>2, <2>1, <3>1
  <2> QED BY <1>2, <1>5, <2>1, <2>2, <2>4, <2>5 DEF Rising
<1> QED BY <1>4, <1>5

\* A frame over a playback enters the window of the barge-in gate.
LEMMA BargeSlides ==
  ASSUME NEW c \in Seq(Met), NEW m \in Met, NEW b, BargeHolds(c, b), ~b.open, BargePower > 0,
         b.stream # NoStream, b.window # <<>> => b.window[Len(b.window)] = Len(c),
         m.kind \in {"playing", "refused"}, m.at.stream = b.stream,
         NEW d \in BargeGates,
         d.stream = b.stream, d.window = Slide(b.window, BargeWindow, Len(c) + 1), d.open = b.open,
         d.sum = b.sum + m.power - PowerIn(c, Leaving(b.window, BargeWindow))
  PROVE  BargeHolds(Append(c, m), d)
<1> DEFINE e == Append(c, m)
           n == Len(c)
           w == b.window
           gone == Leaving(w, BargeWindow)
<1>1. e \in Seq(Met) /\ Len(e) = n + 1 /\ n \in Nat /\ (\A f \in 1 .. n : e[f] = c[f]) /\ e[n + 1] = m
  BY FrameLater
<1>2. /\ w \in Seq(Nat) /\ Len(w) <= BargeWindow /\ Range(w) \subseteq 1 .. n /\ Consecutive(w)
      /\ \A f \in Range(w) : c[f].kind \in {"playing", "refused"} /\ c[f].at.stream = b.stream
      /\ b.sum = PowerIn(c, Range(w))
  BY DEF BargeHolds, BargeGates
<1> HIDE DEF e, n, w, gone
<1>3. BargeWindow \in Nat \ {0}
  BY Limits
<1>4. /\ d.window \in Seq(Nat) /\ Len(d.window) <= BargeWindow /\ Consecutive(d.window)
  <2>1. \A g \in Range(w) : g < n + 1
    BY <1>1, <1>2
  <2>2. w # <<>> => w[Len(w)] + 1 = n + 1
    BY DEF w, n
  <2> QED BY <1>1, <1>2, <1>3, <2>1, <2>2, SlideRises DEF w, n
<1>5. Range(d.window) = (Range(w) \ gone) \cup {n + 1} /\ gone \subseteq Range(w)
  <2>1. Rising(w)
    BY <1>2, ConsecutiveRises
  <2> QED BY <1>1, <1>2, <1>3, <2>1, SlideRange DEF w, n, gone
<1>6. Range(d.window) \subseteq 1 .. Len(e)
  BY <1>1, <1>2, <1>5
<1>7. \A f \in Range(d.window) : e[f].kind \in {"playing", "refused"} /\ e[f].at.stream = d.stream
  <2> TAKE f \in Range(d.window)
  <2>1. CASE f = n + 1
    BY <1>1, <2>1
  <2>2. CASE f \in Range(w)
    <3>1. e[f] = c[f]
      BY <1>1, <1>2, <2>2
    <3> QED BY <1>2, <2>2, <3>1
  <2> QED BY <1>5, <2>1, <2>2
<1>8. d.sum = PowerIn(e, Range(d.window))
  <2> DEFINE left == Range(w) \ gone
  <2>1. Range(w) \in SUBSET (1 .. n) /\ left \in SUBSET (1 .. n) /\ n + 1 \notin left
    BY <1>1, <1>2
  <2>2. Weighed(c, Range(w)) /\ IsFiniteSet(Range(w)) /\ Weighed(c, left) /\ IsFiniteSet(left)
    BY <2>1, WeighedFrames DEF n
  <2>3. PowerIn(c, Range(w)) = PowerIn(c, gone) + PowerIn(c, left) /\ PowerIn(c, gone) \in Nat
    <3>1. CASE gone = {}
      <4>1. left = Range(w)
        BY <3>1
      <4>2. PowerIn(c, Range(w)) \in Nat
        BY <2>2, PowerNat
      <4> QED BY <3>1, <4>1, <4>2, PowerNone
    <3>2. CASE gone = {Head(w)}
      <4>1. Head(w) \in Range(w)
        BY <1>5, <3>2
      <4>2. c[Head(w)].power \in Nat
        BY <2>2, <4>1 DEF Weighed
      <4>3. PowerIn(c, Range(w)) = c[Head(w)].power + PowerIn(c, Range(w) \ {Head(w)})
        BY <2>2, <4>1, PowerWithout
      <4>4. PowerIn(c, {Head(w)}) = c[Head(w)].power
        BY <4>2, PowerOfOne
      <4> HIDE DEF left
      <4>5. left = Range(w) \ {Head(w)}
        BY <3>2 DEF left
      <4> QED BY <3>2, <4>2, <4>3, <4>4, <4>5
    <3> QED BY <3>1, <3>2 DEF gone, Leaving
  <2>4. PowerIn(e, left) = PowerIn(c, left) /\ PowerIn(c, left) \in Nat
    BY <1>1, <2>1, <2>2, PowerSame, PowerNat
  <2>5. PowerIn(e, left \cup {n + 1}) = e[n + 1].power + PowerIn(e, left)
    <3>1. left \cup {n + 1} \in SUBSET (1 .. Len(e))
      BY <1>1, <2>1
    <3>2. Weighed(e, left \cup {n + 1})
      BY <1>1, <3>1, WeighedFrames
    <3> QED BY <2>1, <2>2, <3>2, PowerWith
  <2>6. m.power \in Nat
    BY MetPower
  <2>7. d.sum = PowerIn(c, Range(w)) + m.power - PowerIn(c, gone)
    BY <1>2 DEF gone, w
  <2> HIDE DEF left
  <2>8. Range(d.window) = left \cup {n + 1}
    BY <1>5 DEF left
  <2>9. PowerIn(e, Range(d.window)) = m.power + PowerIn(c, left)
    BY <1>1, <2>4, <2>5, <2>8
  <2> QED BY <2>3, <2>4, <2>6, <2>7, <2>9
<1>9. ~d.open /\ BargePower # 0 /\ d.stream # NoStream
  BY Limits
<1> QED BY <1>4, <1>6, <1>7, <1>8, <1>9 DEF BargeHolds, e

\* The window qualifies: the gate opens, and each frame in it came after the first loud one.
LEMMA BargeOpens ==
  ASSUME NEW c \in Seq(Met), NEW b, BargeHolds(c, b), BargeQualifies(b), b.stream # NoStream
  PROVE  /\ BargeHolds(c, BargeOpened(b)) /\ BargeOpened(b).stream = b.stream
         /\ BargeOpened(b).window = <<>>
         /\ \A f \in Range(b.window) : \E g \in 1 .. f : LoudFrom(c, g, b.stream)
<1> DEFINE w == b.window
<1>1. /\ w \in Seq(Nat) /\ Range(w) \subseteq 1 .. Len(c) /\ Consecutive(w)
      /\ \A f \in Range(w) : c[f].kind \in {"playing", "refused"} /\ c[f].at.stream = b.stream
      /\ b.sum = PowerIn(c, Range(w))
  BY DEF BargeHolds, BargeGates
<1>2. Len(w) = BargeWindow /\ b.sum >= BargePower * BargeWindow /\ BargeWindow \in Nat \ {0}
  BY Limits DEF BargeQualifies
<1> DEFINE g == w[1]
<1> HIDE DEF w
<1>3. w # <<>>
  BY <1>1, <1>2
<1>4. g \in Nat /\ Range(w) = g .. g + BargeWindow - 1
  BY <1>1, <1>2, <1>3, ConsecutiveRises
<1> HIDE DEF g
<1>5. g \in 1 .. Len(c) /\ g + BargeWindow - 1 <= Len(c)
  BY <1>1, <1>2, <1>4
<1>6. LoudFrom(c, g, b.stream)
  BY <1>1, <1>2, <1>4, <1>5 DEF LoudFrom
<1>7. \A f \in Range(w) : g \in 1 .. f
  BY <1>4, <1>5
<1> DEFINE d == BargeOpened(b)
<1>8. /\ d \in BargeGates
      /\ d.stream = b.stream /\ d.window = <<>> /\ d.sum = 0
  <2>1. b \in BargeGates
    BY DEF BargeHolds
  <2>2. <<>> \in Seq(Nat) /\ 0 \in Int /\ TRUE \in BOOLEAN
    OBVIOUS
  <2>3. d = [b EXCEPT !.window = <<>>, !.sum = 0, !.open = TRUE]
    BY DEF BargeOpened
  <2> HIDE DEF d
  <2>4. d \in BargeGates
    BY <2>1, <2>2, <2>3 DEF BargeGates
  <2> QED BY <2>1, <2>3, <2>4
<1> HIDE DEF d
<1>9. OpenedFor(c, d.stream)
  BY <1>5, <1>6, <1>8 DEF OpenedFor
<1>10. BargeHolds(c, d)
  <2>1. 0 = PowerIn(c, Range(d.window)) /\ Range(d.window) = {}
    BY <1>8, NoWindow, PowerNone
  <2>2. Len(d.window) <= BargeWindow /\ Consecutive(d.window)
    BY <1>2, <1>8, NoWindow
  <2> QED BY <1>8, <1>9, <2>1, <2>2 DEF BargeHolds
<1> QED BY <1>6, <1>7, <1>8, <1>10 DEF d, w

\* A frame enters the window of the listening gate.
LEMMA ListenSlides ==
  ASSUME NEW c \in Seq(Met), NEW m \in Met, NEW l, ListenHolds(c, l), ~l.open, ListenPower > 0,
         m.kind = "listening",
         NEW d \in ListenGates,
         d.window = Slide(l.window, ListenWindow, Len(c) + 1), d.open = l.open,
         d.active = l.active + (IF m.power >= ListenPower THEN 1 ELSE 0)
                      - Cardinality({g \in Leaving(l.window, ListenWindow) : c[g].power >= ListenPower})
  PROVE  ListenHolds(Append(c, m), d)
<1> DEFINE e == Append(c, m)
           n == Len(c)
           w == l.window
           gone == Leaving(w, ListenWindow)
<1>1. e \in Seq(Met) /\ Len(e) = n + 1 /\ n \in Nat /\ (\A f \in 1 .. n : e[f] = c[f]) /\ e[n + 1] = m
  BY FrameLater
<1>2. /\ w \in Seq(Nat) /\ Len(w) <= ListenWindow /\ Range(w) \subseteq 1 .. n /\ Rising(w)
      /\ \A f \in Range(w) : c[f].kind = "listening"
      /\ l.active = Cardinality({f \in Range(w) : c[f].power >= ListenPower})
  BY DEF ListenHolds, ListenGates
<1> HIDE DEF e, n, w, gone
<1>3. ListenWindow \in Nat \ {0}
  BY Limits
<1>4. /\ d.window \in Seq(Nat) /\ Len(d.window) <= ListenWindow /\ Rising(d.window)
  <2>1. \A g \in Range(w) : g < n + 1
    BY <1>1, <1>2
  <2> QED BY <1>1, <1>2, <1>3, <2>1, SlideRises DEF w, n
<1>5. Range(d.window) = (Range(w) \ gone) \cup {n + 1} /\ gone \subseteq Range(w)
  BY <1>1, <1>2, <1>3, SlideRange DEF w, n, gone
<1>6. Range(d.window) \subseteq 1 .. Len(e)
  BY <1>1, <1>2, <1>5
<1>7. \A f \in Range(d.window) : e[f].kind = "listening"
  <2> TAKE f \in Range(d.window)
  <2>1. CASE f = n + 1
    BY <1>1, <2>1
  <2>2. CASE f \in Range(w)
    <3>1. e[f] = c[f]
      BY <1>1, <1>2, <2>2
    <3> QED BY <1>2, <2>2, <3>1
  <2> QED BY <1>5, <2>1, <2>2
<1>8. d.active = Cardinality({f \in Range(d.window) : e[f].power >= ListenPower})
  <2> DEFINE loud == {f \in Range(w) : c[f].power >= ListenPower}
             lost == {g \in gone : c[g].power >= ListenPower}
             kept == loud \ lost
             new == IF m.power >= ListenPower THEN {n + 1} ELSE {}
  <2>1. IsFiniteSet(Range(w)) /\ n + 1 \notin Range(w)
    BY <1>1, <1>2, SeqRange
  <2>2. IsFiniteSet(loud) /\ loud \subseteq Range(w) /\ lost \subseteq loud
    BY <1>5, <2>1, FS_Subset
  <2>e. Cardinality(loud) \in Nat /\ Cardinality({}) = 0
    <3> HIDE DEF loud
    <3> QED BY <2>2, FS_EmptySet, FS_CardinalityType
  <2>3. {f \in Range(d.window) : e[f].power >= ListenPower} = kept \cup new
    <3>1. \A f \in Range(w) : e[f] = c[f] /\ f # n + 1
      BY <1>1, <1>2, <2>1
    <3> QED BY <1>1, <1>5, <3>1
  <2>4. /\ Cardinality(kept) = Cardinality(loud) - Cardinality(lost) /\ IsFiniteSet(kept)
        /\ Cardinality(loud) \in Nat /\ Cardinality(lost) \in Nat /\ Cardinality(kept) \in Nat
    <3>1. CASE gone = {}
      <4>1. lost = {} /\ kept = loud
        BY <3>1
      <4> HIDE DEF loud, lost, kept
      <4> QED BY <2>2, <2>e, <4>1
    <3>2. CASE gone = {Head(w)}
      <4>1. CASE c[Head(w)].power >= ListenPower
        <5>1. lost = {Head(w)} /\ Head(w) \in loud
          BY <2>2, <3>2, <4>1
        <5> HIDE DEF loud, lost
        <5>2. kept = loud \ {Head(w)}
          BY <5>1
        <5> HIDE DEF kept
        <5> QED BY <2>2, <5>1, <5>2, FS_RemoveElement, FS_Singleton, FS_CardinalityType
      <4>2. CASE ~(c[Head(w)].power >= ListenPower)
        <5>1. lost = {} /\ kept = loud
          BY <3>2, <4>2
        <5> HIDE DEF loud, lost, kept
        <5> QED BY <2>2, <2>e, <5>1
      <4> QED BY <4>1, <4>2
    <3> QED BY <3>1, <3>2 DEF gone, Leaving
  <2>5. Cardinality(kept \cup new) = Cardinality(kept) + (IF m.power >= ListenPower THEN 1 ELSE 0)
    <3>1. n + 1 \notin kept
      BY <2>1
    <3> HIDE DEF kept
    <3>2. CASE m.power >= ListenPower
      BY <2>4, <3>1, <3>2, FS_AddElement
    <3>3. CASE ~(m.power >= ListenPower)
      <4>1. kept \cup new = kept
        BY <3>3
      <4>2. Cardinality(kept \cup new) = Cardinality(kept) /\ Cardinality(kept) \in Nat
        BY <2>4, <4>1
      <4> QED BY <3>3, <4>2
    <3> QED BY <3>2, <3>3
  <2>6. d.active = Cardinality(loud) + (IF m.power >= ListenPower THEN 1 ELSE 0) - Cardinality(lost)
    BY <1>2 DEF gone, w
  <2> HIDE DEF loud, lost, kept, new
  <2>7. Cardinality({f \in Range(d.window) : e[f].power >= ListenPower}) = Cardinality(kept \cup new)
    BY <2>3
  <2>8. Cardinality(kept) = Cardinality(loud) - Cardinality(lost)
        /\ Cardinality(loud) \in Nat /\ Cardinality(lost) \in Nat
    BY <2>4
  <2> QED BY <2>5, <2>6, <2>7, <2>8
<1>9. ~d.open /\ ListenPower # 0
  BY Limits
<1> QED BY <1>4, <1>6, <1>7, <1>8, <1>9 DEF ListenHolds, e

\* The listening gate opens.
LEMMA ListenOpens ==
  ASSUME NEW c \in Seq(Met), NEW l, ListenHolds(c, l)
  PROVE  ListenHolds(c, ListenOpened(l)) /\ ListenOpened(l).window = <<>> /\ ListenOpened(l).open = TRUE
<1> DEFINE d == ListenOpened(l)
<1>1. /\ d \in ListenGates
      /\ d.window = <<>> /\ d.active = 0 /\ d.open = TRUE
  <2>1. l \in ListenGates
    BY DEF ListenHolds
  <2>2. <<>> \in Seq(Nat) /\ 0 \in Int /\ TRUE \in BOOLEAN /\ 0 \in 0 .. ListenRelease
    BY Limits
  <2>3. d = [l EXCEPT !.window = <<>>, !.active = 0, !.open = TRUE, !.quiet = 0]
    BY DEF ListenOpened
  <2> HIDE DEF d
  <2> QED BY <2>1, <2>2, <2>3 DEF ListenGates
<1> HIDE DEF d
<1>2. {f \in Range(d.window) : c[f].power >= ListenPower} = {} /\ Range(d.window) = {}
  BY <1>1, NoWindow
<1>3. Len(d.window) <= ListenWindow /\ Rising(d.window)
  BY <1>1, NoWindow, Limits
<1>4. ListenHolds(c, d)
  BY <1>1, <1>2, <1>3, FS_EmptySet DEF ListenHolds
<1> QED BY <1>1, <1>4 DEF d

-----------------------------------------------------------------------------
\* The tuples of variables are abbreviations.
USE DEF history, sends, gates, guards, waits, counts, tasks, cloud

\* The flags, the tasks and the current output stream.
FlagsOK ==
  /\ unsung \in BOOLEAN /\ guard \in BOOLEAN /\ tail \in BOOLEAN /\ bargeIn \in BOOLEAN
  /\ accepting \in BOOLEAN /\ ready \in BOOLEAN /\ waitAsked \in BOOLEAN /\ waiting \in BOOLEAN

TasksOK ==
  /\ sender \in {"none", "waiting", "sending"} /\ phase \in Phases
  /\ reader \in {"idle", "interrupting", "finishing"} /\ completing \subseteq Completers
  /\ response \in {"none", "asked", "speaking", "cancelled"}
  /\ vad \in {"none", "speech", "bargein", "warmup"}

OutputOK ==
  /\ output \in [stream : Nat, warm : BOOLEAN, ended : BOOLEAN]
  /\ output.stream = NoStream \/ output.stream = streams
  /\ streams \in Nat /\ streams <= MaxStreams

\* The constants of the session.
LEMMA Constants == Announce \in BOOLEAN /\ BargeIns \subseteq BOOLEAN
  BY MicrophoneAssumption

\* What the arrival of a frame leaves alone.
LEMMA ReceiveLeaves ==
  ASSUME NEW p, Receive(p)
  PROVE  /\ UNCHANGED <<unsung, guards, waits, ready, output, tasks, cloud, counts, sent>>
         /\ sender' = sender \/ sender' = "waiting"
<1>1. UNCHANGED <<unsung, guards, waits, ready, output, tasks, cloud, counts>>
  BY Zenon DEF Receive, ReceiveGuarded, ReceiveWarming, ReceiveEcho, ReceiveBargeIn, ReceiveOverPlayback,
     ReceiveUngated, ReceiveListening, Arrive
<1>2. ASSUME NEW fs, Forward(fs) PROVE sent' = sent /\ (sender' = sender \/ sender' = "waiting")
  BY <1>2, Zenon DEF Forward
<1>3. sent' = sent /\ (sender' = sender \/ sender' = "waiting")
  BY <1>2, Zenon DEF Receive, ReceiveGuarded, ReceiveWarming, ReceiveEcho, ReceiveBargeIn,
     ReceiveOverPlayback, ReceiveUngated, ReceiveListening
<1> QED BY <1>1, <1>3

\* They keep their types.
LEMMA FlagsStep == ASSUME FlagsOK, Next PROVE FlagsOK'
<1>1. ASSUME NEW p, Receive(p) PROVE FlagsOK'
  BY <1>1, ReceiveLeaves DEF FlagsOK
<1>2. CASE TailEnds \/ Sender
  BY <1>2, Zenon DEF FlagsOK, TailEnds, Sender, SenderTakes, SenderSent
<1>3. ASSUME NEW asked \in BOOLEAN, EnterReadyWait(asked)
      PROVE  accepting' \in BOOLEAN /\ waitAsked' \in BOOLEAN /\ waiting' \in BOOLEAN
  BY <1>3 DEF FlagsOK, EnterReadyWait
<1>4. CASE CloudResponds \/ AudioStarts \/ AudioDone \/ WarmUpPlayed
  BY <1>4, ZenonT(60) DEF FlagsOK, CloudResponds, AudioStarts, AudioDone, WarmUpPlayed
<1>5. CASE ResponseDone
  <2>1. /\ guard' = (guard /\ Playing) /\ tail' = (tail \/ (guard /\ ~Playing))
        /\ unsung' = (unsung \/ (guard /\ ~Playing))
        /\ UNCHANGED <<bargeIn, ready, waits>>
    BY <1>5, Zenon DEF ResponseDone, GuardAfterResponse
  <2> HIDE DEF Playing
  <2> QED BY <2>1 DEF FlagsOK
<1>6. ASSUME NEW who, CompletePlayback(who) PROVE FlagsOK'
  <2>1. guard' = FALSE /\ tail' = (tail \/ guard \/ ~bargeIn) /\ UNCHANGED <<unsung, bargeIn, ready, waits>>
    BY <1>6, Zenon DEF CompletePlayback
  <2> QED BY <2>1 DEF FlagsOK
<1>7. ASSUME NEW who, AfterCompletion(who) PROVE FlagsOK'
  <2>1. EnterReadyWait(waitAsked) /\ UNCHANGED <<unsung, guards, ready>>
    BY <1>7, Zenon DEF AfterCompletion
  <2> QED BY <1>3, <2>1 DEF FlagsOK
<1>8. CASE AfterResponse \/ VoiceWaitForReady
  <2>1. (EnterReadyWait(waitAsked) \/ EnterReadyWait(TRUE)) /\ UNCHANGED <<unsung, guards, ready>>
    BY <1>8, Zenon DEF AfterResponse, VoiceWaitForReady
  <2> QED BY <1>3, <2>1 DEF FlagsOK
<1>9. ASSUME NEW on \in BargeIns, VoiceSetBargeIn(on) PROVE FlagsOK'
  BY <1>9, Constants, Zenon DEF FlagsOK, VoiceSetBargeIn
<1>10. CASE ReadyDetected
  BY <1>10, Zenon DEF FlagsOK, ReadyDetected
<1>11. CASE Voice
  BY <1>11, ZenonT(60) DEF FlagsOK, Voice, SpeechIgnored, SpeechInterrupts, Interrupted, SpeechStopped
<1>12. CASE RequestStart \/ StartBegins \/ Connected \/ ConnectFails \/ AnnounceProject
  BY <1>12, Constants, ZenonT(60) DEF FlagsOK, RequestStart, StartBegins, Connected, ConnectFails, AnnounceProject
<1>13. CASE SwitchBegins \/ SwitchCleared \/ Reconnected \/ ReconnectFails \/ StopBegins \/ StopEnds
  BY <1>13, Zenon DEF FlagsOK, SwitchBegins, SwitchCleared, Reconnected, ReconnectFails, StopBegins, StopEnds
<1> QED
  BY <1>1, <1>2, <1>4, <1>5, <1>6, <1>7, <1>8, <1>9, <1>10, <1>11, <1>12, <1>13, Zenon
     DEF Next, Playback, Tools, Session

LEMMA TasksStep == ASSUME TasksOK, Next PROVE TasksOK'
<1>1. ASSUME NEW p, Receive(p) PROVE TasksOK'
  <2>1. UNCHANGED <<tasks, cloud>> /\ (sender' = sender \/ sender' = "waiting")
    BY <1>1, ReceiveLeaves
  <2> QED BY <2>1, Zenon DEF TasksOK
<1>2. CASE TailEnds \/ Sender
  BY <1>2, Zenon DEF TasksOK, TailEnds, Sender, SenderTakes, SenderSent
<1>3. CASE CloudResponds \/ AudioStarts \/ AudioDone \/ ResponseDone \/ WarmUpPlayed \/ AfterResponse
  BY <1>3, Zenon DEF TasksOK, CloudResponds, AudioStarts, AudioDone, ResponseDone, WarmUpPlayed, AfterResponse
<1>4. ASSUME NEW who \in Completers, CompletePlayback(who) \/ AfterCompletion(who) PROVE TasksOK'
  BY <1>4, Zenon DEF TasksOK, CompletePlayback, AfterCompletion
<1>5. CASE Tools
  BY <1>5, Zenon DEF TasksOK, Tools, VoiceWaitForReady, ReadyDetected, VoiceSetBargeIn
<1>6. CASE Voice
  BY <1>6, Zenon DEF TasksOK, Voice, SpeechIgnored, SpeechInterrupts, Interrupted, SpeechStopped
<1>7. CASE RequestStart \/ StartBegins \/ Connected \/ ConnectFails \/ AnnounceProject
  BY <1>7, Zenon DEF TasksOK, Phases, RequestStart, StartBegins, Connected, ConnectFails, AnnounceProject,
     StartInputSender
<1>8. CASE SwitchBegins \/ SwitchCleared \/ Reconnected \/ ReconnectFails \/ StopBegins \/ StopEnds
  BY <1>8, Zenon DEF TasksOK, Phases, SwitchBegins, SwitchCleared, Reconnected, ReconnectFails, StopBegins,
     StopEnds, StartInputSender, StopInputSender
<1> QED BY <1>1, <1>2, <1>3, <1>4, <1>5, <1>6, <1>7, <1>8, Zenon DEF Next, Playback, Session

LEMMA OutputStep == ASSUME OutputOK, Next PROVE OutputOK'
<1>1. ASSUME output' = output \/ output' = NoOutput, streams' = streams PROVE OutputOK'
  <2>1. NoOutput \in [stream : Nat, warm : BOOLEAN, ended : BOOLEAN] /\ NoOutput.stream = NoStream
    BY DEF NoOutput, NoStream
  <2> HIDE DEF NoOutput
  <2>2. CASE output' = output
    BY <1>1, <2>2 DEF OutputOK
  <2>3. CASE output' = NoOutput
    BY <1>1, <2>1, <2>3 DEF OutputOK
  <2> QED BY <1>1, <2>2, <2>3
<1>2. CASE AudioDone \/ ResponseDone
  <2>1. streams' = streams
        /\ (output' = output \/ output' = [output EXCEPT !.ended = TRUE])
    BY <1>2, Zenon DEF AudioDone, ResponseDone
  <2>2. CASE output' = [output EXCEPT !.ended = TRUE]
    BY <2>1, <2>2 DEF OutputOK
  <2> QED BY <1>1, <2>1, <2>2
<1>3. CASE WarmUpPlayed
  <2>1. streams' = streams /\ output' = [output EXCEPT !.warm = TRUE]
    BY <1>3, Zenon DEF WarmUpPlayed
  <2> QED BY <2>1 DEF OutputOK
<1>4. CASE AudioStarts
  <2>1. /\ streams < MaxStreams /\ streams' = streams + 1
        /\ output' = [stream |-> streams + 1, warm |-> FALSE, ended |-> FALSE]
    BY <1>4, Zenon DEF AudioStarts
  <2> QED BY <2>1, Limits DEF OutputOK
<1>5. ASSUME NEW p, Receive(p) PROVE OutputOK'
  BY <1>1, <1>5, ReceiveLeaves
<1>6. CASE TailEnds \/ Sender \/ CloudResponds \/ AfterResponse \/ Tools \/ Voice
  <2>1. streams' = streams /\ (output' = output \/ output' = NoOutput)
    BY <1>6, Zenon DEF TailEnds, Sender, SenderTakes, SenderSent, CloudResponds, AfterResponse, Tools,
       VoiceWaitForReady, ReadyDetected, VoiceSetBargeIn, Voice, SpeechIgnored, SpeechInterrupts,
       Interrupted, SpeechStopped
  <2> QED BY <1>1, <2>1
<1>7. ASSUME NEW who, CompletePlayback(who) \/ AfterCompletion(who) PROVE OutputOK'
  <2>1. streams' = streams /\ (output' = output \/ output' = NoOutput)
    BY <1>7, Zenon DEF CompletePlayback, AfterCompletion
  <2> QED BY <1>1, <2>1
<1>8. CASE Session
  <2>1. streams' = streams /\ (output' = output \/ output' = NoOutput)
    BY <1>8, Zenon DEF Session, RequestStart, StartBegins, Connected, ConnectFails, AnnounceProject,
       SwitchBegins, SwitchCleared, Reconnected, ReconnectFails, StopBegins, StopEnds
  <2> QED BY <1>1, <2>1
<1> QED BY <1>2, <1>3, <1>4, <1>5, <1>6, <1>7, <1>8, Zenon DEF Next, Playback

\* Which parts of the session exclude each other, and the counts that its bounds allow.
PhasesOK ==
  /\ reader = "interrupting" => ~guard
  /\ reader # "idle" => phase \in {"on", "stopping"}
  /\ accepting => phase \in {"asked", "connecting", "greeting", "on"}
  /\ ready => phase \in {"greeting", "on"}
  /\ Playing => phase \in {"on", "clearing", "stopping"}
  /\ waitAsked \/ waiting => phase = "on"
  /\ waiting => ~accepting
  /\ vad # "none" => phase = "on"

\* The counts stay within their bounds.
CountsOK ==
  /\ session \in Nat /\ session <= MaxSessions
  /\ phase \in {"asked", "connecting", "clearing", "reconnecting"} => session < MaxSessions
  /\ turn \in Nat /\ turn <= MaxTurns + 1
  /\ phase = "asked" \/ reader = "interrupting" => turn < MaxTurns
  /\ vad # "none" => turn <= MaxTurns

\* Step by step, for every action of the session.
LEMMA PhasesStep ==
  ASSUME PhasesOK, FlagsOK, TasksOK, Next
  PROVE  PhasesOK'
<1> DEFINE Still == UNCHANGED <<reader, guard, phase, accepting, ready, output, waitAsked, waiting, vad>>
<1>0. ASSUME Still PROVE PhasesOK'
  BY <1>0 DEF PhasesOK, Playing
<1>1. ASSUME NEW p, Receive(p) PROVE PhasesOK'
  <2>1. Still
    BY <1>1, ReceiveLeaves
  <2> QED BY <1>0, <2>1
<1>2. CASE TailEnds \/ Sender \/ CloudResponds
  <2>1. Still
    BY <1>2, Zenon DEF TailEnds, Sender, SenderTakes, SenderSent, CloudResponds
  <2> QED BY <1>0, <2>1
<1>3. CASE AudioStarts
  <2>1. phase = "on" /\ UNCHANGED <<reader, guard, phase, accepting, ready, waitAsked, waiting, vad>>
    BY <1>3, Zenon DEF AudioStarts, ReaderFree
  <2> QED BY <2>1 DEF PhasesOK
<1>4. CASE AudioDone
  <2>1. phase = "on" /\ UNCHANGED <<reader, guard, phase, accepting, ready, waitAsked, waiting, vad>>
    BY <1>4, Zenon DEF AudioDone, ReaderFree
  <2> QED BY <2>1 DEF PhasesOK
<1>5. CASE ResponseDone
  <2>1. /\ phase = "on" /\ UNCHANGED <<phase, accepting, ready, waitAsked, waiting, vad>>
        /\ reader' = "finishing" \/ reader' = "idle"
    BY <1>5, Zenon DEF ResponseDone, ReaderFree
  <2> QED BY <2>1 DEF PhasesOK
<1>6. CASE WarmUpPlayed
  <2>1. Playing /\ UNCHANGED <<reader, guard, phase, accepting, ready, waitAsked, waiting, vad>>
    BY <1>6, Zenon DEF WarmUpPlayed
  <2> QED BY <2>1 DEF PhasesOK
<1>7. ASSUME NEW asked \in BOOLEAN, EnterReadyWait(asked), asked => phase = "on",
             UNCHANGED <<guard, phase, ready, output, vad>>, reader' = reader \/ reader' = "idle"
      PROVE  PhasesOK'
  BY <1>7 DEF PhasesOK, EnterReadyWait, Playing
<1>8. ASSUME NEW who, CompletePlayback(who) PROVE PhasesOK'
  <2>1. /\ guard' = FALSE /\ output' = NoOutput
        /\ UNCHANGED <<reader, phase, accepting, ready, waitAsked, waiting, vad>>
    BY <1>8, Zenon DEF CompletePlayback
  <2> QED BY <2>1 DEF PhasesOK, Playing, NoOutput
<1>9. ASSUME NEW who, AfterCompletion(who) PROVE PhasesOK'
  <2>1. EnterReadyWait(waitAsked) /\ UNCHANGED <<guard, phase, ready, output, vad, reader>>
    BY <1>9, Zenon DEF AfterCompletion
  <2> QED BY <1>7, <2>1 DEF PhasesOK, FlagsOK
<1>10. CASE AfterResponse
  <2>1. EnterReadyWait(waitAsked) /\ UNCHANGED <<guard, phase, ready, output, vad>> /\ reader' = "idle"
    BY <1>10, Zenon DEF AfterResponse
  <2> QED BY <1>7, <2>1 DEF PhasesOK, FlagsOK
<1>11. CASE VoiceWaitForReady
  <2>1. EnterReadyWait(TRUE) /\ phase = "on" /\ UNCHANGED <<guard, phase, ready, output, vad, reader>>
    BY <1>11, Zenon DEF VoiceWaitForReady, ToolCall, ReaderFree
  <2> QED BY <1>7, <2>1
<1>12. CASE ReadyDetected
  <2>1. /\ waiting /\ ~waiting' /\ ~waitAsked' /\ UNCHANGED <<reader, guard, phase, ready, output, vad>>
    BY <1>12, Zenon DEF ReadyDetected
  <2> QED BY <2>1 DEF PhasesOK, Playing
<1>13. ASSUME NEW on, VoiceSetBargeIn(on) PROVE PhasesOK'
  <2>1. Still
    BY <1>13, Zenon DEF VoiceSetBargeIn
  <2> QED BY <1>0, <2>1
<1>14. CASE Voice
  <2>1. CASE SpeechIgnored \/ SpeechStopped
    <3>1. phase = "on" /\ UNCHANGED <<reader, guard, phase, accepting, ready, output, waitAsked, waiting>>
      BY <2>1, Zenon DEF SpeechIgnored, SpeechStopped, ReaderFree
    <3> QED BY <3>1 DEF PhasesOK, Playing
  <2>2. CASE SpeechInterrupts
    <3>1. /\ phase = "on" /\ ~guard
          /\ UNCHANGED <<guard, phase, accepting, ready, output, waitAsked, waiting>>
      BY <2>2, Zenon DEF SpeechInterrupts, ReaderFree
    <3> QED BY <3>1 DEF PhasesOK, Playing
  <2>3. CASE Interrupted
    <3>1. /\ reader' = "idle" /\ output' = NoOutput
          /\ UNCHANGED <<guard, phase, accepting, ready, waitAsked, waiting, vad>>
      BY <2>3, Zenon DEF Interrupted
    <3> QED BY <3>1 DEF PhasesOK, Playing, NoOutput
  <2> QED BY <1>14, <2>1, <2>2, <2>3, Zenon DEF Voice
<1>15. CASE RequestStart
  <2>1. /\ phase = "off" /\ phase' = "asked" 
        /\ UNCHANGED <<reader, guard, ready, output, waitAsked, waiting, vad>>
    BY <1>15, Zenon DEF RequestStart
  <2> QED BY <2>1 DEF PhasesOK, Playing
<1>16. CASE StartBegins
  <2>1. /\ phase = "asked" /\ phase' = "connecting" /\ vad' = "none"
        /\ UNCHANGED <<reader, guard, ready, output, waitAsked, waiting>>
    BY <1>16, Zenon DEF StartBegins
  <2> QED BY <2>1 DEF PhasesOK, Playing
<1>17. CASE Connected
  <2>1. /\ phase = "connecting" /\ phase' \in {"greeting", "on"}
        /\ UNCHANGED <<reader, accepting, output, waitAsked, waiting, vad>>
    BY <1>17, Zenon DEF Connected
  <2> QED BY <2>1 DEF PhasesOK, Playing
<1>18. CASE ConnectFails
  <2>1. /\ phase = "connecting" /\ phase' = "off" /\ ~accepting' /\ ~ready'
        /\ UNCHANGED <<reader, guard, output, waitAsked, waiting, vad>>
    BY <1>18, Zenon DEF ConnectFails
  <2> QED BY <2>1 DEF PhasesOK, Playing
<1>19. CASE AnnounceProject
  <2>1. /\ phase = "greeting" /\ phase' = "on"
        /\ UNCHANGED <<reader, accepting, ready, output, waitAsked, waiting, vad>>
    BY <1>19, Zenon DEF AnnounceProject
  <2> QED BY <2>1 DEF PhasesOK, Playing
<1>20. CASE SwitchBegins
  <2>1. /\ reader = "idle" /\ phase = "on" /\ phase' = "clearing" /\ ~accepting' /\ ~ready'
        /\ ~waitAsked' /\ ~waiting' /\ vad' = "none" /\ UNCHANGED <<reader, guard, output>>
    BY <1>20, Zenon DEF SwitchBegins, ToolCall, ReaderFree
  <2> QED BY <2>1 DEF PhasesOK, Playing
<1>21. CASE SwitchCleared
  <2>1. /\ phase = "clearing" /\ phase' = "reconnecting" /\ output' = NoOutput
        /\ UNCHANGED <<reader, guard, accepting, ready, waitAsked, waiting, vad>>
    BY <1>21, Zenon DEF SwitchCleared
  <2> QED BY <2>1 DEF PhasesOK, Playing, NoOutput
<1>22. CASE Reconnected
  <2>1. /\ phase = "reconnecting" /\ phase' = "greeting"
        /\ UNCHANGED <<reader, output, waitAsked, waiting, vad>>
    BY <1>22, Zenon DEF Reconnected
  <2> QED BY <2>1 DEF PhasesOK, Playing
<1>23. CASE ReconnectFails
  <2>1. /\ phase = "reconnecting" /\ phase' = "off"
        /\ UNCHANGED <<reader, guard, accepting, ready, output, waitAsked, waiting, vad>>
    BY <1>23, Zenon DEF ReconnectFails
  <2> QED BY <2>1 DEF PhasesOK, Playing
<1>24. CASE StopBegins
  <2>1. /\ phase = "on" /\ phase' = "stopping" /\ ~accepting' /\ ~ready' /\ ~waitAsked' /\ ~waiting'
        /\ vad' = "none" /\ UNCHANGED <<reader, guard, output>>
    BY <1>24, Zenon DEF StopBegins
  <2> QED BY <2>1 DEF PhasesOK, Playing
<1>25. CASE StopEnds
  <2>1. /\ phase = "stopping" /\ phase' = "off" /\ output' = NoOutput /\ reader' = "idle"
        /\ UNCHANGED <<guard, accepting, ready, waitAsked, waiting, vad>>
    BY <1>25, Zenon DEF StopEnds
  <2> QED BY <2>1 DEF PhasesOK, Playing, NoOutput
<1> QED
  BY <1>1, <1>2, <1>3, <1>4, <1>5, <1>6, <1>8, <1>9, <1>10, <1>11, <1>12, <1>13, <1>14, <1>15, <1>16,
     <1>17, <1>18, <1>19, <1>20, <1>21, <1>22, <1>23, <1>24, <1>25, Zenon
     DEF Next, Playback, Tools, Session

LEMMA CountsStep ==
  ASSUME CountsOK, PhasesOK, Next
  PROVE  CountsOK'
<1> DEFINE Still == UNCHANGED <<session, turn, phase, reader, vad>>
<1>0. ASSUME Still PROVE CountsOK'
  BY <1>0 DEF CountsOK
<1>1. ASSUME NEW p, Receive(p) PROVE CountsOK'
  <2>1. Still
    BY <1>1, ReceiveLeaves
  <2> QED BY <1>0, <2>1
<1>2. CASE TailEnds \/ Sender \/ CloudResponds \/ AudioStarts \/ AudioDone \/ WarmUpPlayed
           \/ ReadyDetected \/ VoiceWaitForReady
  <2>1. Still
    BY <1>2, Zenon DEF TailEnds, Sender, SenderTakes, SenderSent, CloudResponds, AudioStarts, AudioDone,
       WarmUpPlayed, ReadyDetected, VoiceWaitForReady
  <2> QED BY <1>0, <2>1
<1>3. ASSUME NEW x, CompletePlayback(x) \/ AfterCompletion(x) \/ VoiceSetBargeIn(x) PROVE CountsOK'
  <2>1. Still
    BY <1>3, Zenon DEF CompletePlayback, AfterCompletion, VoiceSetBargeIn
  <2> QED BY <1>0, <2>1
<1>4. CASE ResponseDone \/ AfterResponse
  <2>1. UNCHANGED <<session, turn, phase, vad>> /\ (reader' = "finishing" \/ reader' = "idle")
    BY <1>4, Zenon DEF ResponseDone, AfterResponse
  <2> QED BY <2>1 DEF CountsOK
<1>5. CASE SpeechIgnored
  <2>1. turn < MaxTurns /\ UNCHANGED <<session, turn, phase, reader>>
    BY <1>5, Zenon DEF SpeechIgnored
  <2> QED BY <2>1, Limits DEF CountsOK
<1>6. CASE SpeechInterrupts
  <2>1. turn < MaxTurns /\ UNCHANGED <<session, turn, phase>>
    BY <1>6, Zenon DEF SpeechInterrupts
  <2> QED BY <2>1, Limits DEF CountsOK
<1>7. CASE Interrupted
  <2>1. /\ reader = "interrupting" /\ reader' = "idle" /\ turn' = turn + 1
        /\ UNCHANGED <<session, phase, vad>>
    BY <1>7, Zenon DEF Interrupted
  <2>2. phase # "asked"
    BY <2>1 DEF PhasesOK
  <2> QED BY <2>1, <2>2, Limits DEF CountsOK
<1>8. CASE SpeechStopped
  <2>1. /\ reader = "idle" /\ phase = "on" /\ vad # "none" /\ vad' = "none" 
        /\ turn' = turn \/ turn' = turn + 1
        /\ UNCHANGED <<session, phase, reader>>
    BY <1>8, Zenon DEF SpeechStopped, ReaderFree
  <2> QED BY <2>1, Limits DEF CountsOK
<1>9. CASE RequestStart
  <2>1. /\ phase = "off" /\ phase' = "asked" /\ session < MaxSessions /\ turn < MaxTurns
        /\ UNCHANGED <<session, turn, reader, vad>>
    BY <1>9, Zenon DEF RequestStart
  <2> QED BY <2>1, Limits DEF CountsOK
<1>10. CASE StartBegins
  <2>1. /\ phase = "asked" /\ phase' = "connecting" /\ vad' = "none" /\ turn' = turn + 1
        /\ UNCHANGED <<session, reader>>
    BY <1>10, Zenon DEF StartBegins
  <2>2. reader # "interrupting"
    BY <2>1 DEF PhasesOK
  <2> QED BY <2>1, <2>2, Limits DEF CountsOK
<1>11. CASE Connected \/ Reconnected
  <2>1. /\ phase \in {"connecting", "reconnecting"} /\ phase' \in {"greeting", "on"}
        /\ session' = session + 1 /\ UNCHANGED <<turn, reader, vad>>
    BY <1>11, Zenon DEF Connected, Reconnected
  <2> QED BY <2>1, Limits DEF CountsOK
<1>12. CASE SwitchBegins
  <2>1. phase' = "clearing" /\ session < MaxSessions /\ vad' = "none" /\ UNCHANGED <<session, turn, reader>>
    BY <1>12, Zenon DEF SwitchBegins
  <2> QED BY <2>1, Limits DEF CountsOK
<1>13. CASE SwitchCleared
  <2>1. phase = "clearing" /\ phase' = "reconnecting" /\ UNCHANGED <<session, turn, reader, vad>>
    BY <1>13, Zenon DEF SwitchCleared
  <2> QED BY <2>1 DEF CountsOK
<1>14. CASE ConnectFails \/ AnnounceProject \/ ReconnectFails
  <2>1. phase' \in {"off", "on"} /\ UNCHANGED <<session, turn, reader, vad>>
    BY <1>14, Zenon DEF ConnectFails, AnnounceProject, ReconnectFails
  <2> QED BY <2>1 DEF CountsOK
<1>15. CASE StopBegins \/ StopEnds
  <2>1. /\ phase' \in {"stopping", "off"} /\ UNCHANGED <<session, turn>>
        /\ vad' = "none" \/ vad' = vad
        /\ reader' = "idle" \/ reader' = reader
    BY <1>15, Zenon DEF StopBegins, StopEnds
  <2> QED BY <2>1 DEF CountsOK
<1> QED
  BY <1>1, <1>2, <1>3, <1>4, <1>5, <1>6, <1>7, <1>8, <1>9, <1>10, <1>11, <1>12, <1>13, <1>14, <1>15,
     Zenon DEF Next, Playback, Tools, Voice, Session

\* All of the control state.
Control == FlagsOK /\ TasksOK /\ OutputOK /\ PhasesOK /\ CountsOK

LEMMA ControlStep == ASSUME Control, [Next]_vars PROVE Control'
<1>1. CASE Next
  BY <1>1, FlagsStep, TasksStep, OutputStep, PhasesStep, CountsStep DEF Control
<1>2. CASE UNCHANGED vars
  BY <1>2 DEF vars, Control, FlagsOK, TasksOK, OutputOK, PhasesOK, CountsOK, Playing
<1> QED BY <1>1, <1>2

LEMMA ControlStarts == ASSUME Init PROVE Control
<1>1. FlagsOK /\ TasksOK
  BY DEF Init, FlagsOK, TasksOK, Phases, Completers
<1>2. OutputOK /\ PhasesOK /\ CountsOK
  BY Limits DEF Init, OutputOK, NoOutput, NoStream, PhasesOK, CountsOK, Playing
<1> QED BY <1>1, <1>2 DEF Control

LEMMA ControlAlways == Spec => []Control
  BY ControlStarts, ControlStep, PTL DEF Spec

\* The guard that makes a session deaf while its announcement is asked for is not left on:
\* whatever barge-in, completion, a lost answer or a project switch (_announce_project,
\* _switch_project) does meanwhile, it is up only while the announcement is still to come.
THEOREM GuardAlwaysLifted == Spec => []GuardIsLifted
<1>1. Init => GuardIsLifted
  BY DEF Init, GuardIsLifted
<1>2. ASSUME GuardIsLifted, Control, Next PROVE GuardIsLifted'
  <2>0. PhasesOK
    BY <1>2 DEF Control
  <2> DEFINE Still == UNCHANGED <<guard, phase, response, output>>
  <2>1. ASSUME Still PROVE GuardIsLifted'
    BY <1>2, <2>1 DEF GuardIsLifted, Playing
  <2>2. ASSUME phase' # "on" \/ guard' = FALSE PROVE GuardIsLifted'
    BY <2>2 DEF GuardIsLifted
  <2>3. ASSUME NEW p, Receive(p) PROVE GuardIsLifted'
    BY <2>1, <2>3, ReceiveLeaves
  <2>4. CASE TailEnds \/ Sender \/ AfterResponse \/ Tools \/ SpeechIgnored \/ SpeechStopped
    <3>1. Still
      BY <2>4, Zenon DEF TailEnds, Sender, SenderTakes, SenderSent, AfterResponse, Tools, VoiceWaitForReady,
         ReadyDetected, VoiceSetBargeIn, SpeechIgnored, SpeechStopped
    <3> QED BY <2>1, <3>1
  <2>5. CASE CloudResponds \/ AudioStarts
    <3>1. response' \in {"asked", "speaking"}
      BY <2>5, Zenon DEF CloudResponds, AudioStarts
    <3> QED BY <3>1 DEF GuardIsLifted
  <2>6. CASE AudioDone \/ WarmUpPlayed
    <3>1. /\ UNCHANGED <<guard, phase, response>>
          /\ output' = [output EXCEPT !.ended = TRUE] \/ output' = [output EXCEPT !.warm = TRUE]
      BY <2>6, Zenon DEF AudioDone, WarmUpPlayed
    <3>2. output \in [stream : Nat, warm : BOOLEAN, ended : BOOLEAN]
      BY <1>2 DEF Control, OutputOK
    <3>3. output'.stream = output.stream
      BY <3>1, <3>2
    <3> QED BY <1>2, <3>1, <3>3 DEF GuardIsLifted, Playing
  <2>7. CASE ResponseDone
    <3>1. /\ guard' = (guard /\ Playing)
          /\ output' = IF Playing THEN [output EXCEPT !.ended = TRUE] ELSE output
      BY <2>7, Zenon DEF ResponseDone, GuardAfterResponse
    <3>2. output \in [stream : Nat, warm : BOOLEAN, ended : BOOLEAN]
      BY <1>2 DEF Control, OutputOK
    <3>3. output'.stream = output.stream
      BY <3>1, <3>2
    <3> QED BY <3>1, <3>3 DEF GuardIsLifted, Playing
  <2>8. ASSUME NEW who, CompletePlayback(who) \/ AfterCompletion(who) PROVE GuardIsLifted'
    <3>1. guard' = FALSE \/ Still
      BY <2>8, Zenon DEF CompletePlayback, AfterCompletion
    <3> QED BY <2>1, <2>2, <3>1
  <2>9. CASE SpeechInterrupts \/ Interrupted
    <3>1. ~guard /\ guard' = guard
      BY <2>0, <2>9 DEF SpeechInterrupts, Interrupted, PhasesOK
    <3> QED BY <3>1 DEF GuardIsLifted
  <2>10. CASE Connected
    <3>1. guard' = Announce /\ phase' = IF Announce THEN "greeting" ELSE "on"
      BY <2>10, Zenon DEF Connected
    <3> QED BY <3>1 DEF GuardIsLifted
  <2>11. CASE AnnounceProject
    <3>1. guard' = FALSE \/ response' = "asked"
      BY <2>11, Zenon DEF AnnounceProject
    <3> QED BY <3>1 DEF GuardIsLifted
  <2>12. CASE RequestStart \/ StartBegins \/ ConnectFails \/ SwitchBegins \/ SwitchCleared \/ Reconnected
              \/ ReconnectFails \/ StopBegins \/ StopEnds
    <3>1. phase' \in {"asked", "connecting", "off", "clearing", "reconnecting", "greeting", "stopping"}
      BY <2>12, Zenon DEF RequestStart, StartBegins, ConnectFails, SwitchBegins, SwitchCleared, Reconnected,
         ReconnectFails, StopBegins, StopEnds
    <3> QED BY <2>2, <3>1
  <2> QED
    BY <1>2, <2>3, <2>4, <2>5, <2>6, <2>7, <2>8, <2>9, <2>10, <2>11, <2>12, Zenon
       DEF Next, Playback, Voice, Session
<1>3. ASSUME GuardIsLifted, UNCHANGED vars PROVE GuardIsLifted'
  BY <1>3 DEF vars, GuardIsLifted, Playing
<1> QED BY <1>1, <1>2, <1>3, ControlAlways, PTL DEF Spec

-----------------------------------------------------------------------------
\* While a gate has a window, it is for what is playing, it ends with the last frame there was,
\* and nothing keeps a frame from it.
Live ==
  Playing /\ barge.stream = output.stream /\ barge.window # <<>> =>
    barge.window[Len(barge.window)] = Len(captured) /\ ~guard /\ ~tail /\ bargeIn /\ output.warm

\* The gates hold what they should of the frames captured.
GatesOK ==
  /\ captured \in Seq(Met) /\ Len(captured) <= MaxFrames
  /\ BargeHolds(captured, barge) /\ barge.stream <= streams
  /\ ListenHolds(captured, listen)
  /\ Live

\* Every step but the arrival of a frame.
Quiet == TailEnds \/ Sender \/ Playback \/ Tools \/ Voice \/ Session

LEMMA NextIs == Next <=> Quiet \/ \E p \in Powers : Receive(p)
  BY Zenon DEF Next, Quiet

\* Such a step resets a gate, or opens the listening gate, and captures nothing.
LEMMA QuietGates ==
  ASSUME Quiet
  PROVE  /\ captured' = captured /\ passed' = passed
         /\ barge' = barge \/ barge' = BargeReset
         /\ listen' = listen \/ listen' = ListenReset \/ listen' = ListenOpened(ListenReset)
<1> DEFINE Keeps == /\ captured' = captured /\ passed' = passed
                    /\ barge' = barge \/ barge' = BargeReset
                    /\ listen' = listen \/ listen' = ListenReset \/ listen' = ListenOpened(ListenReset)
<1>1. CASE TailEnds \/ Sender \/ Playback
  BY <1>1, Zenon DEF TailEnds, Sender, SenderTakes, SenderSent, Playback, CloudResponds, AudioStarts,
     AudioDone, ResponseDone, WarmUpPlayed, AfterResponse, CompletePlayback, AfterCompletion, GatesReset
<1>2. CASE Tools \/ Voice
  <2>1. CASE SpeechStopped
    <3>1. listen' = listen \/ listen' = ListenReset
      BY <2>1 DEF SpeechStopped
    <3> QED BY <2>1, <3>1, Zenon DEF SpeechStopped
  <2>2. CASE Tools \/ SpeechIgnored \/ SpeechInterrupts \/ Interrupted
    BY <2>2, Zenon DEF Tools, VoiceWaitForReady, ReadyDetected, VoiceSetBargeIn, SpeechIgnored,
       SpeechInterrupts, Interrupted
  <2> QED BY <1>2, <2>1, <2>2, Zenon DEF Voice
<1>3. CASE Session
  BY <1>3, Zenon DEF Session, RequestStart, StartBegins, Connected, ConnectFails, AnnounceProject, SwitchBegins,
     SwitchCleared, Reconnected, ReconnectFails, StopBegins, StopEnds, GatesReset
<1> QED BY <1>1, <1>2, <1>3, Zenon DEF Quiet

\* What Live depends on changes only with the gate's reset, or with what is played.
LEMMA LiveQuiet ==
  ASSUME Control, GatesOK, Quiet
  PROVE  Live'
<1>0. captured' = captured /\ (barge' = barge \/ barge' = BargeReset)
  BY QuietGates
<1>1. ASSUME barge' = BargeReset PROVE Live'
  BY <1>1 DEF Live, BargeReset
<1>2. ASSUME barge' = barge, output'.stream = output.stream, UNCHANGED <<guard, bargeIn>>,
             output.warm => output'.warm, tail' = tail \/ ~tail'
      PROVE  Live'
  BY <1>0, <1>2 DEF GatesOK, Live, Playing
<1>3. ASSUME output' = NoOutput PROVE Live'
  BY <1>3 DEF Live, Playing, NoOutput
<1>4. ASSUME ~Playing, output'.stream = output.stream PROVE Live'
  BY <1>4 DEF Live, Playing
<1>5. CASE TailEnds
  <2>1. UNCHANGED <<barge, output, guard, bargeIn>> /\ ~tail'
    BY <1>5, Zenon DEF TailEnds
  <2> QED BY <1>2, <2>1
<1>6. output \in [stream : Nat, warm : BOOLEAN, ended : BOOLEAN]
  BY DEF Control, OutputOK
<1>7. CASE AudioDone \/ WarmUpPlayed
  <2>1. /\ output' = [output EXCEPT !.ended = TRUE] \/ output' = [output EXCEPT !.warm = TRUE]
        /\ UNCHANGED <<barge, guard, tail, bargeIn>>
    BY <1>7, Zenon DEF AudioDone, WarmUpPlayed
  <2>2. output'.stream = output.stream /\ (output.warm => output'.warm)
    BY <1>6, <2>1
  <2> QED BY <1>2, <2>1, <2>2
<1>8. CASE ResponseDone
  <2>1. CASE Playing
    <3>1. /\ output' = [output EXCEPT !.ended = TRUE]
          /\ UNCHANGED <<barge, bargeIn>> /\ tail' = (tail \/ (guard /\ ~Playing)) /\ guard' = (guard /\ Playing)
      BY <1>8, <2>1, Zenon DEF ResponseDone, GuardAfterResponse
    <3>2. output'.stream = output.stream /\ (output.warm => output'.warm)
      BY <1>6, <3>1
    <3>3. FlagsOK
      BY DEF Control
    <3>4. guard' = guard /\ tail' = tail
      BY <2>1, <3>1, <3>3 DEF FlagsOK
    <3> QED BY <1>2, <3>1, <3>2, <3>4
  <2>2. CASE ~Playing
    <3>1. output' = output
      BY <1>8, <2>2 DEF ResponseDone
    <3> QED BY <1>4, <2>2, <3>1
  <2> QED BY <2>1, <2>2
<1>9. CASE AudioStarts
  <2>1. output' = [stream |-> streams + 1, warm |-> FALSE, ended |-> FALSE] /\ barge' = barge
    BY <1>9, Zenon DEF AudioStarts
  <2>2. barge'.stream # output'.stream
    <3>1. barge.stream \in Nat /\ barge.stream <= streams /\ streams \in Nat
      BY DEF GatesOK, BargeHolds, BargeGates, Control, OutputOK
    <3> QED BY <2>1, <3>1
  <2> QED BY <2>2 DEF Live
<1>10. CASE Sender \/ CloudResponds \/ AfterResponse \/ VoiceWaitForReady \/ ReadyDetected
            \/ SpeechIgnored \/ SpeechInterrupts \/ SpeechStopped
  <2>1. UNCHANGED <<barge, output, guard, tail, bargeIn>>
    BY <1>10, Zenon DEF Sender, SenderTakes, SenderSent, CloudResponds, AfterResponse, VoiceWaitForReady,
       ReadyDetected, SpeechIgnored, SpeechInterrupts, SpeechStopped
  <2> QED BY <1>2, <2>1
<1>11. ASSUME NEW x, CompletePlayback(x) \/ VoiceSetBargeIn(x) PROVE Live'
  <2>1. barge' = BargeReset
    BY <1>11, Zenon DEF CompletePlayback, VoiceSetBargeIn, GatesReset
  <2> QED BY <1>1, <2>1
<1>12. ASSUME NEW x, AfterCompletion(x) PROVE Live'
  <2>1. UNCHANGED <<barge, output, guard, tail, bargeIn>>
    BY <1>12, Zenon DEF AfterCompletion
  <2> QED BY <1>2, <2>1
<1>13. CASE Interrupted \/ SwitchCleared \/ StopEnds
  <2>1. output' = NoOutput
    BY <1>13, Zenon DEF Interrupted, SwitchCleared, StopEnds
  <2> QED BY <1>3, <2>1
<1>14. CASE RequestStart \/ ConnectFails \/ SwitchBegins \/ ReconnectFails
  <2>1. UNCHANGED <<barge, output, guard, tail, bargeIn>>
    BY <1>14, Zenon DEF RequestStart, ConnectFails, SwitchBegins, ReconnectFails
  <2> QED BY <1>2, <2>1
<1>15. CASE StartBegins \/ StopBegins
  <2>1. barge' = BargeReset
    BY <1>15, Zenon DEF StartBegins, StopBegins, GatesReset
  <2> QED BY <1>1, <2>1
<1>16. CASE Connected \/ AnnounceProject \/ Reconnected
  <2>1. phase \in {"connecting", "greeting", "reconnecting"} /\ output' = output
    BY <1>16, Zenon DEF Connected, AnnounceProject, Reconnected
  <2>2. ~Playing
    BY <2>1 DEF Control, PhasesOK
  <2> QED BY <1>4, <2>1, <2>2
<1> QED
  BY <1>5, <1>7, <1>8, <1>9, <1>10, <1>11, <1>12, <1>13, <1>14, <1>15, <1>16, Zenon
     DEF Quiet, Playback, Tools, Voice, Session

\* So the gates stay right.
LEMMA GatesQuiet ==
  ASSUME Control, GatesOK, Quiet
  PROVE  GatesOK'
<1>1. captured' = captured /\ captured \in Seq(Met) /\ Len(captured) <= MaxFrames
  BY QuietGates DEF GatesOK
<1>2. BargeHolds(captured, barge')
  <2>1. barge' = barge \/ barge' = BargeReset
    BY QuietGates
  <2>2. BargeHolds(captured, BargeReset) /\ BargeHolds(captured, barge)
    <3>1. 0 \in Nat
      OBVIOUS
    <3> QED BY <1>1, <3>1, BargeFresh DEF GatesOK
  <2> QED BY <2>1, <2>2, Zenon
<1>3. ListenHolds(captured, listen')
  <2>1. listen' = listen \/ listen' = ListenReset \/ listen' = ListenOpened(ListenReset)
    BY QuietGates
  <2>2. /\ ListenHolds(captured, ListenReset) /\ ListenHolds(captured, listen)
        /\ ListenHolds(captured, ListenOpened(ListenReset))
    BY <1>1, ListenFresh DEF GatesOK
  <2> QED BY <2>1, <2>2, Zenon
<1>4. barge'.stream <= streams'
  <2>1. barge.stream \in Nat /\ barge.stream <= streams /\ streams \in Nat
    BY DEF GatesOK, BargeHolds, BargeGates, Control, OutputOK
  <2>2. streams' = streams \/ streams' = streams + 1
    <3>1. CASE AudioStarts
      BY <3>1, Zenon DEF AudioStarts
    <3>2. CASE ~AudioStarts
      BY <3>2, Zenon DEF Quiet, TailEnds, Sender, SenderTakes, SenderSent, Playback, CloudResponds, AudioDone,
         ResponseDone, WarmUpPlayed, AfterResponse, CompletePlayback, AfterCompletion, Tools, VoiceWaitForReady,
         ReadyDetected, VoiceSetBargeIn, Voice, SpeechIgnored, SpeechInterrupts, Interrupted, SpeechStopped,
         Session, RequestStart, StartBegins, Connected, ConnectFails, AnnounceProject, SwitchBegins,
         SwitchCleared, Reconnected, ReconnectFails, StopBegins, StopEnds
    <3> QED BY <3>1, <3>2
  <2>3. barge' = barge \/ barge'.stream = 0
    BY QuietGates DEF BargeReset, NoStream
  <2> QED BY <2>1, <2>2, <2>3
<1>5. Live'
  BY LiveQuiet
<1>6. BargeHolds(captured', barge') /\ ListenHolds(captured', listen')
  BY <1>1, <1>2, <1>3
<1> QED BY <1>1, <1>4, <1>5, <1>6 DEF GatesOK, BargeHolds, ListenHolds

\* A frame that arrives is the next one captured.
LEMMA Arrives ==
  ASSUME Control, captured \in Seq(Met), NEW p \in Powers, NEW kind \in Kinds, Arrive(p, kind)
  PROVE  \E m \in Met :
           /\ captured' = Append(captured, m) /\ Len(captured) < MaxFrames
           /\ m.kind = "withheld" \/ accepting \/ Playing
           /\ kind = "withheld" => m.kind = "withheld"
           /\ kind # "withheld" /\ (accepting \/ Playing) =>
                m.power = p /\ m.at = Moment /\ m.kind = IF accepting THEN kind ELSE "refused"
           /\ kind # "withheld" /\ ~accepting /\ ~Playing => m.kind = "withheld"
<1> DEFINE met == [power |-> p, at |-> Moment, kind |-> IF accepting THEN kind ELSE "refused"]
           blank == kind = "withheld" \/ (~accepting /\ ~Playing)
<1>1. /\ Len(captured) < MaxFrames
      /\ captured' = Append(captured, IF blank THEN Withheld ELSE met)
  BY DEF Arrive
<1>2. Withheld \in Met /\ Withheld.kind = "withheld"
  BY DEF Withheld, Met, Kinds, NoStream
<1>3. Moment \in [session : Nat, stream : Nat, turn : Nat]
  BY DEF Moment, Control, OutputOK, CountsOK
<1>4. met \in Met
  BY <1>3 DEF Met, Kinds
<1>5. met.power = p /\ met.at = Moment /\ met.kind = IF accepting THEN kind ELSE "refused"
  OBVIOUS
<1> HIDE DEF met
<1>6. CASE blank
  BY <1>1, <1>2, <1>6
<1>7. CASE ~blank
  <2>1. captured' = Append(captured, met)
    BY <1>1, <1>7
  <2> QED BY <1>1, <1>4, <1>5, <1>7, <2>1
<1> QED BY <1>6, <1>7

\* The gate as a frame finds it, made ready for the current stream.
LEMMA BargeMetHolds ==
  ASSUME NEW c \in Seq(Met), BargeHolds(c, barge), OutputOK
  PROVE  /\ BargeHolds(c, BargeMet) /\ BargeMet.stream = output.stream
         /\ BargeMet.window # <<>> \/ BargeMet.open => barge.stream = output.stream /\ BargeMet = barge
<1>1. output.stream \in Nat
  BY DEF OutputOK
<1>2. CASE barge.stream = output.stream
  BY <1>2 DEF BargeMet
<1>3. CASE barge.stream # output.stream
  <2>1. BargeMet = [BargeReset EXCEPT !.stream = output.stream]
    BY <1>3 DEF BargeMet
  <2>2. BargeMet.window = <<>> /\ BargeMet.open = FALSE /\ BargeMet.stream = output.stream
    BY <2>1 DEF BargeReset
  <2>3. BargeHolds(c, BargeMet)
    BY <1>1, <2>1, BargeFresh
  <2> QED BY <2>2, <2>3
<1> QED BY <1>2, <1>3

\* The gate with the frame that arrives over a playback, before it is asked whether it opens.
LEMMA BargeNextHolds ==
  ASSUME Control, GatesOK, NEW p \in Powers, NEW m \in Met, Playing, ~BargeMet.open, BargePower > 0,
         m.power = p, m.at = Moment, m.kind \in {"playing", "refused"}
  PROVE  LET b == BargeNext(Arrived, p)
         IN  /\ BargeHolds(Append(captured, m), b) /\ b.stream = output.stream
             /\ b.window # <<>> /\ b.window[Len(b.window)] = Len(captured) + 1
             /\ b.window = Slide(BargeMet.window, BargeWindow, Arrived)
<1> DEFINE b == BargeNext(Arrived, p)
           d == BargeMet
<1>1. captured \in Seq(Met) /\ BargeHolds(captured, d) /\ d.stream = output.stream /\ OutputOK
      /\ (d.window # <<>> => barge.stream = output.stream /\ d = barge)
  BY BargeMetHolds DEF GatesOK, Control
<1>2. d \in BargeGates /\ d.window \in Seq(Nat) /\ d.sum \in Int /\ d.stream \in Nat
      /\ Len(d.window) <= BargeWindow /\ Range(d.window) \subseteq 1 .. Len(captured)
  BY <1>1 DEF BargeHolds, BargeGates
<1> HIDE DEF d
<1>3. PowerIn(captured, Leaving(d.window, BargeWindow)) \in Int
  <2>1. Leaving(d.window, BargeWindow) \in SUBSET (1 .. Len(captured))
    <3>1. CASE Len(d.window) = BargeWindow
      <4>1. Head(d.window) = d.window[1] /\ d.window[1] \in Range(d.window)
        BY <1>2, <3>1, Limits DEF Range
      <4> QED BY <1>2, <3>1, <4>1 DEF Leaving
    <3>2. CASE Len(d.window) # BargeWindow
      BY <3>2 DEF Leaving
    <3> QED BY <3>1, <3>2
  <2> QED BY <1>1, <2>1, WeighedFrames, PowerNat
<1>4. b = [d EXCEPT !.window = Slide(d.window, BargeWindow, Arrived),
                    !.sum = d.sum + p - PowerIn(captured, Leaving(d.window, BargeWindow))]
  BY TotalIsPowerIn, Zenon DEF BargeNext, d
<1> HIDE DEF b
<1>5. /\ Slide(d.window, BargeWindow, Arrived) \in Seq(Nat) /\ Arrived = Len(captured) + 1
      /\ Slide(d.window, BargeWindow, Arrived) # <<>>
      /\ Slide(d.window, BargeWindow, Arrived)[Len(Slide(d.window, BargeWindow, Arrived))] = Arrived
  <2>1. Arrived \in Nat /\ Arrived = Len(captured) + 1 /\ \A g \in Range(d.window) : g < Arrived
    BY <1>1, <1>2 DEF Arrived
  <2> QED BY <1>2, <2>1, SlideRises, Limits
<1>6. p \in Int
  BY Limits
<1>7. /\ b \in BargeGates /\ b.stream = d.stream /\ b.open = d.open
      /\ b.window = Slide(d.window, BargeWindow, Arrived)
      /\ b.sum = d.sum + p - PowerIn(captured, Leaving(d.window, BargeWindow))
  <2> DEFINE w == Slide(d.window, BargeWindow, Arrived)
             s == d.sum + p - PowerIn(captured, Leaving(d.window, BargeWindow))
  <2>1. s \in Int /\ w \in Seq(Nat) /\ b = [d EXCEPT !.window = w, !.sum = s]
    BY <1>2, <1>3, <1>4, <1>5, <1>6
  <2> HIDE DEF w, s
  <2>2. b \in BargeGates /\ b.stream = d.stream /\ b.open = d.open /\ b.window = w /\ b.sum = s
    BY <1>2, <2>1 DEF BargeGates
  <2> QED BY <2>2 DEF w, s
<1>8. d.window # <<>> => d.window[Len(d.window)] = Len(captured)
  <2>1. Live
    BY DEF GatesOK
  <2> QED BY <1>1, <2>1 DEF Live
<1>9. ~d.open /\ d.stream # NoStream /\ m.at.stream = d.stream
  <2>1. streams = output.stream
    BY <1>1 DEF Playing, OutputOK
  <2>2. m.at.stream = streams
    BY DEF Moment
  <2> QED BY <1>1, <2>1, <2>2 DEF d, Playing
<1>10. BargeHolds(Append(captured, m), b)
  BY <1>1, <1>5, <1>7, <1>8, <1>9, BargeSlides
<1> QED BY <1>1, <1>5, <1>7, <1>10 DEF b, d

\* The listening gate with the frame that arrives.
LEMMA ListenNextHolds ==
  ASSUME Control, GatesOK, NEW p \in Powers, NEW m \in Met, ~listen.open, ListenPower > 0,
         m.power = p, m.kind = "listening"
  PROVE  LET l == ListenNext(Arrived, p)
         IN  /\ ListenHolds(Append(captured, m), l) /\ l.open = FALSE
             /\ l.window = Slide(listen.window, ListenWindow, Arrived)
<1> DEFINE l == ListenNext(Arrived, p)
<1>1. captured \in Seq(Met) /\ ListenHolds(captured, listen)
  BY DEF GatesOK
<1>2. listen \in ListenGates /\ listen.window \in Seq(Nat) /\ listen.active \in Int
      /\ Len(listen.window) <= ListenWindow /\ Range(listen.window) \subseteq 1 .. Len(captured)
  BY <1>1 DEF ListenHolds, ListenGates
<1> DEFINE w == Slide(listen.window, ListenWindow, Arrived)
           lost == {g \in Leaving(listen.window, ListenWindow) : Loud(g)}
           s == listen.active + (IF p >= ListenPower THEN 1 ELSE 0) - Cardinality(lost)
<1>3. Cardinality(lost) \in Int
  <2>1. Range(listen.window) \in SUBSET (1 .. Len(captured)) /\ IsFiniteSet(Range(listen.window))
    BY <1>2, SeqRange
  <2>2. lost \subseteq Range(listen.window)
    <3>1. CASE Len(listen.window) = ListenWindow
      <4>1. Head(listen.window) = listen.window[1] /\ listen.window[1] \in Range(listen.window)
        BY <1>2, <3>1, Limits DEF Range
      <4> QED BY <3>1, <4>1 DEF Leaving
    <3>2. CASE Len(listen.window) # ListenWindow
      BY <3>2 DEF Leaving
    <3> QED BY <3>1, <3>2
  <2> HIDE DEF lost
  <2>3. IsFiniteSet(lost)
    BY <2>1, <2>2, FS_Subset
  <2> QED BY <2>3, FS_CardinalityType
<1>4. lost = {g \in Leaving(listen.window, ListenWindow) : captured[g].power >= ListenPower}
  BY DEF Loud, Power
<1>5. l = [listen EXCEPT !.window = w, !.active = s]
  BY Zenon DEF ListenNext
<1>6. w \in Seq(Nat) /\ Arrived = Len(captured) + 1
  <2>1. Arrived \in Nat /\ Arrived = Len(captured) + 1 /\ \A g \in Range(listen.window) : g < Arrived
    BY <1>1, <1>2 DEF Arrived
  <2> QED BY <1>2, <2>1, SlideRises, Limits
<1> HIDE DEF lost
<1>7. s \in Int
  BY <1>2, <1>3
<1> HIDE DEF l, w, s
<1>8. l \in ListenGates /\ l.open = listen.open /\ l.window = w /\ l.active = s
  BY <1>2, <1>5, <1>6, <1>7 DEF ListenGates
<1>9. ListenHolds(Append(captured, m), l)
  BY <1>1, <1>4, <1>6, <1>8, ListenSlides DEF w, s
<1>10. l.open = FALSE
  BY <1>2, <1>8 DEF ListenGates
<1> QED BY <1>8, <1>9, <1>10 DEF l, w

-----------------------------------------------------------------------------
\* What a frame m of power p may come to.

\* _forward_audio: what is queued when input is accepted.
Passes(fs) ==
  IF accepting
  THEN queue' = Newest(queue \o fs, QueueLimit) /\ passed' = passed \cup (Range(fs) \ {Silence})
  ELSE queue' = queue /\ passed' = passed

\* It is not even looked at.
Ignored(m) ==
  /\ m.kind = "withheld" /\ (FullyGuarded \/ Warming \/ ~Playing)
  /\ barge' = BargeMet /\ (listen' = listen \/ listen' = ListenReset)
  /\ Passes(<<Silence>>) \/ (queue' = queue /\ passed' = passed)

\* It was captured over a playback.
Over(m, p) ==
  /\ Playing /\ ~FullyGuarded /\ ~Warming
  /\ m.power = p /\ m.at = Moment /\ m.kind = IF accepting THEN "playing" ELSE "refused"
  /\ listen' = ListenReset

\* Over a playback: it waits in the window, opens the gate, or passes the open one.
Echoes(m, p) ==
  /\ Over(m, p) /\ BargePower > 0 /\ ~BargeMet.open
  /\ barge' = BargeNext(Arrived, p) /\ Passes(<<Silence>>)

\* The window is loud enough: all of it passes.
BargesIn(m, p) ==
  /\ Over(m, p) /\ BargePower > 0 /\ ~BargeMet.open /\ BargeQualifies(BargeNext(Arrived, p))
  /\ barge' = BargeOpened(BargeNext(Arrived, p)) /\ Passes(BargeNext(Arrived, p).window)

\* The gate is open, or there is none.
GoesOn(m, p) ==
  /\ Over(m, p) /\ (BargePower = 0 \/ BargeMet.open)
  /\ barge' = BargeMet /\ Passes(<<Arrived>>)

\* It was captured while nothing played.
Said(m, p) ==
  /\ ~Playing /\ accepting /\ ~FullyGuarded
  /\ m.power = p /\ m.at = Moment /\ m.kind = "listening" /\ barge' = BargeMet

\* While nothing plays: it passes, waits in the window, opens the gate or closes it.
Spoken(m, p) ==
  /\ Said(m, p) /\ Passes(<<Arrived>>)
  /\ \/ ListenPower = 0 /\ listen' = listen
     \/ ListenPower > 0 /\ listen.open /\ listen' = [listen EXCEPT !.quiet = QuietNext(p)]
        /\ QuietNext(p) < ListenRelease

\* It waits in the window.
Gathers(m, p) ==
  /\ Said(m, p) /\ ListenPower > 0 /\ ~listen.open /\ ~ListenQualifies(ListenNext(Arrived, p))
  /\ listen' = ListenNext(Arrived, p) /\ Passes(<<Silence>>)

\* Enough of the window is loud: all of it passes.
SpeaksUp(m, p) ==
  /\ Said(m, p) /\ ListenPower > 0 /\ ~listen.open /\ ListenQualifies(ListenNext(Arrived, p))
  /\ listen' = ListenOpened(ListenNext(Arrived, p)) /\ Passes(ListenNext(Arrived, p).window)

\* It has been quiet for long enough: the gate closes.
FallsSilent(m, p) ==
  /\ Said(m, p) /\ ListenPower > 0 /\ listen.open /\ QuietNext(p) >= ListenRelease
  /\ listen' = ListenReset /\ Passes(<<Silence>>)

\* All that may come of it.
Comes(m, p) ==
  \/ Ignored(m) \/ Echoes(m, p) \/ BargesIn(m, p) \/ GoesOn(m, p)
  \/ Spoken(m, p) \/ Gathers(m, p) \/ SpeaksUp(m, p) \/ FallsSilent(m, p)

\* The arrival of a frame comes to one of these.
LEMMA ForwardPasses == ASSUME NEW fs, Forward(fs) PROVE Passes(fs)
  BY Zenon DEF Forward, Passes

LEMMA ReceiveComes ==
  ASSUME Control, captured \in Seq(Met), NEW p \in Powers, Receive(p)
  PROVE  \E m \in Met : captured' = Append(captured, m) /\ Len(captured) < MaxFrames /\ Comes(m, p)
<1>0. {"withheld", "playing", "listening"} \subseteq Kinds
  BY DEF Kinds
<1>1. CASE ReceiveGuarded(p)
  <2>1. FullyGuarded /\ Arrive(p, "withheld") /\ barge' = BargeMet /\ listen' = ListenMet
        /\ queue' = queue /\ passed' = passed
    BY <1>1, Zenon DEF ReceiveGuarded
  <2>2. listen' = listen \/ listen' = ListenReset
    BY <2>1 DEF ListenMet
  <2>3. PICK m \in Met : captured' = Append(captured, m) /\ Len(captured) < MaxFrames /\ m.kind = "withheld"
    BY <1>0, <2>1, Arrives
  <2>4. Ignored(m)
    BY <2>1, <2>2, <2>3, Zenon DEF Ignored
  <2> QED BY <2>3, <2>4 DEF Comes
<1>2. CASE ReceiveWarming(p)
  <2>1. Warming /\ Arrive(p, "withheld") /\ barge' = BargeMet /\ listen' = ListenReset /\ Passes(<<Silence>>)
    BY <1>2, ForwardPasses, Zenon DEF ReceiveWarming
  <2>3. PICK m \in Met : captured' = Append(captured, m) /\ Len(captured) < MaxFrames /\ m.kind = "withheld"
    BY <1>0, <2>1, Arrives
  <2>4. Ignored(m)
    BY <2>1, <2>3, Zenon DEF Ignored
  <2> QED BY <2>3, <2>4 DEF Comes
<1>3. CASE ReceiveEcho(p) \/ ReceiveBargeIn(p) \/ ReceiveOverPlayback(p)
  <2>1. Playing /\ ~FullyGuarded /\ ~Warming /\ Arrive(p, "playing") /\ listen' = ListenReset
    BY <1>3, Zenon DEF ReceiveEcho, ReceiveBargeIn, ReceiveOverPlayback
  <2>2. PICK m \in Met : /\ captured' = Append(captured, m) /\ Len(captured) < MaxFrames
                         /\ m.power = p /\ m.at = Moment /\ m.kind = IF accepting THEN "playing" ELSE "refused"
    BY <1>0, <2>1, Arrives
  <2>3. Over(m, p)
    BY <2>1, <2>2, Zenon DEF Over
  <2>4. ReceiveEcho(p) => Echoes(m, p)
    BY <2>3, ForwardPasses, Zenon DEF ReceiveEcho, Echoes
  <2>5. ReceiveBargeIn(p) => BargesIn(m, p)
    BY <2>3, ForwardPasses, Zenon DEF ReceiveBargeIn, BargesIn, PreRoll
  <2>6. ReceiveOverPlayback(p) => GoesOn(m, p)
    BY <2>3, ForwardPasses, Zenon DEF ReceiveOverPlayback, GoesOn
  <2> QED BY <1>3, <2>2, <2>4, <2>5, <2>6 DEF Comes
<1>4. CASE ReceiveUngated(p)
  <2>1. /\ ~Playing /\ ~FullyGuarded /\ Arrive(p, "listening") /\ (~accepting \/ ListenPower = 0)
        /\ barge' = BargeMet /\ Passes(<<Arrived>>) /\ listen' = listen
    BY <1>4, ForwardPasses, Zenon DEF ReceiveUngated
  <2>2. CASE accepting
    <3>1. PICK m \in Met : /\ captured' = Append(captured, m) /\ Len(captured) < MaxFrames
                           /\ m.power = p /\ m.at = Moment /\ m.kind = "listening"
      BY <1>0, <2>1, <2>2, Arrives
    <3>2. Spoken(m, p)
      BY <2>1, <2>2, <3>1, Zenon DEF Spoken, Said
    <3> QED BY <3>1, <3>2 DEF Comes
  <2>3. CASE ~accepting
    <3>1. PICK m \in Met : captured' = Append(captured, m) /\ Len(captured) < MaxFrames /\ m.kind = "withheld"
      BY <1>0, <2>1, <2>3, Arrives
    <3>2. Ignored(m)
      BY <2>1, <2>3, <3>1, Zenon DEF Ignored, Passes
    <3> QED BY <3>1, <3>2 DEF Comes
  <2> QED BY <2>2, <2>3
<1>5. CASE ReceiveListening(p)
  <2>1. ~Playing /\ ~FullyGuarded /\ accepting /\ ListenPower > 0 /\ Arrive(p, "listening") /\ barge' = BargeMet
    BY <1>5, Zenon DEF ReceiveListening
  <2>2. PICK m \in Met : /\ captured' = Append(captured, m) /\ Len(captured) < MaxFrames
                         /\ m.power = p /\ m.at = Moment /\ m.kind = "listening"
    BY <1>0, <2>1, Arrives
  <2>3. Said(m, p)
    BY <2>1, <2>2, Zenon DEF Said
  <2>4. Gathers(m, p) \/ SpeaksUp(m, p) \/ Spoken(m, p) \/ FallsSilent(m, p)
    BY <1>5, <2>1, <2>3, ForwardPasses, Zenon
       DEF ReceiveListening, Gathers, SpeaksUp, Spoken, FallsSilent, PreRoll
  <2> QED BY <2>2, <2>4 DEF Comes
<1> QED BY <1>1, <1>2, <1>3, <1>4, <1>5, Zenon DEF Receive

\* The gates stay right when a frame arrives.
LEMMA GatesReceive ==
  ASSUME Control, GatesOK, NEW p \in Powers, NEW m \in Met, captured' = Append(captured, m),
         Len(captured) < MaxFrames, Comes(m, p), UNCHANGED <<output, streams, guard, tail, bargeIn>>
  PROVE  GatesOK'
<1> DEFINE c == Append(captured, m)
<1>1. /\ captured \in Seq(Met) /\ c \in Seq(Met) /\ Len(c) = Len(captured) + 1 /\ Len(captured) \in Nat
      /\ captured' = c /\ Len(c) <= MaxFrames
  <2>1. captured \in Seq(Met)
    BY DEF GatesOK
  <2> QED BY <2>1, FrameLater, Limits
<1>2. BargeHolds(c, BargeMet) /\ BargeMet.stream = output.stream
  <2>1. BargeHolds(c, barge)
    BY <1>1, BargeLater DEF GatesOK
  <2> QED BY <1>1, <2>1, BargeMetHolds DEF Control
<1>3. ListenHolds(c, ListenReset) /\ ListenHolds(c, listen)
  BY <1>1, ListenFresh, ListenLater DEF GatesOK
<1>4. output.stream \in Nat /\ output.stream <= streams /\ streams \in Nat /\ OutputOK /\ FlagsOK
  BY DEF Control, OutputOK, NoStream
<1> HIDE DEF c
<1>5. ASSUME BargeHolds(c, barge'), barge'.stream = output.stream, ListenHolds(c, listen'), Live'
      PROVE  GatesOK'
  <2>1. barge'.stream <= streams'
    BY <1>4, <1>5
  <2> QED BY <1>1, <1>5, <2>1 DEF GatesOK, BargeHolds, ListenHolds
<1>6. ASSUME barge' = BargeMet, FullyGuarded \/ Warming \/ ~Playing \/ BargePower = 0 \/ BargeMet.open
      PROVE  Live'
  <2> SUFFICES ASSUME Playing, BargeMet.window # <<>>
               PROVE  FALSE
    BY <1>6 DEF Live, Playing
  <2>1. barge.stream = output.stream /\ BargeMet = barge
    BY <1>4, <1>1, BargeMetHolds DEF GatesOK
  <2>2. ~guard /\ ~tail /\ bargeIn /\ output.warm
    BY <2>1 DEF GatesOK, Live
  <2>3. ~FullyGuarded /\ ~Warming
    BY <2>2 DEF FullyGuarded, Warming
  <2> QED BY <1>2, <1>6, <2>3 DEF BargeHolds
<1>7. CASE Ignored(m)
  <2>1. barge' = BargeMet /\ (listen' = listen \/ listen' = ListenReset)
        /\ (FullyGuarded \/ Warming \/ ~Playing)
    BY <1>7 DEF Ignored
  <2>2. ListenHolds(c, listen')
    BY <1>3, <2>1
  <2> QED BY <1>2, <1>5, <1>6, <2>1, <2>2
<1>8. CASE Over(m, p)
  <2>1. listen' = ListenReset /\ Playing /\ ~FullyGuarded /\ ~Warming
    BY <1>8 DEF Over
  <2>2. ListenHolds(c, listen')
    BY <1>3, <2>1
  <2>3. CASE GoesOn(m, p)
    <3>1. barge' = BargeMet /\ (BargePower = 0 \/ BargeMet.open)
      BY <2>3 DEF GoesOn
    <3> QED BY <1>2, <1>5, <1>6, <2>2, <3>1
  <2>4. ASSUME ~BargeMet.open, BargePower > 0
        PROVE  LET b == BargeNext(Arrived, p)
               IN  /\ BargeHolds(c, b) /\ b.stream = output.stream
                   /\ b.window[Len(b.window)] = Len(captured) + 1
    <3>1. m.power = p /\ m.at = Moment /\ m.kind \in {"playing", "refused"}
      BY <1>8 DEF Over
    <3> QED BY <2>1, <2>4, <3>1, BargeNextHolds DEF c
  <2>5. CASE Echoes(m, p)
    <3>1. barge' = BargeNext(Arrived, p) /\ ~BargeMet.open /\ BargePower > 0
      BY <2>5 DEF Echoes
    <3>2. BargeHolds(c, barge') /\ barge'.stream = output.stream
          /\ barge'.window[Len(barge'.window)] = Len(captured) + 1
      BY <2>4, <3>1
    <3>3. ~guard /\ ~tail /\ bargeIn /\ output.warm
      BY <1>4, <2>1 DEF FullyGuarded, Warming, FlagsOK
    <3>4. Live'
      BY <1>1, <3>2, <3>3 DEF Live
    <3> QED BY <1>5, <2>2, <3>2, <3>4
  <2>6. CASE BargesIn(m, p)
    <3>1. /\ barge' = BargeOpened(BargeNext(Arrived, p)) /\ ~BargeMet.open /\ BargePower > 0
          /\ BargeQualifies(BargeNext(Arrived, p))
      BY <2>6 DEF BargesIn
    <3>2. BargeHolds(c, BargeNext(Arrived, p)) /\ BargeNext(Arrived, p).stream = output.stream
          /\ output.stream # NoStream
      BY <2>1, <2>4, <3>1 DEF Playing
    <3>3. BargeHolds(c, barge') /\ barge'.stream = output.stream /\ barge'.window = <<>>
      BY <1>1, <3>1, <3>2, BargeOpens
    <3>4. Live'
      BY <3>3 DEF Live
    <3> QED BY <1>5, <2>2, <3>3, <3>4
  <2> QED BY <1>7, <1>8, <2>3, <2>5, <2>6 DEF Comes, Over, Said, Spoken, Gathers, SpeaksUp, FallsSilent
<1>9. CASE Said(m, p)
  <2>1. ~Playing /\ barge' = BargeMet /\ m.power = p /\ m.kind = "listening" /\ Live'
    BY <1>6, <1>9 DEF Said
  <2>2. CASE Spoken(m, p)
    <3>1. CASE listen' = listen
      BY <1>2, <1>3, <1>5, <2>1, <3>1
    <3>2. CASE listen' = [listen EXCEPT !.quiet = QuietNext(p)] /\ QuietNext(p) < ListenRelease
      <4>1. listen \in ListenGates
        BY <1>3 DEF ListenHolds
      <4>2. QuietNext(p) \in 0 .. ListenRelease
        BY <3>2, <4>1, Limits, SMTT(30) DEF QuietNext, ListenGates
      <4>3. /\ listen' \in ListenGates /\ listen'.window = listen.window /\ listen'.active = listen.active
            /\ listen'.open = listen.open
        <5> DEFINE q == QuietNext(p)
        <5> HIDE DEF q
        <5>1. listen' = [listen EXCEPT !.quiet = q] /\ q \in 0 .. ListenRelease
          BY <3>2, <4>2 DEF q
        <5> QED BY <4>1, <5>1 DEF ListenGates
      <4>4. ListenHolds(c, listen')
        BY <1>3, <4>3 DEF ListenHolds
      <4> QED BY <1>2, <1>5, <2>1, <4>4
    <3> QED BY <2>2, <3>1, <3>2 DEF Spoken
  <2>3. CASE FallsSilent(m, p)
    BY <1>2, <1>3, <1>5, <2>1, <2>3 DEF FallsSilent
  <2>4. CASE Gathers(m, p) \/ SpeaksUp(m, p)
    <3>1. ~listen.open /\ ListenPower > 0
          /\ (listen' = ListenNext(Arrived, p) \/ listen' = ListenOpened(ListenNext(Arrived, p)))
      BY <2>4 DEF Gathers, SpeaksUp
    <3>2. ListenHolds(c, ListenNext(Arrived, p))
      BY <2>1, <3>1, ListenNextHolds DEF c
    <3>3. ListenHolds(c, ListenOpened(ListenNext(Arrived, p)))
      BY <1>1, <3>2, ListenOpens
    <3> QED BY <1>2, <1>5, <2>1, <3>1, <3>2, <3>3
  <2> QED BY <1>7, <1>9, <2>2, <2>3, <2>4 DEF Comes, Over, Said, Echoes, BargesIn, GoesOn
<1> QED BY <1>7, <1>8, <1>9 DEF Comes, Echoes, BargesIn, GoesOn, Spoken, Gathers, SpeaksUp, FallsSilent

\* The arrival of a frame, with the gates right.
LEMMA ReceiveArrives ==
  ASSUME Control, GatesOK, NEW p \in Powers, Receive(p)
  PROVE  \E m \in Met : captured' = Append(captured, m) /\ Len(captured) < MaxFrames /\ Comes(m, p)
<1>1. captured \in Seq(Met)
  BY DEF GatesOK
<1> QED BY <1>1, ReceiveComes

\* The gates stay right.
LEMMA GatesStep ==
  ASSUME Control, GatesOK, [Next]_vars
  PROVE  GatesOK'
<1>1. CASE Quiet
  BY <1>1, GatesQuiet
<1>2. ASSUME NEW p \in Powers, Receive(p) PROVE GatesOK'
  <2>1. PICK m \in Met : captured' = Append(captured, m) /\ Len(captured) < MaxFrames /\ Comes(m, p)
    BY <1>2, ReceiveArrives
  <2>2. UNCHANGED <<output, streams, guard, tail, bargeIn>>
    BY <1>2, ReceiveLeaves
  <2> QED BY <2>1, <2>2, GatesReceive
<1>3. CASE UNCHANGED vars
  <2>1. UNCHANGED <<captured, barge, listen, streams, output, guard, tail, bargeIn>>
    BY <1>3, Zenon DEF vars
  <2> QED BY <2>1 DEF GatesOK, BargeHolds, ListenHolds, Live, Playing
<1> QED BY <1>1, <1>2, <1>3, NextIs

LEMMA GatesStart == ASSUME Init PROVE GatesOK
<1>1. captured \in Seq(Met) /\ Len(captured) <= MaxFrames
  BY Limits DEF Init
<1>2. barge = BargeReset /\ listen = ListenReset /\ streams = 0 /\ output = NoOutput
  BY DEF Init
<1>3. BargeHolds(captured, barge) /\ ListenHolds(captured, listen)
  <2>1. 0 \in Nat
    OBVIOUS
  <2> QED BY <1>1, <1>2, <2>1, BargeFresh, ListenFresh
<1>4. barge.stream <= streams
  BY <1>2 DEF BargeReset, NoStream
<1>5. Live
  BY <1>2 DEF Live, Playing, NoOutput
<1> QED BY <1>1, <1>3, <1>4, <1>5 DEF GatesOK

LEMMA GatesAlways == Spec => []GatesOK
  BY ControlAlways, GatesStart, GatesStep, PTL DEF Spec

\* The running sum and count that _check_barge_in_level and _check_listening_level keep
\* beside their deques are those of the frames in them, whatever resets, fills or empties
\* the windows between two frames.
THEOREM WindowsAlwaysAddUp == Spec => []WindowsAddUp
<1>1. ASSUME GatesOK PROVE WindowsAddUp
  <2>1. barge.sum = PowerIn(captured, Range(barge.window))
        /\ listen.active = Cardinality({f \in Range(listen.window) : captured[f].power >= ListenPower})
    BY <1>1 DEF GatesOK, BargeHolds, ListenHolds
  <2>2. barge.sum = TotalPower(Range(barge.window))
    BY <2>1, TotalIsPowerIn
  <2>3. {f \in Range(listen.window) : captured[f].power >= ListenPower} = {f \in Range(listen.window) : Loud(f)}
    BY DEF Loud, Power
  <2> QED BY <2>1, <2>2, <2>3 DEF WindowsAddUp
<1> QED BY <1>1, GatesAlways, PTL

-----------------------------------------------------------------------------
\* A queue from which only its oldest has gone.
EndOf(v, w) ==
  /\ v \in Seq(Nat) /\ Len(v) <= Len(w)
  /\ \A i \in 1 .. Len(v) : v[i] = w[i + (Len(w) - Len(v))]

\* Frames in order, with silence anywhere between them.
Ordered(q) == \A i, j \in DOMAIN q : i < j /\ q[j] # Silence => q[i] < q[j]

\* What is left of a queue.
LEMMA EndIsItself == ASSUME NEW w \in Seq(Nat) PROVE EndOf(w, w) /\ EndOf(<<>>, w)
<1>1. Len(w) \in Nat /\ Len(w) - Len(w) = 0 /\ \A i \in 1 .. Len(w) : i + 0 = i
  OBVIOUS
<1> QED BY <1>1 DEF EndOf

LEMMA TailIsEnd == ASSUME NEW w \in Seq(Nat), w # <<>> PROVE EndOf(Tail(w), w)
<1>1. /\ Tail(w) \in Seq(Nat) /\ Len(Tail(w)) = Len(w) - 1 /\ Len(w) \in Nat
      /\ \A i \in 1 .. Len(w) - 1 : Tail(w)[i] = w[i + 1]
  OBVIOUS
<1> QED BY <1>1 DEF EndOf

LEMMA NewestIsEnd ==
  ASSUME NEW w \in Seq(Nat), NEW n \in Nat \ {0}
  PROVE  EndOf(Newest(w, n), w) /\ Len(Newest(w, n)) <= n
         /\ (Len(w) > 0 => Newest(w, n) # <<>> /\ Newest(w, n)[Len(Newest(w, n))] = w[Len(w)])
<1> DEFINE v == Newest(w, n)
<1>0. Len(w) \in Nat
  OBVIOUS
<1>1. CASE Len(w) > n
  <2>1. v = SubSeq(w, Len(w) - n + 1, Len(w))
    BY <1>1 DEF Newest
  <2>2. Len(w) - n + 1 \in 1 .. Len(w) + 1
    BY <1>0, <1>1
  <2> HIDE DEF v
  <2>3. v \in Seq(Nat) /\ Len(v) = n /\ \A i \in 1 .. n : v[i] = w[i + (Len(w) - n)]
    BY <1>0, <1>1, <2>1, <2>2
  <2>4. v[n] = w[n + (Len(w) - n)] /\ n + (Len(w) - n) = Len(w)
    BY <1>0, <2>3
  <2> QED BY <1>0, <1>1, <2>3, <2>4 DEF EndOf, v
<1>2. CASE Len(w) <= n
  <2>0. ~(Len(w) > n)
    BY <1>0, <1>2
  <2>1. v = SubSeq(w, 1, Len(w))
    BY <2>0 DEF Newest
  <2> HIDE DEF v
  <2>2. v = w
    BY <1>0, <2>1
  <2> QED BY <1>0, <1>2, <2>2, EndIsItself DEF v
<1> QED BY <1>0, <1>1, <1>2

\* What is left is in order, and of what was there holds the last.
LEMMA EndKeeps ==
  ASSUME NEW w \in Seq(Nat), NEW v, EndOf(v, w)
  PROVE  /\ v \in Seq(Nat) /\ Len(v) <= Len(w) /\ Range(v) \subseteq Range(w)
         /\ Ordered(w) => /\ Ordered(v)
                          /\ \A f \in Range(w) \ {Silence}, g \in Range(v) \ {Silence} : g < f => f \in Range(v)
<1> DEFINE k == Len(w) - Len(v)
<1>1. v \in Seq(Nat) /\ k \in Nat /\ Len(v) \in Nat /\ Len(w) \in Nat /\ Len(w) = k + Len(v)
  BY DEF EndOf
<1>2. \A i \in 1 .. Len(v) : v[i] = w[i + k]
  BY DEF EndOf
<1> HIDE DEF k
<1>3. \A i \in 1 .. Len(v) : i + k \in 1 .. Len(w)
  BY <1>1
<1>4. Range(v) = {v[i] : i \in 1 .. Len(v)} /\ Range(w) = {w[i] : i \in 1 .. Len(w)}
  BY <1>1, SeqRange
<1>5. Range(v) \subseteq Range(w)
  BY <1>2, <1>3, <1>4
<1>6. ASSUME Ordered(w) PROVE Ordered(v)
  <2> SUFFICES ASSUME NEW i \in 1 .. Len(v), NEW j \in 1 .. Len(v), i < j, v[j] # Silence
               PROVE  v[i] < v[j]
    <3>1. DOMAIN v = 1 .. Len(v)
      BY <1>1
    <3> QED BY <3>1, Zenon DEF Ordered
  <2>1. i + k \in DOMAIN w /\ j + k \in DOMAIN w /\ i + k < j + k
    BY <1>1, <1>3
  <2>2. v[i] = w[i + k] /\ v[j] = w[j + k]
    BY <1>2
  <2> QED BY <1>6, <2>1, <2>2 DEF Ordered
<1>7. ASSUME Ordered(w), NEW f \in Range(w) \ {Silence}, NEW g \in Range(v) \ {Silence}, g < f
      PROVE  f \in Range(v)
  <2>1. PICK i \in 1 .. Len(w) : f = w[i]
    BY <1>4
  <2>2. PICK j \in 1 .. Len(v) : g = v[j]
    BY <1>4
  <2>3. g = w[j + k] /\ j + k \in 1 .. Len(w)
    BY <1>2, <1>3, <2>2
  <2>4. ~(i < j + k)
    <3>1. w[i] \in Nat /\ w[j + k] \in Nat
      BY <2>3
    <3>2. i < j + k => w[i] < w[j + k]
      BY <1>7, <2>3 DEF Ordered
    <3> QED BY <1>7, <2>1, <2>3, <3>1, <3>2
  <2>5. i - k \in 1 .. Len(v) /\ (i - k) + k = i
    BY <1>1, <2>4
  <2>6. v[i - k] = w[i]
    BY <1>2, <2>5
  <2> QED BY <1>4, <2>1, <2>5, <2>6
<1> QED BY <1>1, <1>5, <1>6, <1>7

\* What is queued behind.
LEMMA Joined ==
  ASSUME NEW q \in Seq(Nat), NEW fs \in Seq(Nat)
  PROVE  /\ q \o fs \in Seq(Nat) /\ Len(q \o fs) = Len(q) + Len(fs) /\ Range(q \o fs) = Range(q) \cup Range(fs)
         /\ Ordered(q) /\ Ordered(fs) /\ (\A f \in Range(q), g \in Range(fs) \ {Silence} : f < g)
              => Ordered(q \o fs)
<1> DEFINE w == q \o fs
<1>1. /\ w \in Seq(Nat) /\ Len(w) = Len(q) + Len(fs) /\ Len(q) \in Nat /\ Len(fs) \in Nat
      /\ \A i \in 1 .. Len(q) : w[i] = q[i]
      /\ \A i \in 1 .. Len(fs) : w[i + Len(q)] = fs[i]
  OBVIOUS
<1> HIDE DEF w
<1>2. \A i \in 1 .. Len(w) : (i \in 1 .. Len(q) /\ w[i] = q[i])
                             \/ (i - Len(q) \in 1 .. Len(fs) /\ w[i] = fs[i - Len(q)])
  <2> TAKE i \in 1 .. Len(w)
  <2>1. CASE i <= Len(q)
    BY <1>1, <2>1
  <2>2. CASE i > Len(q)
    <3>1. i - Len(q) \in 1 .. Len(fs) /\ (i - Len(q)) + Len(q) = i
      BY <1>1, <2>2
    <3> QED BY <1>1, <3>1
  <2> QED BY <1>1, <2>1, <2>2
<1>3. /\ Range(w) = {w[i] : i \in 1 .. Len(w)} /\ Range(q) = {q[i] : i \in 1 .. Len(q)}
      /\ Range(fs) = {fs[i] : i \in 1 .. Len(fs)}
  BY <1>1, SeqRange
<1>4. Range(w) = Range(q) \cup Range(fs)
  <2>1. Range(w) \subseteq Range(q) \cup Range(fs)
    BY <1>2, <1>3
  <2>2. ASSUME NEW i \in 1 .. Len(q) PROVE q[i] \in Range(w)
    <3>1. i \in 1 .. Len(w)
      BY <1>1
    <3> QED BY <1>1, <1>3, <3>1
  <2>3. ASSUME NEW i \in 1 .. Len(fs) PROVE fs[i] \in Range(w)
    <3>1. i + Len(q) \in 1 .. Len(w)
      BY <1>1
    <3> QED BY <1>1, <1>3, <3>1
  <2> QED BY <1>3, <2>1, <2>2, <2>3
<1>5. ASSUME Ordered(q), Ordered(fs), \A f \in Range(q), g \in Range(fs) \ {Silence} : f < g
      PROVE  Ordered(w)
  <2> SUFFICES ASSUME NEW i \in 1 .. Len(w), NEW j \in 1 .. Len(w), i < j, w[j] # Silence
               PROVE  w[i] < w[j]
    BY <1>1 DEF Ordered
  <2>1. CASE j \in 1 .. Len(q) /\ w[j] = q[j]
    <3>1. i \in 1 .. Len(q) /\ w[i] = q[i]
      BY <1>1, <2>1
    <3> QED BY <1>5, <2>1, <3>1 DEF Ordered
  <2>2. CASE j - Len(q) \in 1 .. Len(fs) /\ w[j] = fs[j - Len(q)]
    <3>1. CASE i \in 1 .. Len(q) /\ w[i] = q[i]
      BY <1>3, <1>5, <2>2, <3>1
    <3>2. CASE i - Len(q) \in 1 .. Len(fs) /\ w[i] = fs[i - Len(q)]
      <4>1. i - Len(q) < j - Len(q)
        BY <1>1
      <4> QED BY <1>5, <2>2, <3>2, <4>1 DEF Ordered
    <3> QED BY <1>2, <3>1, <3>2
  <2> QED BY <1>2, <2>1, <2>2
<1> QED BY <1>1, <1>4, <1>5 DEF w

\* A frame of silence, and a window, are in order.
LEMMA SilenceOrdered == <<Silence>> \in Seq(Nat) /\ Ordered(<<Silence>>) /\ Range(<<Silence>>) = {Silence}
<1>1. \A i \in DOMAIN <<Silence>> : i = 1
  OBVIOUS
<1>2. <<Silence>> \in Seq(Nat)
  BY DEF Silence
<1> QED BY <1>1, <1>2 DEF Ordered, Range

LEMMA RisingOrdered == ASSUME NEW w \in Seq(Nat), Rising(w) PROVE Ordered(w)
  BY DEF Rising, Ordered

-----------------------------------------------------------------------------
\* The frames a gate may still let out.
Held == Range(barge.window) \cup Range(listen.window)

\* Either nothing of the frame leaves yet, or what leaves empties the windows.
Blanks == Passes(<<Silence>>) /\ Held' \subseteq Held \cup {Arrived}

\* The frames of a window leave, or this frame alone, and the windows are empty.
LetsOut(fs) ==
  /\ Passes(fs) /\ fs \in Seq(Nat) /\ Rising(fs) /\ Range(fs) \subseteq Held \cup {Arrived}
  /\ Held' = {}

\* What the barge-in gate holds as a frame finds it.
LEMMA BargeMetHeld ==
  ASSUME Control, GatesOK
  PROVE  /\ Range(BargeMet.window) \subseteq Range(barge.window) /\ BargeMet.window \in Seq(Nat)
         /\ Rising(BargeMet.window) /\ Len(BargeMet.window) <= BargeWindow
         /\ ~Playing \/ BargePower = 0 \/ BargeMet.open => BargeMet.window = <<>>
<1>1. captured \in Seq(Met) /\ BargeHolds(captured, barge) /\ OutputOK
  BY DEF GatesOK, Control
<1>2. BargeHolds(captured, BargeMet) /\ BargeMet.stream = output.stream
      /\ (BargeMet.window # <<>> => BargeMet = barge)
  BY <1>1, BargeMetHolds
<1>3. BargeMet.window \in Seq(Nat) /\ Rising(BargeMet.window) /\ Len(BargeMet.window) <= BargeWindow
      /\ (~Playing \/ BargePower = 0 \/ BargeMet.open => BargeMet.window = <<>>)
  BY <1>2, ConsecutiveRises DEF BargeHolds, BargeGates, Playing
<1>4. Range(BargeMet.window) \subseteq Range(barge.window)
  BY <1>2, NoWindow
<1> QED BY <1>3, <1>4

\* The frame that arrives is newer than all that is held.
LEMMA ArrivedIs ==
  ASSUME Control, GatesOK
  PROVE  /\ Len(captured) \in Nat /\ Arrived = Len(captured) + 1 /\ Arrived \in Nat \ {0}
         /\ Held \subseteq 1 .. Len(captured)
         /\ listen.window \in Seq(Nat) /\ Rising(listen.window) /\ Len(listen.window) <= ListenWindow
         /\ listen.open \/ ListenPower = 0 => listen.window = <<>>
         /\ barge.window \in Seq(Nat)
  BY DEF GatesOK, BargeHolds, ListenHolds, BargeGates, ListenGates, Held, Arrived

\* The window with the arrived frame.
LEMMA SlideHeld ==
  ASSUME NEW w \in Seq(Nat), Rising(w), NEW n \in Nat \ {0}, Len(w) <= n, NEW f \in Nat, \A g \in Range(w) : g < f
  PROVE  /\ Slide(w, n, f) \in Seq(Nat) /\ Rising(Slide(w, n, f)) /\ Len(Slide(w, n, f)) <= n
         /\ Range(Slide(w, n, f)) \subseteq Range(w) \cup {f}
         /\ f \in Range(Slide(w, n, f))
  BY SlideRises, SlideRange

\* The windows with the frame that arrives.
EchoWindow == Slide(BargeMet.window, BargeWindow, Arrived)
SpeechWindow == Slide(listen.window, ListenWindow, Arrived)

\* They hold that frame and what was held.
LEMMA WindowsWith ==
  ASSUME Control, GatesOK
  PROVE  /\ EchoWindow \in Seq(Nat) /\ Rising(EchoWindow)
         /\ Range(EchoWindow) \subseteq Range(BargeMet.window) \cup {Arrived}
         /\ SpeechWindow \in Seq(Nat) /\ Rising(SpeechWindow) /\ Len(SpeechWindow) <= ListenWindow
         /\ Range(SpeechWindow) \subseteq Range(listen.window) \cup {Arrived}
         /\ Arrived \in Range(SpeechWindow)
<1>1. /\ Range(BargeMet.window) \subseteq Range(barge.window) /\ BargeMet.window \in Seq(Nat)
      /\ Rising(BargeMet.window) /\ Len(BargeMet.window) <= BargeWindow
  BY BargeMetHeld
<1>2. /\ Arrived = Len(captured) + 1 /\ Arrived \in Nat /\ Len(captured) \in Nat
      /\ Range(barge.window) \subseteq 1 .. Len(captured) /\ Range(listen.window) \subseteq 1 .. Len(captured)
      /\ listen.window \in Seq(Nat) /\ Rising(listen.window) /\ Len(listen.window) <= ListenWindow
  BY ArrivedIs DEF Held
<1>3. \A g \in Range(BargeMet.window) : g < Arrived
  BY <1>1, <1>2
<1>4. \A g \in Range(listen.window) : g < Arrived
  BY <1>2
<1>5. EchoWindow \in Seq(Nat) /\ Rising(EchoWindow)
      /\ Range(EchoWindow) \subseteq Range(BargeMet.window) \cup {Arrived}
  <2> DEFINE w == BargeMet.window
  <2>1. w \in Seq(Nat) /\ Rising(w) /\ Len(w) <= BargeWindow /\ \A g \in Range(w) : g < Arrived
    BY <1>1, <1>3
  <2> HIDE DEF w
  <2> QED BY <1>2, <2>1, SlideHeld, Limits DEF EchoWindow, w
<1>6. /\ SpeechWindow \in Seq(Nat) /\ Rising(SpeechWindow) /\ Len(SpeechWindow) <= ListenWindow
      /\ Range(SpeechWindow) \subseteq Range(listen.window) \cup {Arrived}
      /\ Arrived \in Range(SpeechWindow)
  BY <1>2, <1>4, SlideHeld, Limits DEF SpeechWindow
<1> QED BY <1>5, <1>6

\* The frame over a playback, and what its windows are then.
LEMMA OverWindows ==
  ASSUME Control, GatesOK, NEW p \in Powers, NEW m \in Met, captured' = Append(captured, m)
  PROVE  /\ Echoes(m, p) => barge'.window = EchoWindow /\ listen'.window = <<>> /\ Passes(<<Silence>>)
         /\ BargesIn(m, p) => /\ barge'.window = <<>> /\ listen'.window = <<>> /\ Passes(EchoWindow)
                              /\ \A f \in Range(EchoWindow) :
                                   /\ \E g \in 1 .. f : LoudFrom(captured', g, output.stream)
                                   /\ captured'[f].kind # "withheld" /\ captured'[f].at.stream = output.stream
         /\ GoesOn(m, p) => barge'.window = <<>> /\ listen'.window = <<>> /\ Passes(<<Arrived>>)
<1> DEFINE b == BargeNext(Arrived, p)
<1>1. Over(m, p) => listen'.window = <<>>
  BY DEF Over, ListenReset
<1>2. ASSUME Echoes(m, p) \/ BargesIn(m, p)
      PROVE  BargeHolds(captured', b) /\ b.stream = output.stream /\ b.window = EchoWindow
             /\ output.stream # NoStream /\ listen'.window = <<>>
  <2>1. /\ Playing /\ BargePower > 0 /\ ~BargeMet.open
        /\ m.power = p /\ m.at = Moment /\ m.kind \in {"playing", "refused"} /\ Over(m, p)
    BY <1>2 DEF Echoes, BargesIn, Over
  <2> QED BY <1>1, <2>1, BargeNextHolds DEF EchoWindow, Playing
<1> HIDE DEF b
<1>3. Echoes(m, p) => barge'.window = EchoWindow /\ listen'.window = <<>> /\ Passes(<<Silence>>)
  BY <1>2 DEF Echoes, b
<1>4. ASSUME BargesIn(m, p)
      PROVE  /\ barge'.window = <<>> /\ listen'.window = <<>> /\ Passes(EchoWindow)
             /\ \A f \in Range(EchoWindow) :
                  /\ \E g \in 1 .. f : LoudFrom(captured', g, output.stream)
                  /\ captured'[f].kind # "withheld" /\ captured'[f].at.stream = output.stream
  <2>1. barge' = BargeOpened(b) /\ Passes(b.window) /\ BargeQualifies(b)
    BY <1>4 DEF BargesIn, b
  <2>2. captured' \in Seq(Met)
    BY FrameLater DEF GatesOK
  <2>3. BargeOpened(b).window = <<>> /\ \A f \in Range(b.window) : \E g \in 1 .. f : LoudFrom(captured', g, b.stream)
    BY <1>2, <1>4, <2>1, <2>2, BargeOpens
  <2>4. \A f \in Range(b.window) : captured'[f].kind # "withheld" /\ captured'[f].at.stream = b.stream
    BY <1>2, <1>4 DEF BargeHolds
  <2> QED BY <1>2, <1>4, <2>1, <2>3, <2>4
<1>5. ASSUME GoesOn(m, p) PROVE barge'.window = <<>> /\ listen'.window = <<>> /\ Passes(<<Arrived>>)
  BY <1>1, <1>5, BargeMetHeld DEF GoesOn
<1> QED BY <1>3, <1>4, <1>5

\* The frame while nothing plays.
LEMMA SaidWindows ==
  ASSUME Control, GatesOK, NEW p \in Powers, NEW m \in Met, captured' = Append(captured, m)
  PROVE  /\ Said(m, p) => barge'.window = <<>>
         /\ Spoken(m, p) => listen'.window = <<>> /\ listen'.open = listen.open /\ Passes(<<Arrived>>)
         /\ Gathers(m, p) => listen'.window = SpeechWindow /\ listen'.open = FALSE /\ Passes(<<Silence>>)
                             /\ ~ListenQualifies(listen')
         /\ SpeaksUp(m, p) => /\ listen'.window = <<>> /\ listen'.open = TRUE /\ Passes(SpeechWindow)
                              /\ \A f \in Range(SpeechWindow) : captured'[f].kind = "listening"
         /\ FallsSilent(m, p) => listen'.window = <<>> /\ listen'.open = FALSE /\ Passes(<<Silence>>)
<1>1. Said(m, p) => barge'.window = <<>>
  BY BargeMetHeld DEF Said
<1>2. ASSUME Spoken(m, p) PROVE listen'.window = <<>> /\ listen'.open = listen.open /\ Passes(<<Arrived>>)
  <2>1. /\ Passes(<<Arrived>>) /\ (listen.open \/ ListenPower = 0)
        /\ listen' = listen \/ listen' = [listen EXCEPT !.quiet = QuietNext(p)]
    BY <1>2 DEF Spoken
  <2>2. listen \in ListenGates
    BY DEF GatesOK, ListenHolds
  <2>3. listen'.window = listen.window /\ listen'.open = listen.open
    <3> DEFINE q == QuietNext(p)
    <3>1. listen' = listen \/ listen' = [listen EXCEPT !.quiet = q]
      BY <2>1
    <3> HIDE DEF q
    <3> QED BY <2>2, <3>1 DEF ListenGates
  <2> QED BY <2>1, <2>3, ArrivedIs
<1> DEFINE l == ListenNext(Arrived, p)
<1>3. ASSUME Gathers(m, p) \/ SpeaksUp(m, p)
      PROVE  ListenHolds(captured', l) /\ l.open = FALSE /\ l.window = SpeechWindow
  <2>1. ~listen.open /\ ListenPower > 0 /\ m.power = p /\ m.kind = "listening"
    BY <1>3 DEF Said, Gathers, SpeaksUp
  <2> QED BY <2>1, ListenNextHolds DEF SpeechWindow
<1> HIDE DEF l
<1>4. Gathers(m, p) => listen'.window = SpeechWindow /\ listen'.open = FALSE /\ Passes(<<Silence>>)
                       /\ ~ListenQualifies(listen')
  BY <1>3 DEF Gathers, l
<1>5. ASSUME SpeaksUp(m, p)
      PROVE  /\ listen'.window = <<>> /\ listen'.open = TRUE /\ Passes(SpeechWindow)
             /\ \A f \in Range(SpeechWindow) : captured'[f].kind = "listening"
  <2>1. listen' = ListenOpened(l) /\ Passes(l.window)
    BY <1>5 DEF SpeaksUp, l
  <2>2. captured' \in Seq(Met)
    BY FrameLater DEF GatesOK
  <2>3. listen'.window = <<>> /\ listen'.open = TRUE
    BY <1>3, <1>5, <2>1, <2>2, ListenOpens
  <2>4. \A f \in Range(l.window) : captured'[f].kind = "listening"
    BY <1>3, <1>5 DEF ListenHolds
  <2> QED BY <1>3, <1>5, <2>1, <2>3, <2>4
<1>6. FallsSilent(m, p) => listen'.window = <<>> /\ listen'.open = FALSE /\ Passes(<<Silence>>)
  BY DEF FallsSilent, ListenReset
<1> QED BY <1>1, <1>2, <1>4, <1>5, <1>6

\* Of every arrival: silence is queued, nothing is, or the windows are let out.
LEMMA ComesOut ==
  ASSUME Control, GatesOK, NEW p \in Powers, NEW m \in Met, captured' = Append(captured, m), Comes(m, p)
  PROVE  \/ Blanks
         \/ queue' = queue /\ passed' = passed /\ Held' \subseteq Held
         \/ \E fs : LetsOut(fs)
<1>1. Range(BargeMet.window) \subseteq Range(barge.window)
  BY BargeMetHeld
<1>2. /\ EchoWindow \in Seq(Nat) /\ Rising(EchoWindow)
      /\ Range(EchoWindow) \subseteq Held \cup {Arrived}
      /\ SpeechWindow \in Seq(Nat) /\ Rising(SpeechWindow)
      /\ Range(SpeechWindow) \subseteq Held \cup {Arrived}
  BY <1>1, WindowsWith DEF Held
<1>3. Range(<<>>) = {}
  BY NoWindow
<1>4. Held' = Range(barge'.window) \cup Range(listen'.window)
  BY DEF Held
<1>5. <<Arrived>> \in Seq(Nat) /\ Rising(<<Arrived>>) /\ Range(<<Arrived>>) = {Arrived}
  <2>1. \A i \in DOMAIN <<Arrived>> : i = 1
    OBVIOUS
  <2> QED BY <2>1, ArrivedIs DEF Rising, Range
<1>6. CASE Ignored(m)
  <2>1. /\ barge' = BargeMet /\ (listen' = listen \/ listen' = ListenReset)
        /\ Passes(<<Silence>>) \/ (queue' = queue /\ passed' = passed)
    BY <1>6 DEF Ignored
  <2>2. ListenReset.window = <<>>
    BY DEF ListenReset
  <2>3. Held' \subseteq Held
    BY <1>1, <1>3, <1>4, <2>1, <2>2 DEF Held
  <2> QED BY <2>1, <2>3 DEF Blanks
<1>7. CASE Echoes(m, p) \/ Gathers(m, p) \/ FallsSilent(m, p)
  <2>1. Gathers(m, p) \/ FallsSilent(m, p) => Said(m, p)
    BY DEF Gathers, FallsSilent
  <2>2. Passes(<<Silence>>) /\ (barge'.window = EchoWindow \/ barge'.window = <<>>)
        /\ (listen'.window = SpeechWindow \/ listen'.window = <<>>)
    BY <1>7, <2>1, OverWindows, SaidWindows
  <2> QED BY <1>2, <1>3, <1>4, <2>2 DEF Blanks
<1>8. CASE BargesIn(m, p) \/ GoesOn(m, p) \/ Spoken(m, p) \/ SpeaksUp(m, p)
  <2>1. Spoken(m, p) \/ SpeaksUp(m, p) => Said(m, p)
    BY DEF Spoken, SpeaksUp
  <2>2. barge'.window = <<>> /\ listen'.window = <<>>
        /\ (Passes(EchoWindow) \/ Passes(SpeechWindow) \/ Passes(<<Arrived>>))
    BY <1>8, <2>1, OverWindows, SaidWindows
  <2>3. Held' = {}
    BY <1>3, <1>4, <2>2
  <2>4. LetsOut(EchoWindow) \/ LetsOut(SpeechWindow) \/ LetsOut(<<Arrived>>)
    BY <1>2, <1>5, <2>2, <2>3 DEF LetsOut
  <2> QED BY <2>4
<1> QED BY <1>6, <1>7, <1>8 DEF Comes

-----------------------------------------------------------------------------
\* What is queued and what has been sent, against all that was let through.
QueueOK ==
  /\ queue \in Seq(Nat) /\ Len(queue) <= QueueLimit /\ Range(queue) \subseteq passed \cup {Silence}
  /\ passed \subseteq 1 .. Len(captured) /\ sent \in passed \cup {Silence}
  /\ Ordered(queue) /\ \A f \in Range(queue) \ {Silence} : sent < f
  /\ \A f \in passed, g \in Held : f < g
  /\ \A f \in passed, g \in Range(queue) \ {Silence} : g < f => f \in Range(queue)
  /\ waiting => queue = <<>>

\* A quiet step takes the oldest frame, sends the one taken, or empties the queue.
LEMMA QuietQueue ==
  ASSUME Quiet
  PROVE  /\ \/ queue' = queue /\ sent' = sent
            \/ queue' = <<>> /\ sent' = sent
            \/ queue # <<>> /\ queue' = Tail(queue) /\ sent' = sent
            \/ /\ queue # <<>> /\ queue' = Tail(queue)
               /\ sent' = Head(queue) /\ sent' # Silence /\ ready /\ unsung' = unsung
         /\ waiting' => waiting \/ queue' = <<>>
<1> DEFINE Same == queue' = queue /\ sent' = sent /\ waiting' = waiting
           Empties == queue' = <<>> /\ sent' = sent
<1>1. CASE SenderTakes
  <2>1. queue # <<>> /\ queue' = Tail(queue) /\ waiting' = waiting /\ unsung' = unsung
        /\ (sent' = sent \/ (sent' = Head(queue) /\ sent' # Silence /\ ready))
    BY <1>1, Zenon DEF SenderTakes
  <2> QED BY <2>1
<1>2. ASSUME NEW asked, EnterReadyWait(asked), sent' = sent PROVE Same \/ Empties
  BY <1>2, Zenon DEF EnterReadyWait
<1>3. ASSUME NEW x, AfterCompletion(x) PROVE Same \/ Empties
  BY <1>2, <1>3, Zenon DEF AfterCompletion
<1>4. ASSUME AfterResponse \/ VoiceWaitForReady PROVE Same \/ Empties
  BY <1>2, <1>4, Zenon DEF AfterResponse, VoiceWaitForReady
<1>5. ASSUME TailEnds \/ SenderSent \/ CloudResponds \/ AudioStarts \/ AudioDone \/ ResponseDone \/ WarmUpPlayed PROVE Same \/ Empties
  BY <1>5, Zenon DEF TailEnds, SenderSent, CloudResponds, AudioStarts, AudioDone, ResponseDone, WarmUpPlayed
<1>6. ASSUME NEW x, CompletePlayback(x) \/ VoiceSetBargeIn(x) PROVE Same
  BY <1>6, Zenon DEF CompletePlayback, VoiceSetBargeIn
<1>8. ASSUME Voice PROVE Same \/ Empties
  BY <1>8, Zenon DEF Voice, SpeechIgnored, SpeechInterrupts, Interrupted, SpeechStopped
<1>9. ASSUME RequestStart \/ ConnectFails \/ AnnounceProject \/ SwitchCleared \/ Reconnected \/ StopEnds PROVE Same \/ Empties
  BY <1>9, Zenon DEF RequestStart, ConnectFails, AnnounceProject, SwitchCleared, Reconnected, StopEnds,
     StopInputSender
<1>10. ASSUME StartBegins \/ ReconnectFails PROVE Same \/ Empties
  BY <1>10, Zenon DEF StartBegins, ReconnectFails
<1>11. CASE ReadyDetected \/ SwitchBegins \/ StopBegins
  <2>1. queue' = queue /\ sent' = sent /\ waiting' = FALSE
    BY <1>11, Zenon DEF ReadyDetected, SwitchBegins, StopBegins
  <2> QED BY <2>1
<1>12. CASE Connected
  <2>1. (queue' = <<>> \/ queue' = queue) /\ sent' = sent /\ waiting' = waiting
    BY <1>12, Zenon DEF Connected
  <2> QED BY <2>1
<1>13. ASSUME Same \/ Empties
       PROVE  /\ \/ queue' = queue /\ sent' = sent
                 \/ queue' = <<>> /\ sent' = sent
              /\ waiting' => waiting \/ queue' = <<>>
  BY <1>13
<1> HIDE DEF Same, Empties
<1>14. CASE ~SenderTakes /\ ~Connected /\ ~ReadyDetected /\ ~SwitchBegins /\ ~StopBegins
  <2>1. Same \/ Empties
    BY <1>3, <1>4, <1>5, <1>6, <1>8, <1>9, <1>10, <1>14, Zenon
       DEF Quiet, Sender, Playback, Tools, Session, Same, Empties
  <2> QED BY <1>13, <2>1
<1> QED BY <1>1, <1>11, <1>12, <1>14

\* The oldest of a queue in order comes before the rest.
LEMMA HeadFirst ==
  ASSUME NEW w \in Seq(Nat), w # <<>>, Ordered(w)
  PROVE  Head(w) \in Range(w) /\ \A f \in Range(Tail(w)) \ {Silence} : Head(w) < f
<1>1. /\ Tail(w) \in Seq(Nat) /\ Len(Tail(w)) = Len(w) - 1 /\ Len(w) \in Nat /\ Len(w) > 0 /\ Head(w) = w[1]
      /\ \A i \in 1 .. Len(w) - 1 : Tail(w)[i] = w[i + 1]
  OBVIOUS
<1>2. Range(Tail(w)) = {Tail(w)[i] : i \in 1 .. Len(w) - 1} /\ Range(w) = {w[i] : i \in 1 .. Len(w)}
  BY <1>1, SeqRange
<1>3. ASSUME NEW f \in Range(Tail(w)) \ {Silence} PROVE Head(w) < f
  <2>1. PICK i \in 1 .. Len(w) - 1 : f = Tail(w)[i]
    BY <1>2
  <2>2. i + 1 \in DOMAIN w /\ 1 \in DOMAIN w /\ 1 < i + 1 /\ f = w[i + 1]
    BY <1>1, <2>1
  <2> QED BY <1>1, <2>2 DEF Ordered
<1>4. Head(w) \in Range(w)
  BY <1>1, <1>2
<1> QED BY <1>3, <1>4

\* The queue stays right in a quiet step, when a frame arrives, and so in every step.
LEMMA QueueQuiet ==
  ASSUME Control, GatesOK, QueueOK, Quiet
  PROVE  QueueOK'
<1>1. /\ captured' = captured /\ passed' = passed
      /\ barge' = barge \/ barge' = BargeReset
      /\ listen' = listen \/ listen' = ListenReset \/ listen' = ListenOpened(ListenReset)
  BY QuietGates
<1>2. Held' \subseteq Held
  <2>1. Held' = Range(barge'.window) \cup Range(listen'.window)
    BY DEF Held
  <2>2. barge'.window = barge.window \/ barge'.window = <<>>
    BY <1>1 DEF BargeReset
  <2>3. ListenReset.window = <<>> /\ ListenOpened(ListenReset).window = <<>>
    BY DEF ListenReset, ListenOpened
  <2>4. listen'.window = listen.window \/ listen'.window = <<>>
    BY <1>1, <2>3
  <2> QED BY <2>1, <2>2, <2>4, NoWindow DEF Held
<1>3. /\ queue \in Seq(Nat) /\ Len(queue) <= QueueLimit /\ Range(queue) \subseteq passed \cup {Silence}
      /\ passed \subseteq 1 .. Len(captured) /\ Ordered(queue)
  BY DEF QueueOK
<1>4. EndOf(queue', queue)
  <2>1. queue' = queue \/ queue' = <<>> \/ (queue # <<>> /\ queue' = Tail(queue))
    BY QuietQueue
  <2>2. EndOf(queue, queue) /\ EndOf(<<>>, queue) /\ (queue # <<>> => EndOf(Tail(queue), queue))
    BY <1>3, EndIsItself, TailIsEnd
  <2> QED BY <2>1, <2>2, Zenon
<1>5. /\ queue' \in Seq(Nat) /\ Len(queue') <= Len(queue) /\ Range(queue') \subseteq Range(queue) /\ Ordered(queue')
      /\ \A f \in Range(queue) \ {Silence}, g \in Range(queue') \ {Silence} : g < f => f \in Range(queue')
  BY <1>3, <1>4, EndKeeps
<1>6. Len(queue') <= QueueLimit
  BY <1>3, <1>5, Limits
<1>7. \A f \in passed, g \in Range(queue') \ {Silence} : g < f => f \in Range(queue')
  <2> TAKE f \in passed, g \in Range(queue') \ {Silence}
  <2>1. f # Silence
    BY <1>3 DEF Silence
  <2>2. g < f => f \in Range(queue)
    BY <1>5 DEF QueueOK
  <2> QED BY <1>5, <2>1, <2>2
<1>8. sent' \in passed \cup {Silence} /\ \A f \in Range(queue') \ {Silence} : sent' < f
  <2>1. CASE sent' = sent
    BY <1>5, <2>1 DEF QueueOK
  <2>2. CASE sent' # sent
    <3>1. queue # <<>> /\ queue' = Tail(queue) /\ sent' = Head(queue)
      BY <2>2, QuietQueue
    <3> QED BY <1>3, <3>1, HeadFirst
  <2> QED BY <2>1, <2>2
<1>9. waiting' => queue' = <<>>
  <2>1. CASE waiting
    <3>1. queue = <<>>
      BY <2>1 DEF QueueOK
    <3> QED BY <3>1, QuietQueue
  <2>2. CASE ~waiting
    BY <2>2, QuietQueue
  <2> QED BY <2>1, <2>2
<1>10. \A f \in passed', g \in Held' : f < g
  BY <1>1, <1>2 DEF QueueOK
<1> QED BY <1>1, <1>3, <1>5, <1>6, <1>7, <1>8, <1>9, <1>10 DEF QueueOK

\* What is put on the queue comes after all that was.
LEMMA QueuePasses ==
  ASSUME QueueOK, NEW fs \in Seq(Nat), NEW n \in Nat, Passes(fs),
         fs = <<Silence>> \/ (Rising(fs) /\ Range(fs) \subseteq 1 .. n /\ \A f \in passed, g \in Range(fs) : f < g)
  PROVE  /\ queue' \in Seq(Nat) /\ Len(queue') <= QueueLimit /\ Range(queue') \subseteq passed' \cup {Silence}
         /\ passed' \subseteq passed \cup Range(fs) /\ passed \subseteq passed' /\ Silence \notin passed'
         /\ Ordered(queue') /\ \A f \in Range(queue') \ {Silence} : sent < f
         /\ \A f \in passed', g \in Range(queue') \ {Silence} : g < f => f \in Range(queue')
<1>1. /\ queue \in Seq(Nat) /\ Len(queue) <= QueueLimit /\ Range(queue) \subseteq passed \cup {Silence}
      /\ passed \subseteq 1 .. Len(captured) /\ sent \in passed \cup {Silence} /\ Ordered(queue)
      /\ \A f \in Range(queue) \ {Silence} : sent < f
      /\ \A f \in passed, g \in Range(queue) \ {Silence} : g < f => f \in Range(queue)
      /\ Silence \notin passed
  BY DEF QueueOK, Silence
<1>2. CASE ~accepting
  <2>1. queue' = queue /\ passed' = passed
    BY <1>2 DEF Passes
  <2> QED BY <1>1, <2>1
<1>3. CASE accepting
  <2> DEFINE w == queue \o fs
  <2>1. queue' = Newest(w, QueueLimit) /\ passed' = passed \cup (Range(fs) \ {Silence})
    BY <1>3 DEF Passes
  <2>2. fs = <<Silence>> => Range(fs) = {Silence}
    BY DEF Range
  <2>3. \A f \in Range(fs) \ {Silence}, g \in passed : g < f
    BY <2>2
  <2>4. w \in Seq(Nat) /\ Range(w) = Range(queue) \cup Range(fs)
    BY <1>1, Joined
  <2>5. Ordered(w)
    <3>1. Ordered(fs)
      BY SilenceOrdered, RisingOrdered
    <3>2. \A f \in Range(queue), g \in Range(fs) \ {Silence} : f < g
      <4> TAKE f \in Range(queue), g \in Range(fs) \ {Silence}
      <4>1. f \in passed => f < g
        BY <2>3
      <4>2. g \in Nat /\ g # 0
        BY SeqRange DEF Silence
      <4> QED BY <1>1, <4>1, <4>2 DEF Silence
    <3> QED BY <1>1, <3>1, <3>2, Joined
  <2> HIDE DEF w
  <2>6. EndOf(queue', w) /\ Len(queue') <= QueueLimit
    BY <2>1, <2>4, NewestIsEnd, Limits
  <2>7. /\ queue' \in Seq(Nat) /\ Range(queue') \subseteq Range(w) /\ Ordered(queue')
        /\ \A f \in Range(w) \ {Silence}, g \in Range(queue') \ {Silence} : g < f => f \in Range(queue')
    BY <2>4, <2>5, <2>6, EndKeeps
  <2>8. Range(queue') \subseteq passed' \cup {Silence}
    BY <1>1, <2>1, <2>4, <2>7
  <2>9. \A f \in passed', g \in Range(queue') \ {Silence} : g < f => f \in Range(queue')
    <3> TAKE f \in passed', g \in Range(queue') \ {Silence}
    <3> HAVE g < f
    <3>1. f # Silence
      BY <1>1, <2>1
    <3>2. CASE f \in Range(fs)
      BY <2>4, <2>7, <3>1, <3>2
    <3>3. CASE f \in passed
      <4>1. f \in Nat /\ g \in Nat
        BY <1>1, <2>4, <2>7, <3>3, SeqRange
      <4>2. g \in Range(queue)
        <5>1. g \in Range(queue) \/ g \in Range(fs)
          BY <2>4, <2>7
        <5>2. g \in Range(fs) => f < g
          BY <2>3, <3>3
        <5> QED BY <4>1, <5>1, <5>2
      <4>3. f \in Range(queue)
        BY <1>1, <3>3, <4>2
      <4> QED BY <2>4, <2>7, <3>1, <4>3
    <3> QED BY <2>1, <3>2, <3>3
  <2>10. \A f \in Range(queue') \ {Silence} : sent < f
    <3> TAKE f \in Range(queue') \ {Silence}
    <3>1. CASE f \in Range(queue)
      BY <1>1, <3>1
    <3>2. CASE f \in Range(fs)
      <4>1. f \in Nat \ {0}
        BY <3>2, SeqRange DEF Silence
      <4>2. sent \in passed => sent < f
        BY <2>3, <3>2
      <4> QED BY <1>1, <4>1, <4>2 DEF Silence
    <3> QED BY <2>4, <2>7, <3>1, <3>2
  <2> QED BY <1>1, <2>1, <2>6, <2>7, <2>8, <2>9, <2>10
<1> QED BY <1>2, <1>3

LEMMA QueueReceive ==
  ASSUME Control, GatesOK, QueueOK, NEW p \in Powers, Receive(p)
  PROVE  QueueOK'
<1>1. PICK m \in Met : captured' = Append(captured, m) /\ Len(captured) < MaxFrames /\ Comes(m, p)
  BY ReceiveArrives
<1>2. sent' = sent /\ waiting' = waiting /\ accepting' = accepting
  BY ReceiveLeaves
<1>3. Len(captured) \in Nat /\ Arrived = Len(captured) + 1 /\ Held \subseteq 1 .. Len(captured)
      /\ Len(captured') = Arrived
  BY <1>1, ArrivedIs, FrameLater DEF GatesOK
<1>4. passed \subseteq 1 .. Len(captured) /\ \A f \in passed, g \in Held : f < g
  BY DEF QueueOK
<1>5. \A f \in passed, g \in Held \cup {Arrived} : f < g
  BY <1>3, <1>4
<1>6. waiting' => queue' = <<>>
  <2> SUFFICES ASSUME waiting PROVE queue' = <<>>
    BY <1>2
  <2>1. ~accepting /\ queue = <<>>
    BY DEF Control, PhasesOK, QueueOK
  <2>2. queue' = queue
    BY <1>1, <2>1, ComesOut DEF Blanks, LetsOut, Passes
  <2> QED BY <2>1, <2>2
<1>7. CASE queue' = queue /\ passed' = passed /\ Held' \subseteq Held
  <2>1. passed' \subseteq 1 .. Len(captured')
    BY <1>3, <1>4, <1>7
  <2>2. \A f \in passed', g \in Held' : f < g
    BY <1>4, <1>7
  <2> QED BY <1>2, <1>6, <1>7, <2>1, <2>2 DEF QueueOK
<1>8. CASE Blanks
  <2>1. <<Silence>> \in Seq(Nat) /\ Range(<<Silence>>) = {Silence} /\ Passes(<<Silence>>)
    BY <1>8 DEF Silence, Range, Blanks
  <2>2. /\ queue' \in Seq(Nat) /\ Len(queue') <= QueueLimit /\ Range(queue') \subseteq passed' \cup {Silence}
        /\ passed' \subseteq passed \cup {Silence} /\ passed \subseteq passed' /\ Silence \notin passed'
        /\ Ordered(queue') /\ \A f \in Range(queue') \ {Silence} : sent < f
        /\ \A f \in passed', g \in Range(queue') \ {Silence} : g < f => f \in Range(queue')
    BY <1>3, <2>1, QueuePasses
  <2>3. passed' = passed
    BY <2>2
  <2>4. passed' \subseteq 1 .. Len(captured')
    BY <1>3, <1>4, <2>3
  <2>5. \A f \in passed', g \in Held' : f < g
    BY <1>5, <1>8, <2>3 DEF Blanks
  <2>6. sent' \in passed' \cup {Silence}
    BY <1>2, <2>3 DEF QueueOK
  <2> QED BY <1>2, <1>6, <2>2, <2>4, <2>5, <2>6 DEF QueueOK
<1>9. ASSUME NEW fs, LetsOut(fs) PROVE QueueOK'
  <2>1. /\ Passes(fs) /\ fs \in Seq(Nat) /\ Rising(fs) /\ Range(fs) \subseteq Held \cup {Arrived} /\ Held' = {}
    BY <1>9 DEF LetsOut
  <2>2. Arrived \in Nat /\ Range(fs) \subseteq 1 .. Arrived /\ \A f \in passed, g \in Range(fs) : f < g
    <3>1. Arrived \in 1 .. Arrived /\ Held \subseteq 1 .. Arrived
      BY <1>3
    <3>2. Range(fs) \subseteq 1 .. Arrived
      BY <2>1, <3>1
    <3>3. \A f \in passed, g \in Range(fs) : f < g
      BY <1>5, <2>1
    <3> QED BY <1>3, <3>2, <3>3
  <2>3. /\ queue' \in Seq(Nat) /\ Len(queue') <= QueueLimit /\ Range(queue') \subseteq passed' \cup {Silence}
        /\ passed' \subseteq passed \cup Range(fs) /\ passed \subseteq passed' /\ Silence \notin passed'
        /\ Ordered(queue') /\ \A f \in Range(queue') \ {Silence} : sent < f
        /\ \A f \in passed', g \in Range(queue') \ {Silence} : g < f => f \in Range(queue')
    BY <2>1, <2>2, QueuePasses
  <2>4. passed' \subseteq 1 .. Len(captured')
    BY <1>3, <1>4, <2>2, <2>3
  <2>5. sent' \in passed' \cup {Silence}
    BY <1>2, <2>3 DEF QueueOK
  <2>6. \A f \in passed', g \in Held' : f < g
    BY <2>1
  <2> QED BY <1>2, <1>6, <2>3, <2>4, <2>5, <2>6 DEF QueueOK
<1> QED BY <1>1, <1>7, <1>8, <1>9, ComesOut

LEMMA QueueStep ==
  ASSUME Control, GatesOK, QueueOK, [Next]_vars
  PROVE  QueueOK'
<1>1. CASE UNCHANGED vars
  <2>1. UNCHANGED <<captured, passed, queue, sent, barge, listen, waiting>>
    BY <1>1, Zenon DEF vars
  <2> QED BY <2>1 DEF QueueOK, Held
<1> QED BY <1>1, QueueQuiet, QueueReceive, NextIs

LEMMA QueueStarts == ASSUME Init PROVE QueueOK
<1>1. /\ captured = <<>> /\ passed = {} /\ queue = <<>> /\ sent = Silence
      /\ barge = BargeReset /\ listen = ListenReset
  BY DEF Init
<1>2. Ordered(<<>>) /\ Len(<<>>) <= QueueLimit /\ <<>> \in Seq(Nat) /\ Range(<<>>) = {}
  BY NoWindow, Limits DEF Ordered
<1> QED BY <1>1, <1>2 DEF QueueOK

LEMMA QueueAlways == Spec => []QueueOK
  BY ControlAlways, GatesAlways, QueueStarts, QueueStep, PTL DEF Spec

\* Every variable keeps its type, and what is bounded its bound: the queue its limit, the
\* windows their length.
THEOREM MicrophoneTypeCorrect == Spec => []MicrophoneTypeOK
<1>1. ASSUME Control, GatesOK, QueueOK PROVE MicrophoneTypeOK
  <2>1. captured \in Seq(Met) /\ Len(captured) <= MaxFrames /\ DOMAIN captured = 1 .. Len(captured)
    BY <1>1 DEF GatesOK
  <2>2. \A f \in DOMAIN captured : Power(f) \in Powers \cup {0} /\ captured[f].kind \in Kinds
    <3> TAKE f \in DOMAIN captured
    <3>1. captured[f] \in Met
      BY <2>1
    <3> QED BY <3>1 DEF Met, Power
  <2>3. /\ passed \subseteq DOMAIN captured /\ sent \in passed \cup {Silence}
        /\ queue \in Seq(passed \cup {Silence}) /\ Len(queue) <= QueueLimit
    <3>1. queue \in Seq(Nat) /\ Range(queue) \subseteq passed \cup {Silence}
      BY <1>1 DEF QueueOK
    <3>2. \A i \in 1 .. Len(queue) : queue[i] \in passed \cup {Silence}
      BY <3>1, SeqRange
    <3>3. queue \in Seq(passed \cup {Silence})
      BY <3>1, <3>2
    <3> QED BY <1>1, <2>1, <3>3 DEF QueueOK
  <2>4. /\ barge.stream \in 0 .. MaxStreams /\ Range(barge.window) \subseteq DOMAIN captured
        /\ barge.open \in BOOLEAN /\ Len(barge.window) <= BargeWindow
    <3>1. barge \in BargeGates /\ barge.stream <= streams /\ streams <= MaxStreams /\ streams \in Nat
          /\ Range(barge.window) \subseteq 1 .. Len(captured) /\ Len(barge.window) <= BargeWindow
      BY <1>1 DEF GatesOK, BargeHolds, Control, OutputOK
    <3> QED BY <2>1, <3>1, Limits DEF BargeGates
  <2>5. /\ listen.open \in BOOLEAN /\ listen.quiet \in 0 .. ListenRelease
        /\ Range(listen.window) \subseteq DOMAIN captured /\ Len(listen.window) <= ListenWindow
    <3>1. listen \in ListenGates
          /\ Range(listen.window) \subseteq 1 .. Len(captured) /\ Len(listen.window) <= ListenWindow
      BY <1>1 DEF GatesOK, ListenHolds
    <3> QED BY <2>1, <3>1 DEF ListenGates
  <2>6. /\ {unsung, guard, tail, bargeIn, accepting, ready, waitAsked, waiting} \subseteq BOOLEAN
    BY <1>1 DEF Control, FlagsOK
  <2>7. output.stream \in {NoStream, streams} /\ {output.warm, output.ended} \subseteq BOOLEAN
    BY <1>1 DEF Control, OutputOK
  <2>8. session \in 0 .. MaxSessions /\ streams \in 0 .. MaxStreams /\ turn \in 0 .. MaxTurns + 1
    BY <1>1, Limits DEF Control, OutputOK, CountsOK
  <2> QED BY <1>1, <2>1, <2>2, <2>3, <2>4, <2>5, <2>6, <2>7, <2>8 DEF MicrophoneTypeOK, Control, TasksOK
<1> QED BY <1>1, ControlAlways, GatesAlways, QueueAlways, PTL

\* The cloud hears what was said in the order it was said: frames held back in a window and
\* let out later (receive_audio) never come after a newer one, and a full queue loses its
\* oldest first.
THEOREM InputAlwaysInOrder == Spec => []InputInOrder
<1>1. ASSUME Control, GatesOK, QueueOK PROVE InputInOrder
  <2>1. /\ queue \in Seq(Nat) /\ Range(queue) \subseteq passed \cup {Silence} /\ Ordered(queue)
        /\ passed \subseteq 1 .. Len(captured) /\ sent \in passed \cup {Silence} /\ sent \in Nat
        /\ \A f \in Range(queue) \ {Silence} : sent < f
        /\ \A f \in passed, g \in Held : f < g
    BY <1>1 DEF QueueOK, Silence
  <2>2. ASSUME NEW w \in {barge.window, listen.window}
        PROVE  Ordered(<<sent>> \o queue \o w)
    <3>1. w \in Seq(Nat) /\ Rising(w) /\ Range(w) \subseteq Held
      <4>1. barge.window \in Seq(Nat) /\ Rising(barge.window)
        BY <1>1, ConsecutiveRises DEF GatesOK, BargeHolds, BargeGates
      <4> QED BY <1>1, <4>1, ArrivedIs DEF Held
    <3>2. <<sent>> \in Seq(Nat) /\ Range(<<sent>>) = {sent} /\ Ordered(<<sent>>)
      <4>1. \A i \in DOMAIN <<sent>> : i = 1
        OBVIOUS
      <4> QED BY <2>1, <4>1 DEF Ordered, Range
    <3> DEFINE q == <<sent>> \o queue
    <3>3. q \in Seq(Nat) /\ Range(q) = {sent} \cup Range(queue) /\ Ordered(q)
      BY <2>1, <3>2, Joined
    <3> HIDE DEF q
    <3>4. \A f \in Range(q), g \in Range(w) \ {Silence} : f < g
      <4> TAKE f \in Range(q), g \in Range(w) \ {Silence}
      <4>1. g \in Nat /\ g # 0
        BY <3>1, SeqRange DEF Silence
      <4>2. f \in passed \/ f = 0
        BY <2>1, <3>3 DEF Silence
      <4>3. f \in passed => f < g
        BY <2>1, <3>1
      <4> QED BY <4>1, <4>2, <4>3
    <3>5. Ordered(q \o w)
      BY <3>1, <3>3, <3>4, Joined, RisingOrdered
    <3> QED BY <3>5 DEF q
  <2>3. \A f \in passed, g \in Range(queue) \ {Silence} : g < f => f \in Range(queue)
    BY <1>1 DEF QueueOK
  <2> QED BY <2>2, <2>3, Zenon DEF InputInOrder, Ordered
<1> QED BY <1>1, ControlAlways, GatesAlways, QueueAlways, PTL

\* While the ready word is awaited nothing is queued for the cloud, though the wait begins in
\* another task than the one receive_audio runs in.
THEOREM WaitAlwaysPrivate == Spec => []WaitIsPrivate
<1>1. ASSUME Control, QueueOK PROVE WaitIsPrivate
  BY <1>1, NoWindow DEF Control, PhasesOK, QueueOK, WaitIsPrivate
<1> QED BY <1>1, ControlAlways, QueueAlways, PTL

-----------------------------------------------------------------------------
\* The session that what is captured now is for.
Due == IF phase \in {"off", "asked", "connecting"} THEN session + 1 ELSE session

\* Frames captured for that session.
ForDue(S) == \A f \in S : captured[f].at.session = Due

\* What is queued or held is for that session, or is kept back until it is cleared.
SessionOK ==
  /\ ~unsung => ForDue(Range(queue) \ {Silence})
  /\ Playing /\ barge.stream = output.stream => ForDue(Range(barge.window))
  /\ ~unsung => guard \/ ForDue(Range(listen.window))
  /\ phase = "connecting" => ForDue(Range(listen.window))
  /\ phase = "stopping" => listen.window = <<>>

\* Only where a session ends or begins does the next frame become another's, and then nothing
\* of the old one is left, or is kept back.
LEMMA DueQuiet ==
  ASSUME Control, Quiet
  PROVE  /\ \/ Due' = Due
            \/ ~Playing' /\ phase' # "connecting" /\ phase' # "stopping"
               /\ (unsung' \/ (queue' = <<>> /\ guard') \/ (queue' = <<>> /\ phase = "stopping" /\ listen' = listen))
         /\ unsung => unsung'
         /\ guard /\ ~guard' => unsung' \/ listen' = ListenReset \/ phase = "connecting"
         /\ phase' = "connecting" => phase = "connecting" \/ listen' = ListenReset
         /\ phase' = "stopping" => phase = "stopping" \/ listen' = ListenReset
<1> DEFINE Holds == /\ Due' = Due /\ (unsung => unsung') /\ (guard /\ ~guard' => unsung' \/ listen' = ListenReset)
                    /\ phase' = phase
<1>0. FlagsOK /\ PhasesOK
  BY DEF Control
<1>1. ASSUME phase' = phase, session' = session PROVE Due' = Due
  BY <1>1 DEF Due
<1>2. ASSUME TailEnds \/ Sender \/ CloudResponds \/ AudioStarts \/ AudioDone \/ WarmUpPlayed \/ AfterResponse
      PROVE  Holds
  <2>1. UNCHANGED <<phase, session, unsung, guard>>
    BY <1>2, Zenon DEF TailEnds, Sender, SenderTakes, SenderSent, CloudResponds, AudioStarts, AudioDone,
       WarmUpPlayed, AfterResponse
  <2> QED BY <1>1, <2>1
<1>3. ASSUME ResponseDone PROVE Holds
  <2>1. UNCHANGED <<phase, session>> /\ guard' = (guard /\ Playing) /\ unsung' = (unsung \/ (guard /\ ~Playing))
    BY <1>3, Zenon DEF ResponseDone, GuardAfterResponse
  <2> QED BY <1>0, <1>1, <2>1 DEF FlagsOK
<1>4. ASSUME NEW x, CompletePlayback(x) PROVE Holds
  <2>1. UNCHANGED <<phase, session, unsung>> /\ listen' = ListenReset
    BY <1>4, Zenon DEF CompletePlayback, GatesReset
  <2> QED BY <1>1, <2>1
<1>5. ASSUME NEW x, AfterCompletion(x) \/ VoiceSetBargeIn(x) PROVE Holds
  <2>1. UNCHANGED <<phase, session, unsung, guard>>
    BY <1>5, Zenon DEF AfterCompletion, VoiceSetBargeIn
  <2> QED BY <1>1, <2>1
<1>6. ASSUME VoiceWaitForReady \/ ReadyDetected \/ Voice PROVE Holds
  <2>1. UNCHANGED <<phase, session, unsung, guard>>
    BY <1>6, Zenon DEF VoiceWaitForReady, ReadyDetected, Voice, SpeechIgnored, SpeechInterrupts,
       Interrupted, SpeechStopped
  <2> QED BY <1>1, <2>1
<1>7. CASE Holds
  BY <1>7
<1>8. CASE RequestStart \/ ConnectFails
  <2>1. UNCHANGED <<session, unsung, guard>> /\ phase \in {"off", "connecting"} /\ phase' \in {"asked", "off"}
    BY <1>8, Zenon DEF RequestStart, ConnectFails
  <2>2. Due' = Due
    BY <2>1 DEF Due
  <2> QED BY <2>1, <2>2
<1>9. CASE StartBegins
  <2>1. UNCHANGED <<session, unsung, guard>> /\ phase = "asked" /\ phase' = "connecting" /\ listen' = ListenReset
    BY <1>9, Zenon DEF StartBegins, GatesReset
  <2>2. Due' = Due
    BY <2>1 DEF Due
  <2> QED BY <2>1, <2>2
<1>10. CASE Connected
  <2>1. session' = session + 1 /\ unsung' = unsung /\ phase = "connecting" /\ phase' \in {"greeting", "on"}
    BY <1>10, Zenon DEF Connected
  <2>2. Due' = Due
    BY <2>1 DEF Due
  <2> QED BY <2>1, <2>2
<1>11. CASE AnnounceProject
  <2>1. /\ session' = session /\ phase = "greeting" /\ phase' = "on"
        /\ (guard' = TRUE /\ unsung' = unsung) \/ unsung' = TRUE
    BY <1>11, Zenon DEF AnnounceProject
  <2>2. Due' = Due
    BY <2>1 DEF Due
  <2> QED BY <2>1, <2>2
<1>12. CASE SwitchBegins \/ SwitchCleared
  <2>1. /\ UNCHANGED <<session, unsung, guard>> /\ phase \in {"on", "clearing"}
        /\ phase' \in {"clearing", "reconnecting"}
    BY <1>12, Zenon DEF SwitchBegins, SwitchCleared, ToolCall, ReaderFree
  <2>2. Due' = Due
    BY <2>1 DEF Due
  <2> QED BY <2>1, <2>2
<1>13. CASE StopBegins
  <2>1. UNCHANGED <<session, unsung, guard>> /\ phase = "on" /\ phase' = "stopping" /\ listen' = ListenReset
    BY <1>13, Zenon DEF StopBegins, GatesReset
  <2>2. Due' = Due
    BY <2>1 DEF Due
  <2> QED BY <2>1, <2>2
<1>14. CASE Reconnected
  <2>1. /\ unsung' = unsung /\ guard' = TRUE /\ queue' = <<>> /\ output' = output
        /\ phase = "reconnecting" /\ phase' = "greeting"
    BY <1>14, Zenon DEF Reconnected
  <2>2. ~Playing'
    BY <1>0, <2>1 DEF PhasesOK, Playing
  <2> QED BY <2>1, <2>2
<1>15. CASE ReconnectFails
  <2>1. unsung' = TRUE /\ guard' = guard /\ output' = output /\ phase = "reconnecting" /\ phase' = "off"
    BY <1>15, Zenon DEF ReconnectFails
  <2>2. ~Playing'
    BY <1>0, <2>1 DEF PhasesOK, Playing
  <2> QED BY <2>1, <2>2
<1>16. CASE StopEnds
  <2>1. /\ UNCHANGED <<unsung, guard, listen>> /\ queue' = <<>> /\ output' = NoOutput
        /\ phase = "stopping" /\ phase' = "off"
    BY <1>16, Zenon DEF StopEnds, StopInputSender
  <2>2. ~Playing'
    BY <2>1 DEF NoOutput, Playing
  <2> QED BY <2>1, <2>2
<1> HIDE DEF Holds
<1>17. CASE TailEnds \/ Sender \/ Playback \/ Tools \/ Voice
  <2>1. Holds
    BY <1>2, <1>3, <1>4, <1>5, <1>6, <1>17, Zenon DEF Playback, Tools
  <2> QED BY <1>7, <2>1
<1> QED
  BY <1>8, <1>9, <1>10, <1>11, <1>12, <1>13, <1>14, <1>15, <1>16, <1>17, Zenon DEF Quiet, Session

\* A window that is for what is playing was so before.
LEMMA PlayedQuiet ==
  ASSUME Control, GatesOK, Quiet, Playing', barge'.stream = output'.stream
  PROVE  barge'.window = <<>> \/ (Playing /\ barge.stream = output.stream /\ barge'.window = barge.window)
<1>0. barge' = barge \/ barge' = BargeReset
  BY QuietGates
<1>1. CASE barge' = BargeReset
  BY <1>1 DEF BargeReset
<1>2. CASE barge' = barge
  <2>1. output \in [stream : Nat, warm : BOOLEAN, ended : BOOLEAN]
    BY DEF Control, OutputOK
  <2>2. output'.stream = output.stream \/ output'.stream = streams + 1 \/ ~Playing'
    <3>1. CASE AudioStarts
      <4>1. output' = [stream |-> streams + 1, warm |-> FALSE, ended |-> FALSE]
        BY <3>1, Zenon DEF AudioStarts
      <4> QED BY <4>1
    <3>2. CASE ~AudioStarts
      <4>1. output' = output \/ output' = NoOutput \/ output' = [output EXCEPT !.ended = TRUE]
            \/ output' = [output EXCEPT !.warm = TRUE]
        <5>1. ASSUME NEW x, CompletePlayback(x) \/ AfterCompletion(x) \/ VoiceSetBargeIn(x)
              PROVE  output' = output \/ output' = NoOutput
          BY <5>1, Zenon DEF CompletePlayback, AfterCompletion, VoiceSetBargeIn
        <5>2. CASE TailEnds \/ Sender \/ CloudResponds \/ AudioDone \/ ResponseDone \/ WarmUpPlayed \/ AfterResponse
          <6>1. CASE ResponseDone
            <7>1. output' = IF Playing THEN [output EXCEPT !.ended = TRUE] ELSE output
              BY <6>1, Zenon DEF ResponseDone
            <7> QED BY <7>1
          <6>2. CASE ~ResponseDone
            BY <5>2, <6>2, Zenon DEF TailEnds, Sender, SenderTakes, SenderSent, CloudResponds, AudioDone,
               WarmUpPlayed, AfterResponse
          <6> QED BY <6>1, <6>2
        <5>3. CASE VoiceWaitForReady \/ ReadyDetected \/ Voice
          BY <5>3, Zenon DEF VoiceWaitForReady, ReadyDetected, Voice, SpeechIgnored, SpeechInterrupts,
             Interrupted, SpeechStopped
        <5>4. CASE Session
          BY <5>4, Zenon DEF Session, RequestStart, StartBegins, Connected, ConnectFails, AnnounceProject,
             SwitchBegins, SwitchCleared, Reconnected, ReconnectFails, StopBegins, StopEnds
        <5> QED BY <3>2, <5>1, <5>2, <5>3, <5>4, Zenon DEF Quiet, Playback, Tools
      <4> QED BY <2>1, <4>1 DEF NoOutput, Playing
    <3> QED BY <3>1, <3>2
  <2>3. barge.stream \in Nat /\ barge.stream <= streams /\ streams \in Nat
    BY DEF GatesOK, BargeHolds, BargeGates, Control, OutputOK
  <2> QED BY <1>2, <2>2, <2>3 DEF Playing
<1> QED BY <1>0, <1>1, <1>2

\* That stays so in a quiet step.
LEMMA SessionQuiet ==
  ASSUME Control, GatesOK, QueueOK, SessionOK, Quiet
  PROVE  SessionOK'
<1>1. captured' = captured
      /\ (listen' = listen \/ listen' = ListenReset \/ listen' = ListenOpened(ListenReset))
  BY QuietGates
<1>2. listen'.window = listen.window \/ listen'.window = <<>>
  <2>1. ListenReset.window = <<>> /\ ListenOpened(ListenReset).window = <<>>
    BY DEF ListenReset, ListenOpened
  <2> QED BY <1>1, <2>1
<1>3. Range(queue') \subseteq Range(queue)
  <2>1. queue \in Seq(Nat)
    BY DEF QueueOK
  <2>2. EndOf(queue, queue) /\ EndOf(<<>>, queue) /\ (queue # <<>> => EndOf(Tail(queue), queue))
    BY <2>1, EndIsItself, TailIsEnd
  <2>3. queue' = queue \/ queue' = <<>> \/ (queue # <<>> /\ queue' = Tail(queue))
    BY QuietQueue
  <2>4. EndOf(queue', queue)
    BY <2>2, <2>3, Zenon
  <2> QED BY <2>1, <2>4, EndKeeps
<1>4. Playing' /\ barge'.stream = output'.stream =>
        barge'.window = <<>> \/ (Playing /\ barge.stream = output.stream /\ barge'.window = barge.window)
  BY PlayedQuiet
<1>5. /\ unsung => unsung'
      /\ guard /\ ~guard' => unsung' \/ listen' = ListenReset \/ phase = "connecting"
      /\ phase' = "connecting" => phase = "connecting" \/ listen' = ListenReset
      /\ phase' = "stopping" => phase = "stopping" \/ listen' = ListenReset
  BY DueQuiet
<1>6. ListenReset.window = <<>> /\ Range(<<>>) = {}
  BY NoWindow DEF ListenReset
<1>7. \A w : ForDue(w)' <=> \A f \in w : captured'[f].at.session = Due'
  BY DEF ForDue
<1>8. phase' = "stopping" => listen'.window = <<>>
  BY <1>2, <1>5, <1>6 DEF SessionOK
<1>9. CASE Due' = Due
  <2>1. ASSUME ~unsung' PROVE \A f \in Range(queue') \ {Silence} : captured'[f].at.session = Due'
    <3>1. ForDue(Range(queue) \ {Silence}) /\ Range(queue') \ {Silence} \subseteq Range(queue) \ {Silence}
      BY <1>3, <1>5, <2>1 DEF SessionOK
    <3> QED BY <1>1, <1>9, <3>1 DEF ForDue
  <2>2. ASSUME Playing', barge'.stream = output'.stream
        PROVE  \A f \in Range(barge'.window) : captured'[f].at.session = Due'
    <3>1. CASE barge'.window = <<>>
      BY <1>6, <3>1
    <3>2. CASE Playing /\ barge.stream = output.stream /\ barge'.window = barge.window
      BY <1>1, <1>9, <3>2 DEF SessionOK, ForDue
    <3> QED BY <1>4, <2>2, <3>1, <3>2
  <2>3. ASSUME ForDue(Range(listen.window)) \/ listen'.window = <<>>
        PROVE  \A f \in Range(listen'.window) : captured'[f].at.session = Due'
    BY <1>1, <1>2, <1>6, <1>9, <2>3 DEF ForDue
  <2>4. ASSUME ~unsung', ~guard' PROVE ForDue(Range(listen.window)) \/ listen'.window = <<>>
    BY <1>5, <1>6, <2>4 DEF SessionOK
  <2>5. ASSUME phase' = "connecting" PROVE ForDue(Range(listen.window)) \/ listen'.window = <<>>
    BY <1>5, <1>6, <2>5 DEF SessionOK
  <2> QED BY <1>7, <1>8, <2>1, <2>2, <2>3, <2>4, <2>5 DEF SessionOK
<1>10. CASE ~(Due' = Due)
  <2>1. /\ ~Playing' /\ phase' # "connecting" /\ phase' # "stopping"
        /\ (unsung' \/ (queue' = <<>> /\ guard') \/ (queue' = <<>> /\ phase = "stopping" /\ listen' = listen))
    BY <1>10, DueQuiet
  <2>2. phase = "stopping" /\ listen' = listen => listen'.window = <<>>
    BY DEF SessionOK
  <2>3. CASE unsung'
    BY <2>1, <2>3 DEF SessionOK
  <2>4. CASE queue' = <<>> /\ (guard' \/ listen'.window = <<>>)
    <3>1. Range(queue') = {} /\ (guard' \/ Range(listen'.window) = {})
      BY <1>6, <2>4
    <3> QED BY <1>7, <2>1, <3>1 DEF SessionOK
  <2> QED BY <2>1, <2>2, <2>3, <2>4
<1> QED BY <1>9, <1>10

\* A frame that is looked at is for the session that is due.
LEMMA MomentIsDue ==
  ASSUME Control, accepting \/ Playing
  PROVE  Moment.session = Due /\ Moment.stream = streams /\ Moment.turn = turn
<1>1. phase \in Phases /\ phase # "off"
  BY DEF Control, TasksOK, PhasesOK
<1> QED BY <1>1 DEF Moment, Due

\* What is queued was queued or has just been let through.
LEMMA QueueFrom ==
  ASSUME Control, GatesOK, QueueOK, NEW fs \in Seq(Nat), Passes(fs)
  PROVE  Range(queue') \subseteq Range(queue) \cup Range(fs)
<1>1. queue \in Seq(Nat)
  BY DEF QueueOK
<1>2. queue \o fs \in Seq(Nat) /\ Range(queue \o fs) = Range(queue) \cup Range(fs)
  BY <1>1, Joined
<1>3. queue' = queue \/ queue' = Newest(queue \o fs, QueueLimit)
  BY DEF Passes
<1>4. Range(Newest(queue \o fs, QueueLimit)) \subseteq Range(queue \o fs)
  BY <1>2, NewestIsEnd, EndKeeps, Limits
<1> QED BY <1>2, <1>3, <1>4

\* That stays so when a frame arrives.
LEMMA SessionReceive ==
  ASSUME Control, GatesOK, QueueOK, SessionOK, NEW p \in Powers, Receive(p)
  PROVE  SessionOK'
<1> DEFINE DueNow(S) == \A f \in S : captured'[f].at.session = Due'
<1>1. PICK m \in Met : captured' = Append(captured, m) /\ Len(captured) < MaxFrames /\ Comes(m, p)
  BY ReceiveArrives
<1>2. UNCHANGED <<unsung, guard, phase, session, output>>
  BY ReceiveLeaves
<1>3. /\ Arrived = Len(captured) + 1 /\ Arrived \in Nat /\ Len(captured) \in Nat /\ Held \subseteq 1 .. Len(captured)
      /\ \A f \in 1 .. Len(captured) : captured'[f] = captured[f]
      /\ captured'[Arrived] = m
  BY <1>1, ArrivedIs, FrameLater DEF GatesOK
<1>4. Due' = Due
  BY <1>2 DEF Due
<1>6. ASSUME NEW S, S \subseteq 1 .. Len(captured), ForDue(S) PROVE DueNow(S)
  BY <1>3, <1>4, <1>6 DEF ForDue
<1>7. ASSUME NEW S, S \subseteq 1 .. Len(captured), ForDue(S), m.at.session = Due
      PROVE  DueNow(S \cup {Arrived})
  <2>1. \A f \in S : captured'[f].at.session = Due'
    BY <1>6, <1>7
  <2>2. captured'[Arrived].at.session = Due'
    BY <1>3, <1>4, <1>7
  <2> QED BY <2>1, <2>2
<1>8. ASSUME NEW S, NEW T, DueNow(S), T \subseteq S PROVE DueNow(T)
  BY <1>8
<1>9. Over(m, p) \/ Said(m, p) => m.at.session = Due
  BY MomentIsDue DEF Over, Said
<1>10. /\ Range(queue) \ {Silence} \subseteq 1 .. Len(captured)
       /\ Range(barge.window) \subseteq 1 .. Len(captured) /\ Range(listen.window) \subseteq 1 .. Len(captured)
  BY <1>3 DEF QueueOK, Held
<1>11. /\ EchoWindow \in Seq(Nat) /\ Range(EchoWindow) \subseteq Range(BargeMet.window) \cup {Arrived}
       /\ SpeechWindow \in Seq(Nat) /\ Range(SpeechWindow) \subseteq Range(listen.window) \cup {Arrived}
  BY WindowsWith
<1>12. <<Arrived>> \in Seq(Nat) /\ Range(<<Arrived>>) = {Arrived} /\ Range(<<>>) = {}
  BY <1>3, NoWindow DEF Range
<1>13. ASSUME Playing PROVE ForDue(Range(BargeMet.window)) /\ Range(BargeMet.window) \subseteq 1 .. Len(captured)
  <2>1. BargeMet.window # <<>> => barge.stream = output.stream /\ BargeMet = barge
    BY BargeMetHolds DEF GatesOK, Control
  <2>2. CASE BargeMet.window = <<>>
    BY <1>12, <2>2 DEF ForDue
  <2>3. CASE BargeMet.window # <<>>
    BY <1>10, <1>13, <2>1, <2>3 DEF SessionOK
  <2> QED BY <2>2, <2>3
<1>14. ASSUME Over(m, p) PROVE DueNow(Range(EchoWindow))
  <2>1. Playing
    BY <1>14 DEF Over
  <2>2. DueNow(Range(BargeMet.window) \cup {Arrived})
    BY <1>7, <1>9, <1>13, <1>14, <2>1
  <2> QED BY <1>8, <1>11, <2>2
<1>15. ASSUME Said(m, p), ForDue(Range(listen.window)) PROVE DueNow(Range(SpeechWindow))
  <2>1. DueNow(Range(listen.window) \cup {Arrived})
    BY <1>7, <1>9, <1>10, <1>15
  <2> QED BY <1>8, <1>11, <2>1
<1>16. /\ Echoes(m, p) \/ BargesIn(m, p) \/ GoesOn(m, p) => Over(m, p)
       /\ Spoken(m, p) \/ Gathers(m, p) \/ SpeaksUp(m, p) \/ FallsSilent(m, p) => Said(m, p)
  BY DEF Echoes, BargesIn, GoesOn, Spoken, Gathers, SpeaksUp, FallsSilent
<1>17. ~unsung' => DueNow(Range(queue') \ {Silence})
  <2> SUFFICES ASSUME ~unsung PROVE DueNow(Range(queue') \ {Silence})
    BY <1>2
  <2>1. DueNow(Range(queue) \ {Silence})
    BY <1>6, <1>10 DEF SessionOK
  <2>2. ASSUME NEW fs \in Seq(Nat), Passes(fs), DueNow(Range(fs) \ {Silence})
        PROVE  DueNow(Range(queue') \ {Silence})
    <3>1. Range(queue') \subseteq Range(queue) \cup Range(fs)
      BY <2>2, QueueFrom
    <3>2. DueNow((Range(queue) \cup Range(fs)) \ {Silence})
      BY <2>1, <2>2
    <3> QED BY <1>8, <3>1, <3>2
  <2>3. DueNow({})
    OBVIOUS
  <2>4. CASE queue' = queue
    BY <2>1, <2>4
  <2>5. CASE Passes(<<Silence>>)
    <3>1. Range(<<Silence>>) \ {Silence} = {}
      BY SilenceOrdered
    <3> QED BY <2>2, <2>3, <2>5, <3>1, SilenceOrdered
  <2>6. CASE Ignored(m) \/ Echoes(m, p) \/ Gathers(m, p) \/ FallsSilent(m, p)
    BY <1>1, <2>4, <2>5, <2>6, OverWindows, SaidWindows DEF Ignored
  <2>7. CASE GoesOn(m, p) \/ Spoken(m, p)
    <3>1. Passes(<<Arrived>>) /\ m.at.session = Due
      BY <1>1, <1>9, <1>16, <2>7, OverWindows, SaidWindows
    <3>2. captured'[Arrived].at.session = Due'
      BY <1>3, <1>4, <3>1
    <3>3. DueNow(Range(<<Arrived>>) \ {Silence})
      BY <1>12, <3>2
    <3> QED BY <1>12, <2>2, <3>1, <3>3
  <2>8. CASE BargesIn(m, p)
    <3>1. Passes(EchoWindow) /\ DueNow(Range(EchoWindow) \ {Silence})
      BY <1>1, <1>8, <1>14, <1>16, <2>8, OverWindows
    <3> QED BY <1>11, <2>2, <3>1
  <2>9. CASE SpeaksUp(m, p)
    <3>1. ~guard /\ Said(m, p)
      BY <1>16, <2>9 DEF Said, FullyGuarded
    <3>2. ForDue(Range(listen.window))
      BY <3>1 DEF SessionOK
    <3>3. Passes(SpeechWindow) /\ DueNow(Range(SpeechWindow) \ {Silence})
      BY <1>1, <1>8, <1>15, <2>9, <3>1, <3>2, SaidWindows
    <3> QED BY <1>11, <2>2, <3>3
  <2> QED BY <1>1, <2>6, <2>7, <2>8, <2>9 DEF Comes
<1>18. Playing' /\ barge'.stream = output'.stream => DueNow(Range(barge'.window))
  <2> SUFFICES ASSUME Playing PROVE DueNow(Range(barge'.window))
    BY <1>2 DEF Playing
  <2>1. DueNow(Range(BargeMet.window)) /\ DueNow(Range(<<>>))
    BY <1>6, <1>12, <1>13
  <2>2. ~Said(m, p)
    BY DEF Said
  <2>3. barge'.window = BargeMet.window \/ barge'.window = <<>> \/ (Over(m, p) /\ barge'.window = EchoWindow)
    BY <1>1, <1>16, <2>2, OverWindows DEF Comes, Ignored
  <2> QED BY <1>14, <2>1, <2>3
<1>19. \/ listen'.window = <<>> \/ listen'.window = listen.window
       \/ Said(m, p) /\ listen'.window = SpeechWindow
  <2>1. Ignored(m) => listen'.window = listen.window \/ listen'.window = <<>>
    <3>1. Ignored(m) => listen' = listen \/ listen' = ListenReset
      BY Zenon DEF Ignored
    <3>2. ListenReset.window = <<>>
      BY DEF ListenReset
    <3> QED BY <3>1, <3>2
  <2>2. CASE ~Ignored(m)
    BY <1>1, <1>16, <2>2, OverWindows, SaidWindows, Zenon DEF Comes
  <2> QED BY <2>1, <2>2
<1>20. ASSUME ForDue(Range(listen.window)) PROVE DueNow(Range(listen'.window))
  <2>1. DueNow(Range(listen.window)) /\ DueNow(Range(<<>>))
    BY <1>6, <1>10, <1>12, <1>20
  <2> QED BY <1>15, <1>19, <1>20, <2>1
<1>21. phase' = "stopping" => listen'.window = <<>>
  <2>1. Said(m, p) => phase # "stopping"
    BY DEF Said, Control, PhasesOK
  <2> QED BY <1>2, <1>19, <2>1 DEF SessionOK
<1> QED BY <1>2, <1>17, <1>18, <1>20, <1>21 DEF SessionOK, ForDue

LEMMA SessionStep ==
  ASSUME Control, GatesOK, QueueOK, SessionOK, [Next]_vars
  PROVE  SessionOK'
<1>1. CASE UNCHANGED vars
  <2>1. UNCHANGED <<captured, unsung, queue, barge, listen, guard, output, phase, session>>
    BY <1>1, Zenon DEF vars
  <2> QED BY <2>1 DEF SessionOK, ForDue, Due, Playing
<1> QED BY <1>1, SessionQuiet, SessionReceive, NextIs

LEMMA SessionStarts == ASSUME Init PROVE SessionOK
<1>1. queue = <<>> /\ output = NoOutput /\ listen = ListenReset /\ phase = "off" /\ guard = FALSE
  BY DEF Init
<1>2. ~Playing /\ listen.window = <<>> /\ Range(<<>>) = {}
  BY <1>1, NoWindow DEF Playing, NoOutput, ListenReset
<1> QED BY <1>1, <1>2 DEF SessionOK, ForDue

LEMMA SessionAlways == Spec => []SessionOK
  BY ControlAlways, GatesAlways, QueueAlways, SessionStarts, SessionStep, PTL DEF Spec

\* A session's conversation gets only what was captured in it: nothing the queue or a gate's
\* window held when a project was switched or a session stopped reaches the next one.
THEOREM OwnSessionAlways == Spec => OwnSessionOnly
<1>1. ASSUME Control, QueueOK, SessionOK, [Next]_vars, sent' # sent, ~unsung
      PROVE  captured[sent'].at.session = session
  <2>1. CASE Quiet
    <3>1. queue # <<>> /\ sent' = Head(queue) /\ sent' # Silence /\ ready
      BY <1>1, <2>1, QuietQueue
    <3>2. queue \in Seq(Nat) /\ Ordered(queue)
      BY <1>1 DEF QueueOK
    <3>3. sent' \in Range(queue) \ {Silence}
      BY <3>1, <3>2, HeadFirst
    <3>4. Due = session
      BY <1>1, <3>1 DEF Due, Control, PhasesOK
    <3> QED BY <1>1, <3>3, <3>4 DEF SessionOK, ForDue
  <2>2. ASSUME NEW p \in Powers, Receive(p) PROVE FALSE
    BY <1>1, <2>2, ReceiveLeaves
  <2>3. ~UNCHANGED vars
    BY <1>1 DEF vars
  <2> QED BY <1>1, <2>1, <2>2, <2>3, NextIs
<1>2. ASSUME Control, QueueOK, SessionOK, [Next]_vars
      PROVE  [(sent' # sent /\ ~unsung) => captured[sent'].at.session = session]_vars
  BY <1>1, <1>2
<1> QED BY <1>2, ControlAlways, QueueAlways, SessionAlways, PTL DEF Spec, OwnSessionOnly

-----------------------------------------------------------------------------
\* What has passed, of what was captured over a playback, came with a loud window or after one.
Innocent(c, f) ==
  /\ c[f].kind # "withheld"
  /\ c[f].kind \in {"playing", "refused"} /\ BargePower > 0 => \E g \in 1 .. f : LoudFrom(c, g, c[f].at.stream)

\* All that has passed is innocent.
EchoOK == \A f \in passed : Innocent(captured, f)

\* Once innocent, always so.
LEMMA InnocentLater ==
  ASSUME NEW c \in Seq(Met), NEW m \in Met, NEW f \in 1 .. Len(c), Innocent(c, f)
  PROVE  Innocent(Append(c, m), f)
<1> DEFINE d == Append(c, m)
<1>1. d[f] = c[f]
  BY FrameLater
<1>2. ASSUME NEW g \in 1 .. f, NEW s, LoudFrom(c, g, s) PROVE LoudFrom(d, g, s)
  <2>1. g \in Nat \ {0}
    OBVIOUS
  <2> QED BY <1>2, <2>1, LoudLater
<1> HIDE DEF d
<1> QED BY <1>1, <1>2 DEF Innocent, d

\* What leaves now is nothing but what the frame's outcome lets out.
LEMMA PassedFrom ==
  ASSUME NEW fs, Passes(fs)
  PROVE  passed' \subseteq passed \cup (Range(fs) \ {Silence})
  BY DEF Passes

\* What passes when a frame arrives is innocent.
LEMMA EchoReceive ==
  ASSUME Control, GatesOK, QueueOK, EchoOK, NEW p \in Powers, Receive(p)
  PROVE  EchoOK'
<1>1. PICK m \in Met : captured' = Append(captured, m) /\ Len(captured) < MaxFrames /\ Comes(m, p)
  BY ReceiveArrives
<1>2. /\ captured \in Seq(Met) /\ Arrived = Len(captured) + 1 /\ Arrived \in Nat /\ Len(captured) \in Nat
      /\ captured'[Arrived] = m
  BY <1>1, ArrivedIs, FrameLater DEF GatesOK
<1>3. \A f \in passed : Innocent(captured', f)
  <2>1. passed \subseteq 1 .. Len(captured)
    BY DEF QueueOK
  <2> QED BY <1>1, <1>2, <2>1, InnocentLater DEF EchoOK
<1>4. ASSUME NEW fs, Passes(fs), \A f \in Range(fs) \ {Silence} : Innocent(captured', f)
      PROVE  EchoOK'
  <2>1. \A f \in passed' : Innocent(captured', f)
    BY <1>3, <1>4, PassedFrom
  <2> QED BY <2>1 DEF EchoOK
<1>5. CASE passed' = passed
  BY <1>3, <1>5 DEF EchoOK
<1>6. CASE Passes(<<Silence>>)
  BY <1>4, <1>6, SilenceOrdered
<1>7. CASE Ignored(m) \/ Echoes(m, p) \/ Gathers(m, p) \/ FallsSilent(m, p)
  BY <1>1, <1>5, <1>6, <1>7, OverWindows, SaidWindows DEF Ignored
<1>8. CASE BargesIn(m, p)
  <2>1. /\ Passes(EchoWindow)
        /\ \A f \in Range(EchoWindow) :
             /\ \E g \in 1 .. f : LoudFrom(captured', g, output.stream)
             /\ captured'[f].kind # "withheld" /\ captured'[f].at.stream = output.stream
    BY <1>1, <1>8, OverWindows
  <2>2. \A f \in Range(EchoWindow) : Innocent(captured', f)
    BY <2>1 DEF Innocent
  <2> QED BY <1>4, <2>1, <2>2
<1>9. <<Arrived>> \in Seq(Nat) /\ Range(<<Arrived>>) = {Arrived}
  BY <1>2 DEF Range
<1>10. CASE GoesOn(m, p)
  <2>1. Playing /\ m.kind # "withheld" /\ m.at.stream = streams /\ (BargePower = 0 \/ BargeMet.open)
    BY <1>10 DEF GoesOn, Over, Moment
  <2>2. ASSUME BargeMet.open PROVE \E g \in 1 .. Arrived : LoudFrom(captured', g, output.stream)
    <3>1. BargeHolds(captured', BargeMet) /\ BargeMet.stream = output.stream
      <4>1. BargeHolds(captured', barge) /\ captured' \in Seq(Met)
        BY <1>1, <1>2, BargeLater, FrameLater DEF GatesOK
      <4> QED BY <4>1, BargeMetHolds DEF Control
    <3>2. PICK g \in Nat \ {0} : LoudFrom(captured', g, output.stream)
      BY <2>2, <3>1 DEF BargeHolds, OpenedFor
    <3>3. g + BargeWindow - 1 <= Len(captured') /\ Len(captured') = Arrived
      BY <1>1, <1>2, <3>2, FrameLater DEF LoudFrom
    <3>4. g \in 1 .. Arrived
      BY <1>2, <3>3, Limits
    <3> QED BY <3>2, <3>4
  <2>3. output.stream = streams
    BY <2>1 DEF Playing, Control, OutputOK
  <2>4. Innocent(captured', Arrived)
    <3>1. captured'[Arrived].at.stream = output.stream /\ captured'[Arrived].kind # "withheld"
      BY <1>2, <2>1, <2>3
    <3>2. BargePower > 0 => BargeMet.open
      BY <2>1, Limits
    <3> QED BY <2>2, <3>1, <3>2 DEF Innocent
  <2>5. Passes(<<Arrived>>)
    BY <1>10 DEF GoesOn
  <2> QED BY <1>4, <1>9, <2>4, <2>5
<1>11. CASE Spoken(m, p)
  <2>1. m.kind = "listening" /\ Passes(<<Arrived>>)
    BY <1>11 DEF Spoken, Said
  <2>2. Innocent(captured', Arrived)
    BY <1>2, <2>1 DEF Innocent
  <2> QED BY <1>4, <1>9, <2>1, <2>2
<1>12. CASE SpeaksUp(m, p)
  <2>1. Passes(SpeechWindow) /\ \A f \in Range(SpeechWindow) : captured'[f].kind = "listening"
    BY <1>1, <1>12, SaidWindows
  <2>2. \A f \in Range(SpeechWindow) : Innocent(captured', f)
    BY <2>1 DEF Innocent
  <2> QED BY <1>4, <2>1, <2>2
<1> QED BY <1>1, <1>7, <1>8, <1>10, <1>11, <1>12 DEF Comes

LEMMA EchoStep ==
  ASSUME Control, GatesOK, QueueOK, EchoOK, [Next]_vars
  PROVE  EchoOK'
<1>1. CASE Quiet \/ UNCHANGED vars
  <2>1. captured' = captured /\ passed' = passed
    BY <1>1, QuietGates DEF vars
  <2> QED BY <2>1 DEF EchoOK
<1> QED BY <1>1, EchoReceive, NextIs

LEMMA EchoAlways == Spec => []EchoOK
<1>1. Init => EchoOK
  BY DEF Init, EchoOK
<1> QED BY <1>1, ControlAlways, GatesAlways, QueueAlways, EchoStep, PTL DEF Spec

\* The assistant's own voice stays home: no frame from over a playback leaves (receive_audio,
\* _check_barge_in_level) before a whole window of that playback was loud enough.
THEOREM EchoAlwaysStaysOut == Spec => []EchoStaysOut
<1>1. ASSUME GatesOK, QueueOK, EchoOK PROVE EchoStaysOut
  <2> SUFFICES ASSUME NEW f \in OnTheWay
               PROVE  /\ captured[f].kind # "withheld"
                      /\ (captured[f].kind \in {"playing", "refused"} /\ BargePower > 0) =>
                           \E g \in 1 .. f :
                             LET window == {h \in DOMAIN captured : h \in g .. g + BargeWindow - 1}
                             IN /\ \A h \in window : /\ captured[h].kind \in {"playing", "refused"}
                                                     /\ captured[h].at.stream = captured[f].at.stream
                                /\ Cardinality(window) = BargeWindow
                                /\ TotalPower(window) >= BargePower * BargeWindow
    BY DEF EchoStaysOut
  <2>1. f \in passed /\ passed \subseteq 1 .. Len(captured)
    BY <1>1 DEF OnTheWay, QueueOK
  <2>2. Innocent(captured, f)
    BY <1>1, <2>1 DEF EchoOK
  <2>3. ASSUME NEW g \in 1 .. f, LoudFrom(captured, g, captured[f].at.stream)
        PROVE  LET window == {h \in DOMAIN captured : h \in g .. g + BargeWindow - 1}
               IN /\ \A h \in window : /\ captured[h].kind \in {"playing", "refused"}
                                       /\ captured[h].at.stream = captured[f].at.stream
                  /\ Cardinality(window) = BargeWindow
                  /\ TotalPower(window) >= BargePower * BargeWindow
    <3> DEFINE window == {h \in DOMAIN captured : h \in g .. g + BargeWindow - 1}
               last == g + BargeWindow - 1
    <3>1. DOMAIN captured = 1 .. Len(captured) /\ Len(captured) \in Nat
      BY <1>1 DEF GatesOK
    <3>2. f \in Nat /\ g \in Nat /\ g >= 1
      BY <2>1
    <3>3. last \in Int /\ g <= last /\ last - g + 1 = BargeWindow /\ last <= Len(captured)
      BY <2>3, <3>2, Limits DEF LoudFrom
    <3>4. window = g .. last
      BY <3>1, <3>2, <3>3
    <3>5. Cardinality(g .. last) = BargeWindow
      <4> HIDE DEF last
      <4>1. g \in Int /\ ~(g > last)
        BY <3>2, <3>3
      <4>2. Cardinality(g .. last) = last - g + 1
        BY <3>3, <4>1, FS_Interval
      <4> QED BY <3>3, <4>2
    <3>6. TotalPower(window) = PowerIn(captured, g .. last)
      BY <3>4, TotalIsPowerIn
    <3> HIDE DEF window
    <3> QED BY <2>3, <3>4, <3>5, <3>6 DEF LoudFrom, window
  <2> QED BY <2>2, <2>3 DEF Innocent
<1> QED BY <1>1, GatesAlways, QueueAlways, EchoAlways, PTL

-----------------------------------------------------------------------------
\* The moment of a frame that would be captured now.
IsNow(a) == a.session = Due /\ a.stream = streams /\ a.turn = turn

\* A frame since which somebody has been speaking up, and nothing else has changed.
Run(c, f) ==
  \A h \in f .. Len(c) : c[h].kind = "listening" /\ c[h].power >= ListenPower /\ c[h].at = c[f].at

\* Where the frames of such a run are: all out, or all in a window that they do not fill.
RunHeld(c, f) ==
  IF listen.open THEN f .. Len(c) \subseteq passed
  ELSE f .. Len(c) \subseteq Range(listen.window) /\ Len(c) + 1 < f + ListenWindow

\* A moment that has been.
Earlier(a) == a.session <= Due /\ a.stream <= streams /\ a.turn <= turn

\* The inductive invariant of speech: where the frames are of somebody speaking up now.
SpeechOK ==
  /\ \A f \in DOMAIN captured : captured[f].kind = "listening" =>
       Earlier(captured[f].at) /\ (Playing => captured[f].at.stream < streams) /\ (ListenPower = 0 => f \in passed)
  /\ ListenPower > 0 /\ phase # "stopping" =>
       \A f \in DOMAIN captured : Run(captured, f) /\ IsNow(captured[f].at) => RunHeld(captured, f)
  /\ SpeechIsWhole

\* Moments do not come back.
LEMMA NowQuiet ==
  ASSUME Control, Quiet
  PROVE  /\ Due \in Nat /\ Due' \in Nat /\ streams \in Nat /\ streams' \in Nat /\ turn \in Nat /\ turn' \in Nat
         /\ Due <= Due' /\ streams <= streams' /\ turn <= turn'
         /\ Playing' => Playing \/ streams < streams'
         /\ \/ listen' = listen /\ (phase = "stopping" => phase' = "stopping" \/ Due < Due')
            \/ Playing
            \/ turn < turn'
            \/ phase' = "stopping"
<1>0. /\ session \in Nat /\ streams \in Nat /\ turn \in Nat /\ PhasesOK
      /\ output \in [stream : Nat, warm : BOOLEAN, ended : BOOLEAN]
  BY DEF Control, CountsOK, OutputOK
<1> DEFINE Same == UNCHANGED <<session, phase, streams, turn>>
           Goal == /\ Due \in Nat /\ Due' \in Nat /\ streams' \in Nat /\ turn' \in Nat
                   /\ Due <= Due' /\ streams <= streams' /\ turn <= turn'
                   /\ Playing' => Playing \/ streams < streams'
                   /\ \/ listen' = listen /\ (phase = "stopping" => phase' = "stopping" \/ Due < Due')
                      \/ Playing
                      \/ turn < turn'
                      \/ phase' = "stopping"
<1>1. ASSUME Same, listen' = listen \/ Playing, Playing' => Playing PROVE Goal
  BY <1>0, <1>1 DEF Due
<1>2. ASSUME output' = output PROVE Playing' => Playing
  BY <1>2 DEF Playing
<1>3. ASSUME output' = NoOutput PROVE Playing' => Playing
  BY <1>3 DEF Playing, NoOutput
<1>4. ASSUME TailEnds \/ Sender \/ CloudResponds \/ AfterResponse \/ VoiceWaitForReady \/ ReadyDetected
             \/ SpeechIgnored \/ SpeechInterrupts
      PROVE  Goal
  <2>1. Same /\ listen' = listen /\ output' = output
    BY <1>4, Zenon DEF TailEnds, Sender, SenderTakes, SenderSent, CloudResponds, AfterResponse,
       VoiceWaitForReady, ReadyDetected, SpeechIgnored, SpeechInterrupts
  <2> HIDE DEF Goal, Same
  <2> QED BY <1>1, <1>2, <2>1
<1>5. ASSUME NEW x, AfterCompletion(x) \/ VoiceSetBargeIn(x) PROVE Goal
  <2>1. Same /\ listen' = listen /\ output' = output
    BY <1>5, Zenon DEF AfterCompletion, VoiceSetBargeIn
  <2> HIDE DEF Goal, Same
  <2> QED BY <1>1, <1>2, <2>1
<1>6. ASSUME NEW x, CompletePlayback(x) PROVE Goal
  <2>1. Same /\ Playing /\ output' = NoOutput
    BY <1>6, Zenon DEF CompletePlayback
  <2> HIDE DEF Goal, Same
  <2> QED BY <1>1, <1>3, <2>1
<1>7. ASSUME AudioDone \/ ResponseDone \/ WarmUpPlayed PROVE Goal
  <2>1. Same /\ listen' = listen
    BY <1>7, Zenon DEF AudioDone, ResponseDone, WarmUpPlayed
  <2>2. output' = output \/ output' = [output EXCEPT !.ended = TRUE] \/ output' = [output EXCEPT !.warm = TRUE]
    <3>1. CASE ResponseDone
      <4>1. output' = IF Playing THEN [output EXCEPT !.ended = TRUE] ELSE output
        BY <3>1, Zenon DEF ResponseDone
      <4> QED BY <4>1
    <3>2. CASE AudioDone \/ WarmUpPlayed
      BY <3>2, Zenon DEF AudioDone, WarmUpPlayed
    <3> QED BY <1>7, <3>1, <3>2
  <2>3. Playing' => Playing
    BY <1>0, <2>2 DEF Playing
  <2> HIDE DEF Goal, Same
  <2> QED BY <1>1, <2>1, <2>3
<1>8. ASSUME AudioStarts PROVE Goal
  <2>1. UNCHANGED <<session, phase, turn, listen>> /\ streams' = streams + 1
    BY <1>8, Zenon DEF AudioStarts
  <2> QED BY <1>0, <2>1 DEF Due
<1>9. ASSUME Interrupted PROVE Goal
  <2>1. UNCHANGED <<session, phase, streams>> /\ turn' = turn + 1 /\ output' = NoOutput
    BY <1>9, Zenon DEF Interrupted
  <2>2. Playing' => Playing
    BY <1>3, <2>1
  <2> QED BY <1>0, <2>1, <2>2 DEF Due
<1>10. ASSUME SpeechStopped PROVE Goal
  <2>1. UNCHANGED <<session, phase, streams, output>> /\ ((listen' = listen /\ turn' = turn) \/ turn' = turn + 1)
    <3>1. IF vad = "warmup" THEN UNCHANGED <<listen, turn>> ELSE listen' = ListenReset /\ turn' = turn + 1
      BY <1>10, Zenon DEF SpeechStopped
    <3>2. UNCHANGED <<session, phase, streams, output>>
      BY <1>10, Zenon DEF SpeechStopped
    <3> QED BY <3>1, <3>2
  <2>2. Playing' => Playing
    BY <1>2, <2>1
  <2> QED BY <1>0, <2>1, <2>2 DEF Due
<1>11. ASSUME StartBegins PROVE Goal
  <2>1. /\ phase = "asked" /\ phase' = "connecting" /\ UNCHANGED <<session, streams, output>>
        /\ turn' = turn + 1
    BY <1>11, Zenon DEF StartBegins
  <2>2. Playing' => Playing
    BY <1>2, <2>1
  <2> QED BY <1>0, <2>1, <2>2 DEF Due
<1>12. ASSUME StopBegins PROVE Goal
  <2>1. phase = "on" /\ phase' = "stopping" /\ UNCHANGED <<session, streams, output, turn>>
    BY <1>12, Zenon DEF StopBegins
  <2>2. Playing' => Playing
    BY <1>2, <2>1
  <2> QED BY <1>0, <2>1, <2>2 DEF Due
<1>13. ASSUME StopEnds PROVE Goal
  <2>1. /\ phase = "stopping" /\ phase' = "off" /\ UNCHANGED <<session, streams, turn, listen>>
        /\ output' = NoOutput
    BY <1>13, Zenon DEF StopEnds
  <2>2. Playing' => Playing
    BY <1>3, <2>1
  <2> QED BY <1>0, <2>1, <2>2 DEF Due
<1>14. ASSUME RequestStart \/ ConnectFails \/ AnnounceProject \/ SwitchBegins \/ SwitchCleared \/ ReconnectFails
       PROVE  Goal
  <2>1. /\ UNCHANGED <<session, streams, turn, listen>>
        /\ output' = output \/ output' = NoOutput
        /\ \/ phase \in {"off", "connecting"} /\ phase' \in {"asked", "off"}
           \/ phase \in {"greeting", "on", "clearing"} /\ phase' \in {"on", "clearing", "reconnecting"}
           \/ phase = "reconnecting" /\ phase' = "off"
    BY <1>14, Zenon DEF RequestStart, ConnectFails, AnnounceProject, SwitchBegins, SwitchCleared, ReconnectFails,
       ToolCall, ReaderFree
  <2>2. Playing' => Playing
    BY <1>2, <1>3, <2>1
  <2> QED BY <1>0, <2>1, <2>2 DEF Due
<1>15. ASSUME Connected \/ Reconnected PROVE Goal
  <2>1. /\ UNCHANGED <<streams, turn, listen, output>> /\ session' = session + 1
        /\ \/ phase = "connecting" /\ phase' \in {"greeting", "on"}
           \/ phase = "reconnecting" /\ phase' = "greeting"
    BY <1>15, Zenon DEF Connected, Reconnected
  <2>2. Playing' => Playing
    BY <1>2, <2>1
  <2> QED BY <1>0, <2>1, <2>2 DEF Due
<1>16. Goal
  <2> HIDE DEF Goal
  <2> QED
    BY <1>4, <1>5, <1>6, <1>7, <1>8, <1>9, <1>10, <1>11, <1>12, <1>13, <1>14, <1>15, Zenon
       DEF Quiet, Playback, Tools, Voice, Session
<1> QED BY <1>0, <1>16

\* Speech stays whole in a quiet step.
LEMMA SpeechQuiet ==
  ASSUME Control, GatesOK, SpeechOK, Quiet
  PROVE  SpeechOK'
<1>1. captured' = captured /\ passed' = passed
  BY QuietGates
<1>2. /\ Due \in Nat /\ Due' \in Nat /\ streams \in Nat /\ streams' \in Nat /\ turn \in Nat /\ turn' \in Nat
      /\ Due <= Due' /\ streams <= streams' /\ turn <= turn'
      /\ Playing' => Playing \/ streams < streams'
      /\ \/ listen' = listen /\ (phase = "stopping" => phase' = "stopping" \/ Due < Due')
         \/ Playing
         \/ turn < turn'
         \/ phase' = "stopping"
  BY NowQuiet
<1>3. ASSUME NEW f \in DOMAIN captured, captured[f].kind = "listening"
      PROVE  /\ Earlier(captured[f].at) /\ (Playing => captured[f].at.stream < streams)
             /\ captured[f].at.session \in Nat /\ captured[f].at.stream \in Nat /\ captured[f].at.turn \in Nat
  <2>1. captured[f] \in Met
    BY DEF GatesOK
  <2> QED BY <1>3, <2>1, MetPower DEF SpeechOK
<1>4. ASSUME NEW f \in DOMAIN captured, captured[f].kind = "listening"
      PROVE  Earlier(captured[f].at)' /\ (Playing' => captured'[f].at.stream < streams')
             /\ (ListenPower = 0 => f \in passed')
  <2>1. /\ captured[f].at.session <= Due' /\ captured[f].at.stream <= streams' /\ captured[f].at.turn <= turn'
        /\ Playing' => captured[f].at.stream < streams'
    BY <1>2, <1>3, <1>4 DEF Earlier
  <2> QED BY <1>1, <1>4, <2>1 DEF Earlier, SpeechOK
<1>5. ASSUME ListenPower > 0, phase' # "stopping", NEW f \in DOMAIN captured, Run(captured, f), IsNow(captured[f].at)'
      PROVE  RunHeld(captured, f)'
  <2>1. captured[f].kind = "listening"
    <3>1. f \in f .. Len(captured)
      BY DEF GatesOK
    <3> QED BY <1>5, <3>1 DEF Run
  <2>2. captured[f].at.session = Due' /\ captured[f].at.stream = streams' /\ captured[f].at.turn = turn'
    BY <1>1, <1>5 DEF IsNow
  <2>3. Due' = Due /\ streams' = streams /\ turn' = turn /\ ~Playing
    BY <1>2, <1>3, <2>1, <2>2 DEF Earlier
  <2>4. listen' = listen /\ phase # "stopping"
    BY <1>2, <1>5, <2>3
  <2>5. IsNow(captured[f].at)
    BY <2>2, <2>3 DEF IsNow
  <2>6. RunHeld(captured, f)
    BY <1>5, <2>4, <2>5 DEF SpeechOK
  <2> QED BY <1>1, <2>4, <2>6 DEF RunHeld
<1>6. SpeechIsWhole'
  BY <1>1 DEF SpeechOK, SpeechIsWhole, Loud, Power
<1>7. DOMAIN captured' = DOMAIN captured /\ \A f \in DOMAIN captured : captured'[f] = captured[f]
  BY <1>1
<1>8. \A f \in DOMAIN captured' : captured'[f].kind = "listening" =>
        /\ (Earlier(captured[f].at))'
        /\ (Playing' => captured'[f].at.stream < streams') /\ (ListenPower = 0 => f \in passed')
  BY <1>1, <1>4
<1>9. ListenPower > 0 /\ phase' # "stopping" =>
        \A f \in DOMAIN captured' : Run(captured', f) /\ (IsNow(captured[f].at))' => (RunHeld(captured, f))'
  BY <1>1, <1>5
<1> QED BY <1>6, <1>8, <1>9 DEF SpeechOK

\* A window slides over a run that does not fill it without losing any of it.
LEMMA SlideKeepsRun ==
  ASSUME NEW w \in Seq(Nat), Rising(w), NEW n \in Nat \ {0}, Len(w) <= n, NEW x \in Nat, \A g \in Range(w) : g < x,
         NEW f \in Nat, f .. x - 1 \subseteq Range(w), x < f + n
  PROVE  f .. x \subseteq Range(Slide(w, n, x))
<1>1. Range(Slide(w, n, x)) = (Range(w) \ Leaving(w, n)) \cup {x}
  BY SlideRange
<1>2. Range(w) = {w[i] : i \in 1 .. Len(w)} /\ Len(w) \in Nat /\ DOMAIN w = 1 .. Len(w)
  BY SeqRange
<1>3. ASSUME NEW k \in f .. x - 1, k \in Leaving(w, n) PROVE FALSE
  <2>1. Len(w) = n /\ k = w[1]
    BY <1>3 DEF Leaving
  <2>2. \A i \in 1 .. n : w[i] \in f .. x - 1
    <3> TAKE i \in 1 .. n
    <3>1. w[i] \in Nat /\ w[i] < x /\ 1 \in DOMAIN w /\ i \in DOMAIN w
      BY <1>2, <2>1
    <3>2. w[1] <= w[i]
      <4>1. CASE i = 1
        BY <3>1, <4>1
      <4>2. CASE 1 < i
        BY <2>1, <3>1, <4>2 DEF Rising
      <4> QED BY <4>1, <4>2
    <3> QED BY <2>1, <3>1, <3>2
  <2>3. w \in [1 .. n -> f .. x - 1]
    BY <1>2, <2>1, <2>2
  <2>4. /\ IsFiniteSet(1 .. n) /\ Cardinality(1 .. n) = n
        /\ IsFiniteSet(f .. x - 1) /\ Cardinality(f .. x - 1) < n
    <3>1. 1 \in Int /\ n \in Int /\ ~(1 > n) /\ n - 1 + 1 = n
      OBVIOUS
    <3>2. f \in Int /\ x - 1 \in Int /\ (x - 1) - f + 1 < n /\ 0 < n
      OBVIOUS
    <3>3. IsFiniteSet(1 .. n) /\ Cardinality(1 .. n) = n
      BY <3>1, FS_Interval
    <3>4. IsFiniteSet(f .. x - 1) /\ (Cardinality(f .. x - 1) = 0 \/ Cardinality(f .. x - 1) = (x - 1) - f + 1)
      BY <3>2, FS_Interval
    <3>5. Cardinality(f .. x - 1) < n
      BY <3>2, <3>4
    <3> QED BY <3>3, <3>4, <3>5
  <2>5. PICK i, j \in 1 .. n : i # j /\ w[i] = w[j]
    BY <2>3, <2>4, FS_PigeonHole
  <2>6. (i < j => w[i] < w[j]) /\ (j < i => w[j] < w[i])
    BY <1>2, <2>1 DEF Rising
  <2>7. w[i] \in Nat
    BY <1>2, <2>1
  <2> QED BY <2>5, <2>6, <2>7
<1>4. \A k \in f .. x : k \in f .. x - 1 \/ k = x
  OBVIOUS
<1> QED BY <1>1, <1>3, <1>4

\* A run that is as long as its window fills it.
LEMMA RunFills ==
  ASSUME NEW v \in Seq(Nat), NEW n \in Nat \ {0}, Len(v) <= n, NEW f \in Nat, NEW x \in Nat, x = f + n - 1,
         NEW S \in SUBSET Range(v), f .. x \subseteq S
  PROVE  Len(v) = n /\ Cardinality(S) >= n
<1>1. IsFiniteSet(Range(v)) /\ Len(v) \in Nat
  BY SeqRange
<1>2. Cardinality(f .. x) = n
  <2>1. f \in Int /\ x \in Int /\ ~(f > x) /\ x - f + 1 = n
    OBVIOUS
  <2> QED BY <2>1, FS_Interval
<1>3. IsFiniteSet(S) /\ Cardinality(S) <= Cardinality(Range(v))
  BY <1>1, FS_Subset
<1>4. Cardinality(f .. x) <= Cardinality(S)
  BY <1>3, FS_Subset
<1>5. Cardinality(Range(v)) <= Len(v)
  <2>1. 1 \in Int /\ Len(v) \in Int /\ (1 > Len(v) => Len(v) = 0) /\ Len(v) - 1 + 1 = Len(v)
    BY <1>1
  <2>2. IsFiniteSet(1 .. Len(v)) /\ Cardinality(1 .. Len(v)) = Len(v)
    <3> DEFINE l == Len(v)
    <3> HIDE DEF l
    <3>1. l \in Int /\ IsFiniteSet(1 .. l) /\ Cardinality(1 .. l) = IF 1 > l THEN 0 ELSE l - 1 + 1
      BY <2>1, FS_Interval DEF l
    <3> QED BY <2>1, <3>1 DEF l
  <2>3. v \in Surjection(1 .. Len(v), Range(v))
    <3>1. Range(v) = {v[i] : i \in 1 .. Len(v)}
      BY SeqRange
    <3>2. v \in [1 .. Len(v) -> Range(v)]
      BY <3>1
    <3>3. \A y \in Range(v) : \E i \in 1 .. Len(v) : v[i] = y
      BY <3>1
    <3> QED BY <3>2, <3>3, Zenon DEF Surjection
  <2>4. Cardinality(Range(v)) <= Cardinality(1 .. Len(v))
    BY <2>2, <2>3, FS_Surjection
  <2> QED BY <2>2, <2>4
<1>6. Cardinality(S) \in Nat /\ Cardinality(Range(v)) \in Nat
  BY <1>1, <1>3, FS_CardinalityType
<1> QED BY <1>1, <1>2, <1>3, <1>4, <1>5, <1>6

\* The frame that arrives takes a run of speech on.
LEMMA RunReceive ==
  ASSUME Control, GatesOK, QueueOK, SpeechOK, GatesOK', ListenPower > 0, NEW p \in Powers, NEW m \in Met,
         captured' = Append(captured, m), Comes(m, p), Said(m, p), UNCHANGED phase,
         NEW f \in 1 .. Arrived, Run(captured', f), IsNow(m.at)
  PROVE  IF listen'.open THEN f .. Arrived \subseteq passed'
         ELSE f .. Arrived \subseteq Range(listen'.window) /\ Arrived + 1 < f + ListenWindow
<1> DEFINE n == Len(captured)
           x == Arrived
<1>1. /\ captured \in Seq(Met) /\ x = n + 1 /\ x \in Nat \ {0} /\ n \in Nat /\ Held \subseteq 1 .. n
      /\ Len(captured') = x /\ captured'[x] = m /\ \A h \in 1 .. n : captured'[h] = captured[h]
      /\ listen.window \in Seq(Nat) /\ Rising(listen.window) /\ Len(listen.window) <= ListenWindow
      /\ SpeechWindow \in Seq(Nat) /\ Len(SpeechWindow) <= ListenWindow /\ x \in Range(SpeechWindow)
  BY ArrivedIs, FrameLater, WindowsWith DEF GatesOK
<1>2. accepting /\ m.power = p /\ phase # "stopping" /\ ListenPower # 0 /\ ListenWindow \in Nat \ {0}
  BY Limits DEF Said, Control, PhasesOK
<1>3. f \in Nat \ {0} /\ f <= x /\ \A k \in f .. x : k \in 1 .. x
  BY <1>1
<1> HIDE DEF n, x
<1>4. \A h \in f .. x : captured'[h].kind = "listening" /\ captured'[h].power >= ListenPower
                        /\ captured'[h].at = captured'[f].at
  BY <1>1 DEF Run
<1>5. m.power >= ListenPower /\ IsNow(captured'[f].at)
  <2>1. x \in f .. x
    BY <1>1, <1>3
  <2> QED BY <1>1, <1>4, <2>1
\* Up to here it was a run, and it was held as one.
<1>6. f < x => RunHeld(captured, f)
  <2> SUFFICES ASSUME f < x PROVE RunHeld(captured, f)
    OBVIOUS
  <2>1. f \in 1 .. n /\ \A h \in f .. n : h \in f .. x /\ h \in 1 .. n
    BY <1>1, <1>3
  <2>2. captured[f] = captured'[f] /\ \A h \in f .. n : captured[h] = captured'[h]
    BY <1>1, <2>1
  <2>3. Run(captured, f)
    BY <1>4, <2>1, <2>2 DEF Run, n
  <2>4. IsNow(captured[f].at) /\ f \in DOMAIN captured
    BY <1>1, <1>5, <2>1, <2>2 DEF n
  <2> QED BY <1>2, <2>3, <2>4 DEF SpeechOK
\* The gate that was closed has all of it in its window.
<1>7. ASSUME ~listen.open PROVE f .. x \subseteq Range(SpeechWindow) /\ x < f + ListenWindow
  <2>1. CASE f = x
    <3>1. f .. x = {x}
      BY <1>1, <2>1
    <3> QED BY <1>1, <1>2, <2>1, <3>1
  <2>2. CASE f < x
    <3>1. f .. n \subseteq Range(listen.window) /\ n + 1 < f + ListenWindow
      BY <1>6, <1>7, <2>2 DEF RunHeld, n
    <3>2. n = x - 1 /\ x < f + ListenWindow
      BY <1>1, <3>1
    <3>3. \A g \in Range(listen.window) : g < x
      BY <1>1 DEF Held
    <3>4. f .. x \subseteq Range(Slide(listen.window, ListenWindow, x))
      BY <1>1, <1>2, <1>3, <3>1, <3>2, <3>3, SlideKeepsRun
    <3> QED BY <3>2, <3>4 DEF SpeechWindow, x
  <2> QED BY <1>1, <1>3, <2>1, <2>2
<1>8. CASE Spoken(m, p)
  <2>1. listen.open /\ listen'.open = listen.open /\ Passes(<<x>>)
    <3>1. listen.open
      BY <1>2, <1>8 DEF Spoken
    <3> QED BY <1>8, <3>1, SaidWindows DEF x
  <2>2. passed' = passed \cup {x}
    <3>1. Range(<<x>>) = {x} /\ x # Silence
      BY <1>1 DEF Range, Silence
    <3> QED BY <1>2, <2>1, <3>1 DEF Passes
  <2>3. f < x => f .. n \subseteq passed
    BY <1>6, <2>1 DEF RunHeld, n
  <2>4. \A k \in f .. x : k = x \/ (f < x /\ k \in f .. n)
    BY <1>1, <1>3
  <2> QED BY <2>1, <2>2, <2>3, <2>4 DEF x
<1>9. CASE SpeaksUp(m, p)
  <2>1. ~listen.open /\ listen'.open = TRUE /\ Passes(SpeechWindow)
    <3>1. ~listen.open
      BY <1>9 DEF SpeaksUp
    <3> QED BY <1>9, <3>1, SaidWindows
  <2>2. passed' = passed \cup (Range(SpeechWindow) \ {Silence})
    BY <1>2, <2>1 DEF Passes
  <2>3. \A k \in f .. x : k # Silence
    BY <1>3 DEF Silence
  <2> QED BY <1>7, <2>1, <2>2, <2>3 DEF x
<1>10. CASE Gathers(m, p)
  <2>1. /\ ~listen.open /\ listen'.open = FALSE /\ listen'.window = SpeechWindow
        /\ ~ListenQualifies(listen')
    <3>1. ~listen.open
      BY <1>10 DEF Gathers
    <3> QED BY <1>10, <3>1, SaidWindows
  <2>2. f .. x \subseteq Range(SpeechWindow) /\ x < f + ListenWindow
    BY <1>7, <2>1
  <2>3. x + 1 # f + ListenWindow
    <3> SUFFICES ASSUME x + 1 = f + ListenWindow PROVE FALSE
      OBVIOUS
    <3> DEFINE loud == {g \in Range(SpeechWindow) : captured'[g].power >= ListenPower}
    <3>1. listen'.active = Cardinality(loud)
      BY <2>1 DEF GatesOK, ListenHolds
    <3>2. f .. x \subseteq loud /\ loud \in SUBSET Range(SpeechWindow)
      BY <1>4, <2>2
    <3> HIDE DEF loud
    <3>3. x = f + ListenWindow - 1
      BY <1>1, <1>2, <1>3
    <3>4. Len(SpeechWindow) = ListenWindow /\ Cardinality(loud) >= ListenWindow
      <4> DEFINE v == SpeechWindow
      <4>1. v \in Seq(Nat) /\ Len(v) <= ListenWindow /\ f \in Nat /\ x \in Nat /\ ListenWindow \in Nat \ {0}
            /\ loud \in SUBSET Range(v)
        BY <1>1, <1>2, <1>3, <3>2
      <4> HIDE DEF v
      <4> QED BY <3>2, <3>3, <4>1, RunFills DEF v
    <3>5. ListenMin <= ListenWindow /\ ListenMin \in Nat /\ Cardinality(loud) \in Int
      <4>1. ListenMin <= ListenWindow /\ ListenMin \in Nat
        BY Limits
      <4>2. listen' \in ListenGates
        BY DEF GatesOK, ListenHolds
      <4>3. listen'.active \in Int
        BY <4>2 DEF ListenGates
      <4> QED BY <3>1, <4>1, <4>3
    <3>6. ListenQualifies(listen')
      BY <1>2, <2>1, <3>1, <3>4, <3>5 DEF ListenQualifies
    <3> QED BY <2>1, <3>6
  <2>4. x + 1 < f + ListenWindow
    BY <1>1, <1>2, <1>3, <2>2, <2>3
  <2> QED BY <2>1, <2>2, <2>4 DEF x
<1>11. ~FallsSilent(m, p)
  <2> SUFFICES ASSUME FallsSilent(m, p) PROVE FALSE
    OBVIOUS
  <2>1. QuietNext(p) >= ListenRelease
    BY DEF FallsSilent
  <2>2. QuietNext(p) = 0
    BY <1>2, <1>5 DEF QuietNext
  <2> QED BY <2>1, <2>2, Limits
<1>12. ~Ignored(m) /\ ~Over(m, p)
  BY DEF Said, Ignored, Over
<1> QED BY <1>8, <1>9, <1>10, <1>11, <1>12, Zenon DEF Comes, Echoes, BargesIn, GoesOn

\* Speech stays whole when a frame arrives.
LEMMA SpeechReceive ==
  ASSUME Control, GatesOK, QueueOK, SpeechOK, NEW p \in Powers, Receive(p)
  PROVE  SpeechOK'
<1>1. PICK m \in Met : captured' = Append(captured, m) /\ Len(captured) < MaxFrames /\ Comes(m, p)
  BY ReceiveArrives
<1>2. UNCHANGED <<phase, session, streams, turn, output, guard, tail, bargeIn>>
  BY ReceiveLeaves
<1>3. /\ captured \in Seq(Met) /\ Arrived = Len(captured) + 1 /\ Arrived \in Nat /\ Len(captured) \in Nat
      /\ DOMAIN captured = 1 .. Len(captured) /\ DOMAIN captured' = 1 .. Arrived /\ Len(captured') = Arrived
      /\ captured'[Arrived] = m /\ \A h \in 1 .. Len(captured) : captured'[h] = captured[h]
      /\ \A h \in 1 .. Arrived : h \in 1 .. Len(captured) \/ h = Arrived
  <2>1. /\ captured \in Seq(Met) /\ Arrived = Len(captured) + 1 /\ Arrived \in Nat /\ Len(captured) \in Nat
        /\ captured' \in Seq(Met) /\ Len(captured') = Len(captured) + 1
        /\ captured'[Arrived] = m /\ \A h \in 1 .. Len(captured) : captured'[h] = captured[h]
    BY <1>1, ArrivedIs, FrameLater DEF GatesOK
  <2> QED BY <2>1
<1>4. GatesOK'
  BY <1>1, <1>2, GatesReceive
<1>5. Due' = Due /\ (Playing' <=> Playing)
  BY <1>2 DEF Due, Playing
<1>6. passed \subseteq passed'
  <2>1. ASSUME NEW fs, Passes(fs) PROVE passed \subseteq passed'
    BY <2>1 DEF Passes
  <2> QED BY <1>1, <2>1, ComesOut DEF Blanks, LetsOut
<1>7. m.kind = "listening" => Said(m, p)
  BY <1>1 DEF Comes, Ignored, Echoes, BargesIn, GoesOn, Over, Spoken, Gathers, SpeaksUp, FallsSilent
<1>8. Said(m, p) => ~Playing /\ accepting /\ IsNow(m.at) /\ phase # "stopping"
  BY MomentIsDue DEF Said, IsNow, Control, PhasesOK
<1>9. ASSUME m.kind = "listening", ListenPower = 0 PROVE Arrived \in passed'
  <2>1. Said(m, p) /\ accepting
    BY <1>7, <1>8, <1>9
  <2>2. ~Ignored(m) /\ ~Over(m, p)
    BY <2>1 DEF Said, Ignored, Over
  <2>3. Spoken(m, p)
    BY <1>1, <1>9, <2>2, Limits DEF Comes, Echoes, BargesIn, GoesOn, Gathers, SpeaksUp, FallsSilent
  <2>4. Passes(<<Arrived>>) /\ Range(<<Arrived>>) = {Arrived} /\ Arrived # Silence
    BY <1>3, <2>3 DEF Spoken, Range, Silence
  <2> QED BY <2>1, <2>4 DEF Passes
<1>10. ASSUME NEW f \in 1 .. Arrived, captured'[f].kind = "listening"
       PROVE  /\ captured'[f].at.session <= Due /\ captured'[f].at.stream <= streams /\ captured'[f].at.turn <= turn
              /\ Playing => captured'[f].at.stream < streams
              /\ ListenPower = 0 => f \in passed'
  <2>1. CASE f \in 1 .. Len(captured)
    <3>1. captured'[f] = captured[f] /\ f \in DOMAIN captured
      BY <1>3, <2>1
    <3> QED BY <1>6, <1>10, <3>1 DEF SpeechOK, Earlier
  <2>2. CASE f = Arrived
    <3>1. ~Playing /\ IsNow(m.at) /\ captured'[f] = m
      BY <1>3, <1>7, <1>8, <1>10, <2>2
    <3>2. Due \in Nat /\ streams \in Nat /\ turn \in Nat
      BY DEF Control, CountsOK, OutputOK, Due
    <3> QED BY <1>9, <1>10, <2>2, <3>1, <3>2 DEF IsNow
  <2> QED BY <1>3, <2>1, <2>2
<1>11. ASSUME ListenPower > 0, NEW f \in 1 .. Arrived, Run(captured', f)
       PROVE  IF listen'.open THEN f .. Arrived \subseteq passed'
              ELSE f .. Arrived \subseteq Range(listen'.window) /\ Arrived + 1 < f + ListenWindow
  <2>1. captured'[Arrived].kind = "listening"
    <3>1. Arrived \in f .. Len(captured')
      BY <1>3
    <3> QED BY <1>11, <3>1 DEF Run
  <2>2. Said(m, p) /\ IsNow(m.at)
    BY <1>3, <1>7, <1>8, <2>1
  <2>3. phase' = phase
    BY <1>2
  <2> QED BY <1>1, <1>4, <1>11, <2>2, <2>3, RunReceive
<1>12. SpeechIsWhole'
  <2> SUFFICES ASSUME NEW f \in 1 .. Arrived, NEW g \in 1 .. Arrived,
                      g >= f + ListenWindow - 1,
                      \A h \in f .. g : /\ captured'[h].kind = "listening" /\ captured'[h].power >= ListenPower
                                        /\ captured'[h].at = captured'[f].at
               PROVE  f .. g \subseteq passed'
    BY <1>3 DEF SpeechIsWhole, Loud, Power
  <2>1. ListenWindow \in Nat \ {0} /\ f \in Nat /\ g \in Nat /\ f <= g
    <3>1. ListenWindow \in Nat \ {0} /\ f \in Nat /\ g \in Nat
      BY Limits
    <3> QED BY <3>1
  <2>2. CASE g \in 1 .. Len(captured)
    <3>1. f \in 1 .. Len(captured) /\ \A h \in f .. g : h \in 1 .. Len(captured)
      BY <1>3, <2>1, <2>2
    <3>2. captured[f] = captured'[f] /\ \A h \in f .. g : captured[h] = captured'[h]
      BY <1>3, <3>1
    <3>3. \A h \in f .. g : /\ captured[h].kind = "listening" /\ Loud(h)
                            /\ captured[h].at = captured[f].at
      BY <3>2 DEF Loud, Power
    <3>4. f .. g \subseteq passed
      BY <1>3, <2>2, <3>1, <3>3 DEF SpeechOK, SpeechIsWhole
    <3> QED BY <1>6, <3>4
  <2>3. CASE g = Arrived
    <3>1. Run(captured', f)
      BY <1>3, <2>3 DEF Run
    <3>2. CASE ListenPower = 0
      <4>1. \A h \in f .. g : h \in 1 .. Arrived
        BY <1>3, <2>1, <2>3
      <4> QED BY <1>10, <3>2, <4>1
    <3>3. CASE ListenPower > 0
      <4>1. ~(Arrived + 1 < f + ListenWindow)
        BY <2>1, <2>3
      <4> QED BY <1>11, <2>3, <3>1, <3>3, <4>1
    <3> QED BY <3>2, <3>3, Limits
  <2> QED BY <1>3, <2>2, <2>3
<1>13. \A f \in 1 .. Arrived : captured'[f].kind = "listening" =>
         /\ (Earlier(captured[f].at))'
         /\ (Playing' => captured'[f].at.stream < streams') /\ (ListenPower = 0 => f \in passed')
  BY <1>2, <1>5, <1>10 DEF Earlier
<1>14. ListenPower > 0 =>
         \A f \in 1 .. Arrived : Run(captured', f) => (RunHeld(captured, f))'
  BY <1>3, <1>11 DEF RunHeld
<1> QED BY <1>3, <1>12, <1>13, <1>14 DEF SpeechOK

LEMMA SpeechStep ==
  ASSUME Control, GatesOK, QueueOK, SpeechOK, [Next]_vars
  PROVE  SpeechOK'
<1>1. CASE UNCHANGED vars
  <2>1. UNCHANGED <<captured, passed, listen, output, phase, session, streams, turn>>
    BY <1>1, Zenon DEF vars
  <2> QED
    BY <2>1 DEF SpeechOK, SpeechIsWhole, Loud, Power, Earlier, Run, RunHeld, IsNow, Due, Playing
<1> QED BY <1>1, SpeechQuiet, SpeechReceive, NextIs

LEMMA SpeechAlways == Spec => []SpeechOK
<1>1. Init => SpeechOK
  BY DEF Init, SpeechOK, SpeechIsWhole
<1> QED BY <1>1, ControlAlways, GatesAlways, QueueAlways, SpeechStep, PTL DEF Spec

\* Who goes on speaking up for a window's length is heard from the first frame on: the frames
\* _check_listening_level held back leave with the one that opens the gate.
THEOREM SpeechAlwaysWhole == Spec => []SpeechIsWhole
  BY SpeechAlways, PTL DEF SpeechOK
=============================================================================
