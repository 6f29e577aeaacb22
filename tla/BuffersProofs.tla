--------------------------- MODULE BuffersProofs ---------------------------
(***************************************************************************)
(* Proofs about Buffers: the owners' books, the owners' lives, the frame   *)
(* in the writer's hands, dead handles, and that the library keeps the     *)
(* promise of Loans.  The argument follows the set of tokens the library   *)
(* can still read (Live): every step leaves it alone, adds the one token   *)
(* it admits, or drops some and queues exactly their releases.             *)
(***************************************************************************)
EXTENDS Buffers, TLAPS, FiniteSetTheorems

(* Sums over sets of tokens.                                               *)
(* The element a sum takes first, and what it leaves.                      *)
Pick(s) == CHOOSE x \in s : TRUE
Rest(s) == s \ {Pick(s)}
(* A table of the sums of a set's subsets, as the fold builds it, and the  *)
(* sum itself.                                                             *)
IsSum(g, U) ==
    g = [s \in SUBSET U |-> IF s = {} THEN 0 ELSE Size[Pick(s)] + g[Rest(s)]]
SumOf(U) == MapThenSumSet(LAMBDA t : Size[t], U)

(* The fold of the library is an entry of such a table.                    *)
LEMMA SumUnfold == \A U : SumOf(U) = (CHOOSE g : IsSum(g, U))[U]
  BY DEF SumOf, MapThenSumSet, MapThenFoldSet, IsSum, Pick, Rest

(* Induction over a finite set: a nonempty family of its subsets has a     *)
(* member without a smaller one.                                           *)
LEMMA SmallestSet ==
  ASSUME NEW U, IsFiniteSet(U), NEW T \in SUBSET SUBSET U, T # {}
  PROVE  \E m \in T : \A k \in T : k \subseteq m => k = m
<1>1. IsWellFoundedOn(StrictSubsetOrdering(U), SUBSET U)
  BY FS_FiniteSubsetsOfFinite, FS_StrictSubsetOrderingWellFounded
<1>2. PICK m \in T : \A k \in T : <<k, m>> \notin StrictSubsetOrdering(U)
  BY <1>1, WFMin
<1> QED BY <1>2 DEF StrictSubsetOrdering

(* Taking the first element out leaves a smaller set.                      *)
LEMMA RestSmaller ==
    \A s : s # {} => Pick(s) \in s /\ Rest(s) \subseteq s /\ Rest(s) # s
  BY DEF Pick, Rest

(* Two tables agree where they overlap.                                    *)
LEMMA SumUnique ==
  ASSUME NEW A, IsFiniteSet(A), NEW B, NEW g, NEW h, IsSum(g, A), IsSum(h, B),
         NEW s \in SUBSET (A \cap B)
  PROVE  g[s] = h[s]
<1> DEFINE Bad == {r \in SUBSET A : r \subseteq B /\ g[r] # h[r]}
<1> SUFFICES ASSUME Bad # {} PROVE FALSE
  OBVIOUS
<1>1. PICK r \in Bad : \A k \in Bad : k \subseteq r => k = r
  <2> HIDE DEF Bad
  <2>1. Bad \in SUBSET SUBSET A BY DEF Bad
  <2> QED BY <2>1, SmallestSet
<1>2. r # {} 
  BY DEF IsSum
<1>3. /\ g[r] = Size[Pick(r)] + g[Rest(r)]
      /\ h[r] = Size[Pick(r)] + h[Rest(r)]
  BY <1>2 DEF IsSum
<1>4. Rest(r) \notin Bad /\ Rest(r) \subseteq A /\ Rest(r) \subseteq B
  BY <1>1, <1>2, RestSmaller
<1>5. g[Rest(r)] = h[Rest(r)]
  BY <1>4
<1> QED BY <1>3, <1>5

(* Every finite set has a table.                                           *)
LEMMA SumExists ==
  ASSUME NEW U, IsFiniteSet(U)
  PROVE  \E g : IsSum(g, U)
<1> DEFINE Bad == {V \in SUBSET U : ~ \E g : IsSum(g, V)}
<1> SUFFICES ASSUME Bad # {} PROVE FALSE
  <2> HIDE DEF IsSum
  <2> QED OBVIOUS
<1>1. PICK V \in Bad : \A k \in Bad : k \subseteq V => k = V
  <2> HIDE DEF Bad
  <2>1. Bad \in SUBSET SUBSET U BY DEF Bad
  <2> QED BY <2>1, SmallestSet
<1>2. \A r \in SUBSET V : r # V => \E g : IsSum(g, r)
  BY <1>1
<1> DEFINE F(r) == CHOOSE g : IsSum(g, r)
<1>3. \A r \in SUBSET V : r # V => IsSum(F(r), r)
  BY <1>2
<1> DEFINE G == [s \in SUBSET V |->
                    IF s = {} THEN 0 ELSE Size[Pick(s)] + F(Rest(s))[Rest(s)]]
<1>4. ASSUME NEW s \in SUBSET V, s # {} PROVE G[Rest(s)] = F(Rest(s))[Rest(s)]
  <2> DEFINE r == Rest(s)
  <2>1. r \subseteq V /\ r # V /\ IsFiniteSet(V)
    BY <1>4, RestSmaller, FS_Subset
  <2>2. IsSum(F(r), r) /\ IsFiniteSet(r)
    BY <2>1, <1>3, FS_Subset
  <2>3. CASE r = {}
    BY <2>2, <2>3 DEF IsSum
  <2>4. CASE r # {}
    <3>1. F(r)[r] = Size[Pick(r)] + F(r)[Rest(r)]
      BY <2>2, <2>4 DEF IsSum
    <3>2. Rest(r) \subseteq r /\ Rest(r) \subseteq V /\ Rest(r) # V
      BY <2>1, <2>4, RestSmaller
    <3>3. IsSum(F(Rest(r)), Rest(r))
      BY <3>2, <1>3
    <3>4. F(r)[Rest(r)] = F(Rest(r))[Rest(r)]
      <4> HIDE DEF F, r
      <4> QED BY <2>2, <3>2, <3>3, SumUnique
    <3>5. G[r] = Size[Pick(r)] + F(Rest(r))[Rest(r)]
      BY <2>1, <2>4
    <3> QED BY <3>1, <3>4, <3>5
  <2> QED BY <2>3, <2>4
<1>5. \A s \in SUBSET V :
         G[s] = IF s = {} THEN 0 ELSE Size[Pick(s)] + F(Rest(s))[Rest(s)]
  <2> HIDE DEF F
  <2> QED OBVIOUS
<1>6. G = [s \in SUBSET V |-> G[s]]
  <2> HIDE DEF F
  <2> QED OBVIOUS
<1>7. IsSum(G, V)
  <2> HIDE DEF G, F
  <2>1. \A s \in SUBSET V :
           G[s] = IF s = {} THEN 0 ELSE Size[Pick(s)] + G[Rest(s)]
    BY <1>4, <1>5
  <2> QED BY <1>6, <2>1 DEF IsSum
<1> QED BY <1>1, <1>7

(* The sum is that of the first element and the rest.                      *)
LEMMA SumStep ==
  ASSUME NEW U, IsFiniteSet(U)
  PROVE  SumOf(U) = IF U = {} THEN 0 ELSE Size[Pick(U)] + SumOf(Rest(U))
<1> DEFINE F(r) == CHOOSE g : IsSum(g, r)
<1>1. IsSum(F(U), U)
  BY SumExists
<1>2. CASE U = {}
  <2>1. F(U)[U] = 0
    BY <1>1, <1>2 DEF IsSum
  <2> QED BY <2>1, <1>2, SumUnfold
<1>3. CASE U # {}
  <2>1. F(U)[U] = Size[Pick(U)] + F(U)[Rest(U)]
    BY <1>1, <1>3 DEF IsSum
  <2>2. Rest(U) \subseteq U /\ IsFiniteSet(Rest(U))
    BY <1>3, RestSmaller, FS_Subset
  <2>3. IsSum(F(Rest(U)), Rest(U))
    BY <2>2, SumExists
  <2>4. F(U)[Rest(U)] = F(Rest(U))[Rest(U)]
    <3> HIDE DEF F
    <3> QED BY <1>1, <2>2, <2>3, SumUnique
  <2> QED BY <2>1, <2>4, <1>3, SumUnfold
<1> QED BY <1>2, <1>3

(* The bytes of a set of tokens are a natural number.                      *)
LEMMA SumType ==
  ASSUME NEW U \in SUBSET Token
  PROVE  SumOf(U) \in Nat
<1> DEFINE Bad == {r \in SUBSET Token : SumOf(r) \notin Nat}
<1> SUFFICES ASSUME Bad # {} PROVE FALSE
  OBVIOUS
<1>0. IsFiniteSet(Token) /\ Size \in [Token -> Nat]
  BY BuffersAssumption
<1>1. PICK r \in Bad : \A k \in Bad : k \subseteq r => k = r
  <2> HIDE DEF Bad
  <2>1. Bad \in SUBSET SUBSET Token BY DEF Bad
  <2> QED BY <1>0, <2>1, SmallestSet
<1>2. IsFiniteSet(r) /\ r \subseteq Token /\ SumOf(r) \notin Nat
  BY <1>0, FS_Subset
<1>3. r # {} /\ SumOf(r) = Size[Pick(r)] + SumOf(Rest(r))
  BY <1>2, SumStep
<1>4. Rest(r) \notin Bad /\ Rest(r) \subseteq Token /\ Pick(r) \in Token
  BY <1>1, <1>2, <1>3, RestSmaller
<1> QED BY <1>0, <1>2, <1>3, <1>4

(* One more token adds its bytes, whatever the order of the fold.          *)
LEMMA SumAdd ==
  ASSUME NEW U \in SUBSET Token, NEW t \in Token, t \notin U
  PROVE  SumOf(U \cup {t}) = SumOf(U) + Size[t]
<1> DEFINE Bad == {r \in SUBSET Token :
                     \E x \in Token \ r : SumOf(r \cup {x}) # SumOf(r) + Size[x]}
<1> SUFFICES ASSUME Bad # {} PROVE FALSE
  OBVIOUS
<1>0. IsFiniteSet(Token) /\ Size \in [Token -> Nat]
  BY BuffersAssumption
<1>1. PICK r \in Bad : \A k \in Bad : k \subseteq r => k = r
  <2> HIDE DEF Bad
  <2>1. Bad \in SUBSET SUBSET Token BY DEF Bad
  <2> QED BY <1>0, <2>1, SmallestSet
<1>2. PICK x \in Token \ r : SumOf(r \cup {x}) # SumOf(r) + Size[x]
  BY <1>1
<1> DEFINE y == Pick(r \cup {x})
<1>3. r \subseteq Token /\ IsFiniteSet(r) /\ IsFiniteSet(r \cup {x}) /\ y \in r \cup {x}
  BY <1>0, FS_Subset, FS_AddElement, RestSmaller
<1>4. SumOf(r \cup {x}) = Size[y] + SumOf((r \cup {x}) \ {y})
  BY <1>3, SumStep DEF Rest
<1>5. CASE y = x
  <2>1. (r \cup {x}) \ {x} = r
    OBVIOUS
  <2>2. SumOf(r) \in Nat /\ Size[x] \in Nat
    BY <1>0, <1>3, SumType
  <2>3. SumOf(r \cup {x}) = Size[x] + SumOf(r)
    <3> HIDE DEF y
    <3> QED BY <1>4, <1>5, <2>1
  <2> QED BY <1>2, <2>2, <2>3
<1>6. CASE y # x
  <2> DEFINE q == r \ {y}
  <2>1. y \in r /\ (r \cup {x}) \ {y} = q \cup {x} /\ q \cup {y} = r /\ q \subseteq Token
    BY <1>3, <1>6
  <2>2. q \notin Bad
    BY <1>1, <2>1
  <2>3. SumOf(q \cup {x}) = SumOf(q) + Size[x] /\ SumOf(q \cup {y}) = SumOf(q) + Size[y]
    BY <2>1, <2>2
  <2>4. SumOf(q) \in Nat /\ Size[x] \in Nat /\ Size[y] \in Nat
    BY <1>0, <1>3, <2>1, SumType
  <2> HIDE DEF y, q
  <2> QED BY <1>2, <1>4, <2>1, <2>3, <2>4
<1> QED BY <1>5, <1>6
(* The tokens the library can read, by who keeps them.                     *)
SlotTokens == {t \in Token : InSlot(t)}
ViewTokens == {t \in Token : views[t] > 0}
FrameTokens == {t \in Token : InFrame(t)}
QueueTokens == {t \in Token : InQueue(t)}
WriterTokens == {t \in Token : InWriter(t)}
RegTokens == {t \in Token : InRegistration(t)}
Live == {t \in Token : Referenced(t)}
OutTokens == QueueTokens \cup WriterTokens

(* A queued release is of a distinct token of the owner, on loan and read  *)
(* by nothing.                                                             *)
ReleasesDue ==
    \A o \in Owner :
        /\ IsInjective(releases[o])
        /\ \A i \in DOMAIN releases[o] :
              /\ Home[releases[o][i]] = o /\ token[releases[o][i]] = "lent"
              /\ releases[o][i] \notin Live
(* A token on loan is readable or its release is queued.                   *)
LentOrDue ==
    \A t \in Token : token[t] = "lent" =>
        t \in Live \/ \E i \in DOMAIN releases[Home[t]] : releases[Home[t]][i] = t
(* What the library can read is on loan.                                   *)
LiveLent == \A t \in Live : token[t] = "lent"
(* The token a callback runs for has been given back.                      *)
CallingReturned ==
    \A o \in Owner : calling[o] # None =>
        Home[calling[o]] = o /\ token[calling[o]] = "returned"
(* A registration at work has a live owner, a slot of its own, reserved,   *)
(* and until admission a token that is still the producer's.               *)
RegistrationSound ==
    \A o \in Owner : reg[o] # NoReg =>
        /\ o \in owners /\ Home[reg[o].token] = o
        /\ reg[o].handle < next /\ storage[reg[o].handle] = "Reserved"
        /\ reg[o].stage = "reserved" => token[reg[o].token] = "producer"
        /\ \A p \in Owner : p # o /\ reg[p] # NoReg => reg[p].handle # reg[o].handle
(* A slot not handed out is empty; a mutable buffer is the library's.      *)
SlotsSound ==
    \A h \in Handle :
        /\ h >= next => storage[h] = "None"
        /\ storage[h] = "Mutable" => alloc[h] = heap
(* An owner that is not registered has no loan and no call at work.        *)
GoneIdle == \A o \in Owner \ owners : leases[o] = 0 /\ reg[o] = NoReg
(* A frame keeps what its segments read, and some range has bytes.         *)
FrameSound(fr) ==
    /\ fr.control \in fr.owners
    /\ \A i \in DOMAIN fr.segments : fr.segments[i] \subseteq fr.owners
    /\ \E i \in DOMAIN fr.segments : fr.segments[i] # {}
(* Frames are below the next handle, sound and counted.                    *)
FramesSound ==
    /\ FramesCounted
    /\ \A f \in FrameHandle : frames[f] # None => f < frameNext /\ FrameSound(frames[f])
(* A queued frame keeps every allocation it was made of.                   *)
QueueAnchored ==
    \A i \in DOMAIN queue : queue[i].owners \subseteq UNION Range(queue[i].segments)
(* LeasesCharged but for the length of the release queues, which follows.  *)
LeasesCounted ==
    \A o \in Owner :
        /\ leases[o] = Cardinality(Charged(o)) /\ leases[o] <= MaxLeases
        /\ bytes[o] = SumOf(Charged(o)) /\ bytes[o] <= MaxBytes
-----------------------------------------------------------------------------
(* The limits are natural numbers.                                         *)
LEMMA Bounds ==
    /\ MaxOwners \in Nat /\ MaxBytes \in Nat /\ MaxLeases \in Nat /\ MaxHandle \in Nat
    /\ MaxFrame \in Nat /\ MaxFrames \in Nat /\ Capacity \in Nat /\ MaxViews \in Nat
    /\ LastHeap \in Nat
  BY BuffersAssumption

(* What the producers' tokens are.                                         *)
LEMMA Constants ==
    /\ IsFiniteSet(Owner) /\ IsFiniteSet(Token)
    /\ Home \in [Token -> Owner] /\ Size \in [Token -> Nat] /\ heap \notin Token
  BY BuffersAssumption

(* The sequence of a finite set has each of its elements once.             *)
LEMMA SetToSeqProperties ==
  ASSUME NEW S, IsFiniteSet(S)
  PROVE  /\ SetToSeq(S) \in Seq(S) /\ IsInjective(SetToSeq(S))
         /\ \A x \in S : \E i \in DOMAIN SetToSeq(S) : SetToSeq(S)[i] = x
<1> DEFINE n == Cardinality(S)
<1>1. n \in Nat /\ ExistsBijection(1..n, S)
  BY FS_CardinalityType
<1>2. \E f \in [1..n -> S] : IsInjective(f)
  BY <1>1 DEF ExistsBijection, Bijection, Injection
<1>3. SetToSeq(S) \in [1..n -> S] /\ IsInjective(SetToSeq(S))
  BY <1>2 DEF SetToSeq
<1> DEFINE q == SetToSeq(S)
<1>4. q \in Injection(1..n, S)
  BY <1>3 DEF Injection
<1>5. IsFiniteSet(1..n) /\ Cardinality(1..n) = n
  BY <1>1, FS_Interval
<1>6. q \in Surjection(1..n, S)
  <2> HIDE DEF q
  <2> QED BY <1>4, <1>5, FS_Injection
<1>7. q \in Seq(S) /\ DOMAIN q = 1..n
  BY <1>1, <1>3
<1> QED BY <1>3, <1>6, <1>7 DEF Surjection

(* The readable tokens are those of the holders together.                  *)
LEMMA LiveParts ==
    Live = SlotTokens \cup ViewTokens \cup FrameTokens \cup OutTokens \cup RegTokens
  BY DEF Live, SlotTokens, ViewTokens, FrameTokens, OutTokens, QueueTokens, WriterTokens,
         RegTokens, Referenced

(* DropLoans in terms of the tokens no longer readable.                    *)
LEMMA DropLoansOfLive ==
  ASSUME DropLoans
  PROVE  releases' = [o \in Owner |->
             releases[o] \o SetToSeq({t \in Token : Home[t] = o /\ t \in Live \ Live'})]
<1>1. ASSUME NEW o \in Owner
      PROVE  releases'[o] = 
             releases[o] \o SetToSeq({t \in Token : Home[t] = o /\ t \in Live \ Live'})
  BY DEF DropLoans, Live, Referenced, InSlot, InFrame, InQueue, InWriter, InRegistration
<1> QED BY <1>1 DEF DropLoans, Referenced, InSlot, InFrame, InQueue, InWriter, InRegistration

(* What DropLoans does with the queue of an owner.                         *)
LEMMA DropLoansProperties ==
  ASSUME TypeOK, DropLoans
  PROVE  /\ releases' \in [Owner -> Seq(Token)]
         /\ \A o \in Owner : \E q \in Seq(Token) :
               /\ releases'[o] = releases[o] \o q /\ IsInjective(q)
               /\ \A i \in DOMAIN q : Home[q[i]] = o /\ q[i] \in Live \ Live'
               /\ \A t \in Live \ Live' : Home[t] = o => \E i \in DOMAIN q : q[i] = t
<1> DEFINE S(o) == {t \in Token : Home[t] = o /\ t \in Live \ Live'}
<1>1. releases' = [o \in Owner |-> releases[o] \o SetToSeq(S(o))]
  BY DropLoansOfLive
<1>2. ASSUME NEW o \in Owner
      PROVE  /\ SetToSeq(S(o)) \in Seq(Token) /\ IsInjective(SetToSeq(S(o)))
             /\ \A i \in DOMAIN SetToSeq(S(o)) : SetToSeq(S(o))[i] \in S(o)
             /\ \A x \in S(o) : \E i \in DOMAIN SetToSeq(S(o)) : SetToSeq(S(o))[i] = x
  <2> DEFINE T == S(o)
  <2>1. T \subseteq Token /\ IsFiniteSet(T)
    BY Constants, FS_Subset
  <2> HIDE DEF T
  <2>2. SetToSeq(T) \in Seq(T) /\ IsInjective(SetToSeq(T))
         /\ \A x \in T : \E i \in DOMAIN SetToSeq(T) : SetToSeq(T)[i] = x
    BY <2>1, SetToSeqProperties
  <2>3. SetToSeq(T) \in Seq(Token) /\ \A i \in DOMAIN SetToSeq(T) : SetToSeq(T)[i] \in T
    BY <2>1, <2>2
  <2> QED BY <2>2, <2>3 DEF T
<1>3. \A o \in Owner : releases'[o] = releases[o] \o SetToSeq(S(o))
  BY <1>1
<1>4. releases' \in [Owner -> Seq(Token)]
  <2> HIDE DEF S
  <2> QED BY <1>1, <1>2 DEF TypeOK
<1>5. ASSUME NEW o \in Owner
      PROVE \E q \in Seq(Token) :
               /\ releases'[o] = releases[o] \o q /\ IsInjective(q)
               /\ \A i \in DOMAIN q : Home[q[i]] = o /\ q[i] \in Live \ Live'
               /\ \A t \in Live \ Live' : Home[t] = o => \E i \in DOMAIN q : q[i] = t
  <2>1. releases'[o] = releases[o] \o SetToSeq(S(o))
    BY <1>3
  <2>2. \A t \in Live \ Live' : Home[t] = o => t \in S(o)
    BY DEF Live
  <2>3. \A x \in S(o) : Home[x] = o /\ x \in Live \ Live'
    OBVIOUS
  <2> HIDE DEF S
  <2> QED BY <2>1, <2>2, <2>3, <1>2
<1> QED BY <1>4, <1>5
-----------------------------------------------------------------------------
(* A set of positions has a least one, so that Min is one of them.         *)
LEMMA MinIn ==
  ASSUME NEW n \in Nat, NEW S \in SUBSET (1..n), S # {}
  PROVE  Min(S) \in S
<1> DEFINE T == {1..k : k \in S}
<1>1. IsFiniteSet(1..n)
  BY FS_Interval
<1>2. T \in SUBSET SUBSET (1..n) /\ T # {}
  <2>1. ASSUME NEW k \in S PROVE (1..k) \subseteq (1..n)
    BY k \in 1..n
  <2> QED BY <2>1
<1>3. PICK m \in T : \A k \in T : k \subseteq m => k = m
  <2> DEFINE U == 1..n
  <2>1. IsFiniteSet(U) /\ T \in SUBSET SUBSET U /\ T # {}
    BY <1>1, <1>2
  <2> HIDE DEF T, U
  <2> QED BY <2>1, SmallestSet
<1>4. PICK x \in S : m = 1..x
  BY <1>3
<1>5. ASSUME NEW y \in S, y < x PROVE FALSE
  <2>1. 1..y \subseteq 1..x /\ 1..y \in T
    BY <1>5
  <2>2. 1..y = 1..x
    BY <2>1, <1>3, <1>4
  <2>3. x \in 1..x /\ x \notin 1..y
    BY <1>5
  <2> QED BY <2>2, <2>3
<1>6. \A y \in S : x <= y
  BY <1>5
<1> QED BY <1>6 DEF Min

(* Two handles make a frame.                                               *)
LEMMA FrameOfType ==
  ASSUME TypeOK, NEW h1 \in Handle, NEW h2 \in Handle
  PROVE  FrameOf(<<h1, h2>>) \in Frame
<1> DEFINE hs == <<h1, h2>>
           sg == [i \in DOMAIN hs |-> Kept(hs[i])]
<1>1. DOMAIN hs = 1..2 /\ \A i \in 1..2 : hs[i] \in Handle
  OBVIOUS
<1>2. \A h \in Handle : Kept(h) \subseteq Alloc
  BY DEF Kept, TypeOK
<1>3. sg \in Seq(SUBSET Alloc)
  <2>1. sg \in [1..2 -> SUBSET Alloc]
    BY <1>1, <1>2
  <2> QED BY <2>1
<1>4. {alloc[hs[i]] : i \in DOMAIN hs} \subseteq Alloc /\ alloc[hs[1]] \in Alloc
  BY <1>1 DEF TypeOK
<1> QED BY <1>3, <1>4 DEF FrameOf, Frame

(* A submission keeps the frame's shape, and its owners are all behind its *)
(* segments when some range has bytes.                                     *)
LEMMA SubmissionProperties ==
  ASSUME NEW fr \in Frame
  PROVE  /\ Submission(fr) \in Outbound
         /\ (\E i \in DOMAIN fr.segments : fr.segments[i] # {})
              => fr.owners \subseteq UNION Range(Submission(fr).segments)
         /\ Submission(fr).owners = fr.owners
         /\ (\A i \in DOMAIN fr.segments : fr.segments[i] \subseteq fr.owners)
              => UNION Range(Submission(fr).segments) \subseteq fr.owners
<1> DEFINE S == {i \in DOMAIN fr.segments : fr.segments[i] # {}}
           m == Min(S)
           sg == [fr.segments EXCEPT ![m] = fr.owners]
<1>1. fr.segments \in Seq(SUBSET Alloc) /\ fr.owners \in SUBSET Alloc
  BY DEF Frame
<1>2. Submission(fr) = [owners |-> fr.owners, segments |-> sg]
  BY DEF Submission
<1>3. sg \in Seq(SUBSET Alloc) /\ DOMAIN sg = DOMAIN fr.segments
  <2> DEFINE n == Len(fr.segments)
  <2>1. n \in Nat /\ DOMAIN fr.segments = 1..n /\ \A i \in 1..n : fr.segments[i] \in SUBSET Alloc
    BY <1>1
  <2> HIDE DEF m, n
  <2>2. sg \in [1..n -> SUBSET Alloc]
    BY <1>1, <2>1
  <2> QED BY <2>1, <2>2
<1>4. \A i \in DOMAIN sg : sg[i] = IF i = m THEN fr.owners ELSE fr.segments[i]
  <2> HIDE DEF m
  <2> QED BY <1>1
<1>5. ASSUME S # {} PROVE m \in DOMAIN sg
  <2>1. S \subseteq 1..Len(fr.segments) /\ Len(fr.segments) \in Nat
    BY <1>1
  <2> HIDE DEF S
  <2>2. m \in S
    BY <1>5, <2>1, MinIn
  <2> QED BY <2>2, <1>3 DEF S
<1>6. ASSUME \E i \in DOMAIN fr.segments : fr.segments[i] # {}
      PROVE  fr.owners \subseteq UNION Range(sg)
  <2>1. m \in DOMAIN sg
    BY <1>5, <1>6
  <2>2. sg[m] = fr.owners
    BY <2>1, <1>4
  <2> HIDE DEF sg, m
  <2> QED BY <2>1, <2>2 DEF Range
<1>7. ASSUME \A i \in DOMAIN fr.segments : fr.segments[i] \subseteq fr.owners
      PROVE  UNION Range(sg) \subseteq fr.owners
  <2>1. \A i \in DOMAIN sg : sg[i] \subseteq fr.owners
    <3> HIDE DEF sg, m
    <3> QED BY <1>3, <1>4, <1>7
  <2> HIDE DEF sg, m
  <2> QED BY <2>1 DEF Range
<1>8. Submission(fr) \in Outbound
  <2> HIDE DEF sg
  <2> QED BY <1>1, <1>2, <1>3 DEF Outbound
<1> HIDE DEF sg
<1> QED BY <1>2, <1>6, <1>7, <1>8
-----------------------------------------------------------------------------
(* The initial state is typed.                                             *)
LEMMA TypeInit == Init => TypeOK
<1> SUFFICES ASSUME Init PROVE TypeOK
  OBVIOUS
<1> QED BY Bounds DEF Init, TypeOK, Alloc, Handle, FrameHandle

(* The producer's steps keep the types, given the books'.                  *)
LEMMA ProducerType ==
  ASSUME TypeOK, NEW o \in Owner, ProducerNext(o), bytes' \in [Owner -> Nat], leases' \in [Owner -> Nat]
  PROVE  TypeOK'
<1> USE DEF ownerVars, leaseVars, slotVars, frameVars, connVars, outVars
<1>1. CASE CreateOwner(o) BY <1>1 DEF CreateOwner, TypeOK
<1>2. CASE CloseOwner(o) BY <1>2 DEF CloseOwner, TypeOK
<1>3. CASE DestroyOwner(o) BY <1>3 DEF DestroyOwner, TypeOK
<1>4. ASSUME NEW t \in Token, NEW ne \in BOOLEAN, RegisterReserve(o, t, ne) PROVE TypeOK'
  <2>1. next \in Handle /\ next' \in 1..(MaxHandle + 1)
    BY <1>4, Bounds DEF RegisterReserve, TypeOK, Handle
  <2>2. [stage |-> "reserved", token |-> t, handle |-> next, nonempty |-> ne] \in Registration
    BY <2>1 DEF Registration
  <2> QED BY <1>4, <2>1, <2>2 DEF RegisterReserve, TypeOK
<1>5. CASE RegisterAdmit(o)
  <2>1. reg[o] \in Registration
    BY <1>5 DEF RegisterAdmit, TypeOK, NoReg
  <2>2. reg[o].token \in Token /\ [reg[o] EXCEPT !.stage = "admitted"] \in Registration
    BY <2>1 DEF Registration
  <2>3. reg' \in [Owner -> Registration \cup {NoReg}]
    BY <1>5, <2>2 DEF RegisterAdmit, TypeOK
  <2>4. token' \in [Token -> {"producer", "lent", "returned"}]
        /\ storage' \in [Handle -> {"None", "Reserved", "Mutable", "Frozen"}]
    BY <1>5, <2>2 DEF RegisterAdmit, TypeOK
  <2> QED BY <1>5, <2>3, <2>4 DEF RegisterAdmit, TypeOK
<1>6. CASE RegisterCommit(o)
  <2>1. reg[o] \in Registration
    BY <1>6 DEF RegisterCommit, TypeOK, NoReg
  <2>2. reg[o].token \in Alloc /\ reg[o].nonempty \in BOOLEAN
    BY <2>1 DEF Registration, Alloc
  <2>3. storage' \in [Handle -> {"None", "Reserved", "Mutable", "Frozen"}]
        /\ alloc' \in [Handle -> Alloc] /\ nonempty' \in [Handle -> BOOLEAN]
    BY <1>6, <2>2 DEF RegisterCommit, TypeOK
  <2> QED BY <1>6, <2>3 DEF RegisterCommit, TypeOK
<1>7. CASE DispatchBegin(o) BY <1>7 DEF DispatchBegin, TypeOK
<1>8. CASE DispatchCall(o)
  <2>1. releases[o] \in Seq(Token) /\ releases[o] # <<>>
    BY <1>8 DEF DispatchCall, TypeOK
  <2>2. Head(releases[o]) \in Token /\ Tail(releases[o]) \in Seq(Token)
    BY <2>1
  <2> QED BY <1>8, <2>2 DEF DispatchCall, TypeOK
<1>9. CASE DispatchReturn(o) BY <1>9 DEF DispatchReturn, TypeOK
<1>10. CASE DispatchEnd(o) BY <1>10 DEF DispatchEnd, TypeOK
<1> QED BY <1>1, <1>2, <1>3, <1>4, <1>5, <1>6, <1>7, <1>8, <1>9, <1>10 DEF ProducerNext

(* A new slot is typed.                                                    *)
LEMMA InsertType ==
  ASSUME TypeOK, NEW kind \in {"Mutable", "Frozen"}, NEW a \in Alloc, NEW ne \in BOOLEAN,
         Insert(kind, a, ne)
  PROVE  /\ next' \in 1..(MaxHandle + 1)
         /\ storage' \in [Handle -> {"None", "Reserved", "Mutable", "Frozen"}]
         /\ alloc' \in [Handle -> Alloc] /\ nonempty' \in [Handle -> BOOLEAN]
  BY Bounds DEF Insert, TypeOK, Handle

(* An emptied slot is typed.                                               *)
LEMMA RemoveType ==
  ASSUME TypeOK, NEW h \in Handle, RemoveSlot(h)
  PROVE  /\ next' \in 1..(MaxHandle + 1)
         /\ storage' \in [Handle -> {"None", "Reserved", "Mutable", "Frozen"}]
         /\ alloc' \in [Handle -> Alloc] /\ nonempty' \in [Handle -> BOOLEAN]
  BY DEF RemoveSlot, TypeOK, Alloc

(* The buffer handles' steps keep the types.                               *)
LEMMA BufferType ==
  ASSUME TypeOK, BufferNext
  PROVE  TypeOK'
<1> USE DEF ownerVars, leaseVars, slotVars, frameVars, connVars, outVars
<1>1. CASE Allocate
  <2>1. Insert("Mutable", heap, TRUE) /\ heap \in Alloc
    BY <1>1 DEF Allocate, Alloc
  <2>2. /\ next' \in 1..(MaxHandle + 1)
        /\ storage' \in [Handle -> {"None", "Reserved", "Mutable", "Frozen"}]
        /\ alloc' \in [Handle -> Alloc] /\ nonempty' \in [Handle -> BOOLEAN]
    BY <2>1, InsertType
  <2> QED BY <1>1, <2>2 DEF Allocate, TypeOK
<1>2. ASSUME NEW h \in Handle, ReleaseHandle(h) PROVE TypeOK'
  <2>1. releases' \in [Owner -> Seq(Token)]
    BY <1>2, DropLoansProperties DEF ReleaseHandle
  <2>2. /\ next' \in 1..(MaxHandle + 1)
        /\ storage' \in [Handle -> {"None", "Reserved", "Mutable", "Frozen"}]
        /\ alloc' \in [Handle -> Alloc] /\ nonempty' \in [Handle -> BOOLEAN]
    BY <1>2, RemoveType DEF ReleaseHandle
  <2> QED BY <1>2, <2>1, <2>2 DEF ReleaseHandle, TypeOK
<1>3. ASSUME NEW h \in Handle, Export(h) PROVE TypeOK'
  <2>1. views' \in [Token -> 0..MaxViews]
    BY <1>3, Bounds DEF Export, TypeOK, Alloc
  <2> QED BY <1>3, <2>1 DEF Export, TypeOK
<1>4. ASSUME NEW h \in Handle, NEW ne \in BOOLEAN, Freeze(h, ne) PROVE TypeOK'
  BY <1>4 DEF Freeze, TypeOK
<1>5. ASSUME NEW h \in Handle, NEW ne \in BOOLEAN, Slice(h, ne) PROVE TypeOK'
  <2>1. Insert("Frozen", alloc[h], ne) /\ alloc[h] \in Alloc
    BY <1>5 DEF Slice, TypeOK
  <2>2. /\ next' \in 1..(MaxHandle + 1)
        /\ storage' \in [Handle -> {"None", "Reserved", "Mutable", "Frozen"}]
        /\ alloc' \in [Handle -> Alloc] /\ nonempty' \in [Handle -> BOOLEAN]
    BY <2>1, InsertType
  <2> QED BY <1>5, <2>2 DEF Slice, TypeOK
<1>6. ASSUME NEW t \in Token, ViewFinalizer(t) PROVE TypeOK'
  <2>1. releases' \in [Owner -> Seq(Token)]
    BY <1>6, DropLoansProperties DEF ViewFinalizer
  <2>2. views' \in [Token -> 0..MaxViews]
    BY <1>6, Bounds DEF ViewFinalizer, TypeOK
  <2> QED BY <1>6, <2>1, <2>2 DEF ViewFinalizer, TypeOK
<1> QED BY <1>1, <1>2, <1>3, <1>4, <1>5, <1>6 DEF BufferNext

(* The queue stays typed.                                                  *)
LEMMA EnqueueType ==
  ASSUME TypeOK, NEW fr \in Outbound, Enqueue(fr)
  PROVE  queue' \in Seq(Outbound)
  BY DEF Enqueue, TypeOK

(* A segment is a set of allocations.                                      *)
LEMMA KeptType == ASSUME TypeOK, NEW h \in Handle PROVE Kept(h) \in SUBSET Alloc
  BY DEF Kept, TypeOK

(* A new frame is typed and within the limits.                             *)
LEMMA InsertFrameType ==
  ASSUME TypeOK, NEW fr \in Frame, InsertFrame(fr)
  PROVE  /\ frameNext' \in 1..(MaxFrame + 1) /\ frameCount' \in 0..MaxFrames
         /\ frames' \in [FrameHandle -> Frame \cup {None}]
  BY Bounds DEF InsertFrame, TypeOK, FrameHandle

(* A frame in the table, and its count is above zero.                      *)
LEMMA TakeFrameType ==
  ASSUME TypeOK, FramesCounted, NEW f \in FrameHandle, TakeFrame(f)
  PROVE  /\ frameNext' \in 1..(MaxFrame + 1) /\ frameCount' \in 0..MaxFrames
         /\ frames' \in [FrameHandle -> Frame \cup {None}] /\ frames[f] \in Frame
<1> DEFINE S == {g \in FrameHandle : frames[g] # None}
<1>1. f \in S /\ IsFiniteSet(S)
  <2>1. IsFiniteSet(FrameHandle)
    BY Bounds, FS_Interval DEF FrameHandle
  <2> QED BY <2>1, FS_Subset DEF TakeFrame
<1>2. frameCount # 0
  <2>1. frameCount = Cardinality(S)
    BY DEF FramesCounted
  <2> HIDE DEF S
  <2> QED BY <1>1, <2>1, FS_EmptySet
<1> QED BY <1>2, Bounds DEF TakeFrame, TypeOK

(* The frames' steps keep the types.                                       *)
LEMMA FrameType ==
  ASSUME TypeOK, FramesCounted, FrameNext
  PROVE  TypeOK'
<1> USE DEF ownerVars, leaseVars, slotVars, frameVars, connVars, outVars
<1>1. ASSUME NEW c \in Handle, NEW b \in Handle, Compose(c, b) PROVE TypeOK'
  <2>1. /\ frameNext' \in 1..(MaxFrame + 1) /\ frameCount' \in 0..MaxFrames
        /\ frames' \in [FrameHandle -> Frame \cup {None}]
    BY <1>1, FrameOfType, InsertFrameType DEF Compose
  <2> QED BY <1>1, <2>1 DEF Compose, TypeOK
<1>2. ASSUME NEW c \in Handle, NEW b \in Handle, SendSegments(c, b) PROVE TypeOK'
  <2>1. Submission(FrameOf(<<c, b>>)) \in Outbound
    BY FrameOfType, SubmissionProperties
  <2>2. queue' \in Seq(Outbound)
    BY <1>2, <2>1, EnqueueType DEF SendSegments
  <2> QED BY <1>2, <2>2 DEF SendSegments, TypeOK
<1>3. ASSUME NEW h \in Handle, SendBuffer(h) PROVE TypeOK'
  <2>1. releases' \in [Owner -> Seq(Token)]
    BY <1>3, DropLoansProperties DEF SendBuffer
  <2>2. /\ next' \in 1..(MaxHandle + 1)
        /\ storage' \in [Handle -> {"None", "Reserved", "Mutable", "Frozen"}]
        /\ alloc' \in [Handle -> Alloc] /\ nonempty' \in [Handle -> BOOLEAN]
    BY <1>3, RemoveType DEF SendBuffer
  <2>3. [owners |-> Kept(h), segments |-> <<Kept(h)>>] \in Outbound
    BY KeptType DEF Outbound
  <2>4. queue' \in Seq(Outbound)
    BY <1>3, <2>3, EnqueueType DEF SendBuffer
  <2> QED BY <1>3, <2>1, <2>2, <2>4 DEF SendBuffer, TypeOK
<1>4. ASSUME NEW f \in FrameHandle, RetainFrame(f) PROVE TypeOK'
  <2>1. frames[f] \in Frame
    BY <1>4 DEF RetainFrame, TypeOK
  <2>2. /\ frameNext' \in 1..(MaxFrame + 1) /\ frameCount' \in 0..MaxFrames
        /\ frames' \in [FrameHandle -> Frame \cup {None}]
    BY <1>4, <2>1, InsertFrameType DEF RetainFrame
  <2> QED BY <1>4, <2>2 DEF RetainFrame, TypeOK
<1>5. ASSUME NEW f \in FrameHandle, ReleaseFrame(f) PROVE TypeOK'
  <2>1. releases' \in [Owner -> Seq(Token)]
    BY <1>5, DropLoansProperties DEF ReleaseFrame
  <2>2. /\ frameNext' \in 1..(MaxFrame + 1) /\ frameCount' \in 0..MaxFrames
        /\ frames' \in [FrameHandle -> Frame \cup {None}]
    BY <1>5, TakeFrameType DEF ReleaseFrame
  <2> QED BY <1>5, <2>1, <2>2 DEF ReleaseFrame, TypeOK
<1>6. ASSUME NEW f \in FrameHandle, FrameControl(f) PROVE TypeOK'
  <2>1. frames[f] \in Frame
    BY <1>6 DEF FrameControl, TypeOK
  <2>2. Insert("Frozen", frames[f].control, TRUE) /\ frames[f].control \in Alloc
    BY <1>6, <2>1 DEF FrameControl, Frame
  <2>3. /\ next' \in 1..(MaxHandle + 1)
        /\ storage' \in [Handle -> {"None", "Reserved", "Mutable", "Frozen"}]
        /\ alloc' \in [Handle -> Alloc] /\ nonempty' \in [Handle -> BOOLEAN]
    BY <2>2, InsertType
  <2> QED BY <1>6, <2>3 DEF FrameControl, TypeOK
<1>7. ASSUME NEW f \in FrameHandle, SendFrame(f) PROVE TypeOK'
  <2>1. releases' \in [Owner -> Seq(Token)]
    BY <1>7, DropLoansProperties DEF SendFrame
  <2>2. /\ frameNext' \in 1..(MaxFrame + 1) /\ frameCount' \in 0..MaxFrames
        /\ frames' \in [FrameHandle -> Frame \cup {None}] /\ frames[f] \in Frame
    BY <1>7, TakeFrameType DEF SendFrame
  <2>3. Submission(frames[f]) \in Outbound
    BY <2>2, SubmissionProperties
  <2>4. queue' \in Seq(Outbound)
    BY <1>7, <2>3, EnqueueType DEF SendFrame, TypeOK
  <2> QED BY <1>7, <2>1, <2>2, <2>4 DEF SendFrame, TypeOK
<1> QED BY <1>1, <1>2, <1>3, <1>4, <1>5, <1>6, <1>7 DEF FrameNext

(* What the writer has left of a frame after one more segment.             *)
LEMMA WriterWritesProperties ==
  ASSUME TypeOK, WriterWrites
  PROVE  /\ writing \in Writing /\ writing' \in Writing
         /\ writing'.owners = writing.owners
         /\ DOMAIN writing'.segments = DOMAIN writing.segments
         /\ \A i \in DOMAIN writing.segments : writing'.segments[i] \subseteq writing.segments[i]
         /\ transport = "WebSocket" => writing'.segments = writing.segments
<1> DEFINE sg == writing.segments
           w == writing.at
           n == Len(sg)
           new == IF transport = "RawSocket" THEN [sg EXCEPT ![w] = {}] ELSE sg
<1>1. writing \in Writing
  BY DEF TypeOK, WriterWrites
<1>2. sg \in Seq(SUBSET Alloc) /\ w \in Nat /\ writing.owners \in SUBSET Alloc
  BY <1>1 DEF Writing
<1>3. n \in Nat /\ sg \in [1..n -> SUBSET Alloc] /\ w <= n
  BY <1>2 DEF WriterWrites
<1>4. writing' = [writing EXCEPT !.at = w + 1, !.segments = new]
  BY DEF WriterWrites
<1>5. writing' = [owners |-> writing.owners, segments |-> new, at |-> w + 1]
  <2> HIDE DEF new
  <2> QED BY <1>1, <1>4 DEF Writing
<1>6. new \in [1..n -> SUBSET Alloc] /\ \A i \in 1..n : new[i] \subseteq sg[i]
  <2> HIDE DEF sg, n, w
  <2> QED BY <1>3
<1>7. new \in Seq(SUBSET Alloc)
  <2> HIDE DEF new, n
  <2> QED BY <1>3, <1>6
<1>8. transport = "WebSocket" => new = sg
  OBVIOUS
<1> HIDE DEF new
<1> QED BY <1>1, <1>2, <1>3, <1>5, <1>6, <1>7, <1>8 DEF Writing

(* The writer's steps keep the types.                                      *)
LEMMA WriterType ==
  ASSUME TypeOK, WriterNext
  PROVE  TypeOK'
<1> USE DEF writerUnchanged, ownerVars, leaseVars, slotVars, frameVars, connVars, outVars
<1>1. CASE WriterTakes
  <2>1. Head(queue) \in Outbound /\ Tail(queue) \in Seq(Outbound)
    BY <1>1 DEF WriterTakes, TypeOK
  <2>2. writing' \in Writing
    BY <1>1, <2>1 DEF WriterTakes, Outbound, Writing
  <2> QED BY <1>1, <2>1, <2>2 DEF WriterTakes, TypeOK
<1>2. CASE WriterWrites
  <2>1. releases' \in [Owner -> Seq(Token)]
    BY <1>2, DropLoansProperties DEF WriterWrites
  <2>2. writing' \in Writing
    BY <1>2, WriterWritesProperties
  <2> QED BY <1>2, <2>1, <2>2 DEF WriterWrites, TypeOK
<1>3. CASE WriterFlushes
  <2>1. releases' \in [Owner -> Seq(Token)]
    BY <1>3, DropLoansProperties DEF WriterFlushes
  <2> QED BY <1>3, <2>1 DEF WriterFlushes, TypeOK
<1>4. CASE ConnectionEnds
  <2>1. releases' \in [Owner -> Seq(Token)]
    BY <1>4, DropLoansProperties DEF ConnectionEnds
  <2>2. queue' = <<>> /\ writing' = None /\ open' = FALSE
    BY <1>4 DEF ConnectionEnds
  <2>3. queue' \in Seq(Outbound)
    BY <2>2
  <2> QED BY <1>4, <2>1, <2>2, <2>3 DEF ConnectionEnds, TypeOK
<1>5. CASE ConnectionBegins BY <1>5 DEF ConnectionBegins, TypeOK
<1> QED BY <1>1, <1>2, <1>3, <1>4, <1>5 DEF WriterNext
-----------------------------------------------------------------------------
(* The loans: the release queue and who still reads a token.               *)
LoansSound == ReleasesDue /\ LentOrDue /\ LiveLent

(* A step that drops nothing leaves the loans sound.                       *)
LEMMA LoansKept ==
  ASSUME TypeOK, LoansSound, Live' = Live, token' = token, releases' = releases
  PROVE  LoansSound'
  BY DEF LoansSound, ReleasesDue, LentOrDue, LiveLent

(* A step that drops references and queues what it drops leaves the loans  *)
(* sound: each release is queued once.                                     *)
LEMMA LoansDropped ==
  ASSUME TypeOK, LoansSound, Live' \subseteq Live, token' = token, DropLoans
  PROVE  LoansSound'
<1>1. ASSUME NEW o \in Owner
      PROVE  /\ IsInjective(releases'[o])
             /\ \A i \in DOMAIN releases'[o] :
                   /\ Home[releases'[o][i]] = o /\ token[releases'[o][i]] = "lent"
                   /\ releases'[o][i] \notin Live'
  <2> DEFINE s == releases[o]
             r == releases'[o]
  <2>1. PICK q \in Seq(Token) :
               /\ releases'[o] = releases[o] \o q /\ IsInjective(q)
               /\ \A i \in DOMAIN q : Home[q[i]] = o /\ q[i] \in Live \ Live'
               /\ \A t \in Live \ Live' : Home[t] = o => \E i \in DOMAIN q : q[i] = t
    BY DropLoansProperties
  <2>2. s \in Seq(Token) /\ IsInjective(s)
    BY DEF TypeOK, LoansSound, ReleasesDue
  <2>3. \A i \in DOMAIN s : Home[s[i]] = o /\ token[s[i]] = "lent" /\ s[i] \notin Live
    BY DEF LoansSound, ReleasesDue
  <2>4. \A i \in DOMAIN q : Home[q[i]] = o /\ token[q[i]] = "lent" /\ q[i] \notin Live' /\ q[i] \in Live
    BY <2>1 DEF LoansSound, LiveLent
  <2>5. /\ Len(s) \in Nat /\ Len(q) \in Nat /\ DOMAIN s = 1..Len(s) /\ DOMAIN q = 1..Len(q)
        /\ DOMAIN r = 1..(Len(s) + Len(q))
        /\ \A i \in DOMAIN r : IF i <= Len(s) THEN r[i] = s[i] ELSE r[i] = q[i - Len(s)]
    BY <2>1, <2>2
  <2> HIDE DEF s, r
  <2>6. \A i \in DOMAIN r : \/ i \in DOMAIN s /\ r[i] = s[i]
                            \/ i > Len(s) /\ (i - Len(s)) \in DOMAIN q /\ r[i] = q[i - Len(s)]
    BY <2>5
  <2>7. \A i \in DOMAIN r : Home[r[i]] = o /\ token[r[i]] = "lent" /\ r[i] \notin Live'
    BY <2>3, <2>4, <2>6
  <2>8. ASSUME NEW i \in DOMAIN r, NEW j \in DOMAIN r, r[i] = r[j] PROVE i = j
    <3>1. CASE i \in DOMAIN s /\ r[i] = s[i]
      <4>1. j \in DOMAIN s /\ r[j] = s[j]
        BY <3>1, <2>3, <2>4, <2>6, <2>8
      <4> QED BY <3>1, <4>1, <2>2, <2>8 DEF IsInjective
    <3>2. CASE i > Len(s) /\ (i - Len(s)) \in DOMAIN q /\ r[i] = q[i - Len(s)]
      <4>1. j > Len(s) /\ (j - Len(s)) \in DOMAIN q /\ r[j] = q[j - Len(s)]
        BY <3>2, <2>3, <2>4, <2>6, <2>8
      <4>2. i - Len(s) = j - Len(s)
        BY <3>2, <4>1, <2>1, <2>8 DEF IsInjective
      <4> QED BY <4>2, <2>5
    <3> QED BY <3>1, <3>2, <2>6
  <2>9. IsInjective(r)
    BY <2>8 DEF IsInjective
  <2> QED BY <2>7, <2>9 DEF r
<1>2. ReleasesDue'
  BY <1>1 DEF ReleasesDue
<1>3. ASSUME NEW t \in Token, token[t] = "lent", t \notin Live'
      PROVE  \E i \in DOMAIN releases'[Home[t]] : releases'[Home[t]][i] = t
  <2> DEFINE o == Home[t]
             s == releases[o]
  <2>1. o \in Owner
    BY Constants
  <2>2. PICK q \in Seq(Token) :
               /\ releases'[o] = releases[o] \o q /\ IsInjective(q)
               /\ \A i \in DOMAIN q : Home[q[i]] = o /\ q[i] \in Live \ Live'
               /\ \A x \in Live \ Live' : Home[x] = o => \E i \in DOMAIN q : q[i] = x
    BY <2>1, DropLoansProperties
  <2>3. s \in Seq(Token)
    BY <2>1 DEF TypeOK
  <2>4. CASE t \in Live
    <3>1. PICK i \in DOMAIN q : q[i] = t
      BY <1>3, <2>2, <2>4
    <3>2. (Len(s) + i) \in DOMAIN (s \o q) /\ (s \o q)[Len(s) + i] = t
      <4> HIDE DEF s
      <4> QED BY <3>1, <2>3
    <3> QED BY <3>2, <2>2
  <2>5. CASE t \notin Live
    <3>1. PICK i \in DOMAIN s : s[i] = t
      BY <1>3, <2>5 DEF LoansSound, LentOrDue
    <3>2. i \in DOMAIN (s \o q) /\ (s \o q)[i] = t
      <4> HIDE DEF s
      <4> QED BY <3>1, <2>3
    <3> QED BY <3>2, <2>2
  <2> QED BY <2>4, <2>5
<1>4. LentOrDue'
  BY <1>3 DEF LentOrDue
<1>5. LiveLent'
  BY DEF LoansSound, LiveLent
<1> QED BY <1>2, <1>4, <1>5 DEF LoansSound
-----------------------------------------------------------------------------
(* What the steps do to the tokens each holder keeps.                      *)
LEMMA SlotsSame == storage' = storage /\ alloc' = alloc => SlotTokens' = SlotTokens
  BY DEF SlotTokens, InSlot
(* Views left alone.                                                       *)
LEMMA ViewsSame == views' = views => ViewTokens' = ViewTokens
  BY DEF ViewTokens
(* Frames left alone.                                                      *)
LEMMA FramesSame == frames' = frames => FrameTokens' = FrameTokens
  BY DEF FrameTokens, InFrame
(* The queue left alone.                                                   *)
LEMMA QueueSame == queue' = queue => QueueTokens' = QueueTokens
  BY DEF QueueTokens, InQueue
(* The writer left alone.                                                  *)
LEMMA WriterSame == writing' = writing => WriterTokens' = WriterTokens
  BY DEF WriterTokens, InWriter
(* Registrations left alone.                                               *)
LEMMA RegsSame == reg' = reg => RegTokens' = RegTokens
  BY DEF RegTokens, InRegistration

(* Queue and writer left alone.                                            *)
LEMMA OutSame == queue' = queue /\ writing' = writing => OutTokens' = OutTokens
  BY QueueSame, WriterSame DEF OutTokens

(* A new slot, of an id never used, adds at most its own token.            *)
LEMMA InsertTokens ==
  ASSUME TypeOK, SlotsSound, NEW kind, NEW a, NEW ne, Insert(kind, a, ne)
  PROVE  SlotTokens' = SlotTokens \cup {t \in Token : kind = "Frozen" /\ t = a}
<1>1. next \in Handle /\ storage[next] = "None"
  BY Bounds DEF Insert, TypeOK, Handle, SlotsSound
<1>2. \A h \in Handle : /\ storage'[h] = IF h = next THEN kind ELSE storage[h]
                        /\ alloc'[h] = IF h = next THEN a ELSE alloc[h]
  BY DEF Insert, TypeOK
<1>3. \A t \in Token : InSlot(t)' <=> InSlot(t) \/ (kind = "Frozen" /\ t = a)
  BY <1>1, <1>2 DEF InSlot
<1> QED BY <1>3 DEF SlotTokens

(* Emptying a slot adds nothing.                                           *)
LEMMA RemoveTokens ==
  ASSUME TypeOK, NEW h \in Handle, RemoveSlot(h)
  PROVE  SlotTokens' \subseteq SlotTokens
<1>1. \A g \in Handle : /\ storage'[g] = IF g = h THEN "None" ELSE storage[g]
                        /\ g # h => alloc'[g] = alloc[g]
  BY DEF RemoveSlot, TypeOK
<1> QED BY <1>1 DEF SlotTokens, InSlot

(* A new frame adds what it owns.                                          *)
LEMMA InsertFrameTokens ==
  ASSUME TypeOK, FramesSound, NEW fr \in Frame, InsertFrame(fr)
  PROVE  FrameTokens' = FrameTokens \cup {t \in Token : t \in fr.owners}
<1>1. frameNext \in FrameHandle /\ frames[frameNext] = None
  BY Bounds DEF InsertFrame, TypeOK, FrameHandle, FramesSound
<1>2. \A f \in FrameHandle : frames'[f] = IF f = frameNext THEN fr ELSE frames[f]
  BY DEF InsertFrame, TypeOK
<1>3. fr # None
  BY NoneAssumption
<1>4. \A t \in Token : InFrame(t)' <=> InFrame(t) \/ t \in fr.owners
  BY <1>1, <1>2, <1>3 DEF InFrame
<1> QED BY <1>4 DEF FrameTokens

(* A frame taken out adds nothing, and what it owned was held.             *)
LEMMA TakeFrameTokens ==
  ASSUME TypeOK, NEW f \in FrameHandle, TakeFrame(f)
  PROVE  /\ FrameTokens' \subseteq FrameTokens
         /\ \A t \in Token : t \in frames[f].owners => t \in FrameTokens
<1>1. \A g \in FrameHandle : frames'[g] = IF g = f THEN None ELSE frames[g]
  BY DEF TakeFrame, TypeOK
<1> QED BY <1>1 DEF FrameTokens, InFrame, TakeFrame

(* Queueing adds at most the frame's segments.                             *)
LEMMA EnqueueTokens ==
  ASSUME TypeOK, NEW fr, Enqueue(fr)
  PROVE  /\ QueueTokens \subseteq QueueTokens'
         /\ \A t \in QueueTokens' : t \in QueueTokens \/ t \in UNION Range(fr.segments)
<1>1. CASE open /\ Len(queue) < Capacity
  <2>1. queue' = Append(queue, fr) /\ queue \in Seq(Outbound)
    BY <1>1 DEF Enqueue, TypeOK
  <2>2. /\ Len(queue) \in Nat /\ DOMAIN queue = 1..Len(queue)
        /\ DOMAIN queue' = 1..(Len(queue) + 1)
        /\ \A i \in 1..Len(queue) : queue'[i] = queue[i]
        /\ queue'[Len(queue) + 1] = fr
    BY <2>1
  <2>3. \A i \in DOMAIN queue : i \in DOMAIN queue' /\ queue'[i] = queue[i]
    BY <2>2
  <2>4. \A i \in DOMAIN queue' : (i \in DOMAIN queue /\ queue'[i] = queue[i]) \/ queue'[i] = fr
    BY <2>2
  <2> QED BY <2>3, <2>4 DEF QueueTokens, InQueue
<1>2. CASE ~(open /\ Len(queue) < Capacity)
  BY <1>2, QueueSame DEF Enqueue
<1> QED BY <1>1, <1>2

(* A frame of two frozen handles owns what they hold.                      *)
LEMMA FrameOfTokens ==
  ASSUME NEW h1 \in Handle, NEW h2 \in Handle, IsFrozen(h1), IsFrozen(h2)
  PROVE  /\ FrameOf(<<h1, h2>>).owners = {alloc[h1], alloc[h2]}
         /\ \A t \in Token : t \in FrameOf(<<h1, h2>>).owners => t \in SlotTokens
         /\ FrameOf(<<h1, h2>>).control = alloc[h1]
         /\ DOMAIN FrameOf(<<h1, h2>>).segments = 1..2
         /\ FrameOf(<<h1, h2>>).segments[1] = Kept(h1)
         /\ FrameOf(<<h1, h2>>).segments[2] = Kept(h2)
         /\ \A i \in 1..2 : FrameOf(<<h1, h2>>).segments[i]
                               \subseteq FrameOf(<<h1, h2>>).owners
<1> DEFINE hs == <<h1, h2>>
           fr == FrameOf(hs)
<1>1. DOMAIN hs = 1..2 /\ hs[1] = h1 /\ hs[2] = h2 /\ \A i \in 1..2 : hs[i] = h1 \/ hs[i] = h2
  OBVIOUS
<1>2. fr.owners = {alloc[hs[i]] : i \in 1..2} /\ fr.control = alloc[h1]
      /\ fr.segments = [i \in 1..2 |-> Kept(hs[i])]
  BY <1>1 DEF FrameOf
<1>3. fr.owners = {alloc[h1], alloc[h2]}
  BY <1>1, <1>2
<1>4. fr.segments[1] = Kept(h1) /\ fr.segments[2] = Kept(h2) /\ DOMAIN fr.segments = 1..2
  BY <1>1, <1>2
<1>5. \A i \in 1..2 : fr.segments[i] \subseteq fr.owners
  BY <1>1, <1>2, <1>3 DEF Kept
<1>6. \A t \in Token : t \in fr.owners => t \in SlotTokens
  BY <1>3 DEF IsFrozen, SlotTokens, InSlot
<1> QED BY <1>2, <1>3, <1>4, <1>5, <1>6
-----------------------------------------------------------------------------
(* The same after a step.                                                  *)
LEMMA LivePartsNext ==
    Live' = SlotTokens' \cup ViewTokens' \cup FrameTokens' \cup OutTokens' \cup RegTokens'
  BY DEF Live, SlotTokens, ViewTokens, FrameTokens, OutTokens, QueueTokens, WriterTokens,
         RegTokens, Referenced, InSlot, InFrame, InQueue, InWriter, InRegistration

(* Steps that keep every reference, the tokens and the release queues.     *)
Quiet == Live' = Live /\ token' = token /\ releases' = releases
(* Steps that may drop references, and queue what they drop.               *)
Dropping == Live' \subseteq Live /\ token' = token /\ DropLoans

(* The producer's steps other than admission and the call of a release     *)
(* drop and add no reference.                                              *)
LEMMA ProducerLive ==
  ASSUME TypeOK, SlotsSound, RegistrationSound, NEW o \in Owner, ProducerNext(o)
  PROVE  Quiet \/ RegisterAdmit(o) \/ DispatchCall(o)
<1> USE DEF ownerVars, leaseVars, slotVars, frameVars, connVars, outVars
<1>1. CASE CreateOwner(o) \/ CloseOwner(o) \/ DestroyOwner(o) \/ DispatchBegin(o)
             \/ DispatchReturn(o) \/ DispatchEnd(o)
  <2>1. UNCHANGED <<slotVars, views, frames, outVars, reg, token, releases>>
    BY <1>1 DEF CreateOwner, CloseOwner, DestroyOwner, DispatchBegin, DispatchReturn,
                DispatchEnd
  <2> QED BY <2>1, LiveParts, LivePartsNext, SlotsSame, ViewsSame, FramesSame, OutSame,
             RegsSame DEF Quiet
<1>2. ASSUME NEW t \in Token, NEW ne \in BOOLEAN, RegisterReserve(o, t, ne) PROVE Quiet
  <2>1. UNCHANGED <<alloc, views, frames, outVars, token, releases>>
    BY <1>2 DEF RegisterReserve
  <2>2. next \in Handle /\ storage[next] = "None"
    BY <1>2, Bounds DEF RegisterReserve, TypeOK, Handle, SlotsSound
  <2>3. \A h \in Handle : storage'[h] = IF h = next THEN "Reserved" ELSE storage[h]
    BY <1>2 DEF RegisterReserve, TypeOK
  <2>4. SlotTokens' = SlotTokens
    BY <2>1, <2>2, <2>3 DEF SlotTokens, InSlot
  <2>5. reg[o].stage = "none" /\ reg'[o].stage = "reserved"
        /\ \A p \in Owner : p # o => reg'[p] = reg[p]
    BY <1>2 DEF RegisterReserve, MayCall, OnThread, NoReg, TypeOK
  <2>6. RegTokens' = RegTokens
    BY <2>5 DEF RegTokens, InRegistration
  <2> QED BY <2>1, <2>4, <2>6, LiveParts, LivePartsNext, ViewsSame, FramesSame, OutSame
          DEF Quiet
<1>3. CASE RegisterCommit(o)
  <2>1. UNCHANGED <<views, frames, outVars, token, releases>>
    BY <1>3 DEF RegisterCommit
  <2> DEFINE g == reg[o].handle
             x == reg[o].token
  <2>2. /\ reg[o].stage = "admitted" /\ reg'[o].stage = "none"
        /\ \A p \in Owner : p # o => reg'[p] = reg[p]
    BY <1>3 DEF RegisterCommit, NoReg, TypeOK
  <2>3. storage[g] = "Reserved"
    BY <2>2 DEF RegistrationSound, NoReg
  <2>4. g \in Handle /\ x \in Token
    BY <2>2 DEF TypeOK, NoReg, Registration
  <2>5. \A h \in Handle : /\ storage'[h] = IF h = g THEN "Frozen" ELSE storage[h]
                          /\ alloc'[h] = IF h = g THEN x ELSE alloc[h]
    BY <1>3 DEF RegisterCommit, TypeOK
  <2> HIDE DEF g, x
  <2>6. SlotTokens' = SlotTokens \cup {x}
    BY <2>3, <2>4, <2>5 DEF SlotTokens, InSlot
  <2>7. RegTokens = RegTokens' \cup {x}
    BY <2>2, <2>4 DEF RegTokens, InRegistration, x
  <2> QED BY <2>1, <2>6, <2>7, LiveParts, LivePartsNext, ViewsSame, FramesSame, OutSame
          DEF Quiet
<1> QED BY <1>1, <1>2, <1>3 DEF ProducerNext

(* The buffer handles' steps never make a token readable that was not.     *)
LEMMA BufferLive ==
  ASSUME TypeOK, SlotsSound, BufferNext
  PROVE  Quiet \/ Dropping
<1> USE DEF ownerVars, leaseVars, slotVars, frameVars, connVars, outVars
<1>1. CASE Allocate
  <2>1. UNCHANGED <<views, frames, outVars, reg, token, releases>>
    BY <1>1 DEF Allocate
  <2>2. SlotTokens' = SlotTokens \cup {t \in Token : "Mutable" = "Frozen" /\ t = heap}
    BY <1>1, InsertTokens DEF Allocate
  <2>3. SlotTokens' = SlotTokens
    BY <2>2
  <2> QED BY <2>1, <2>3, LiveParts, LivePartsNext, ViewsSame, FramesSame, OutSame, RegsSame
          DEF Quiet
<1>2. ASSUME NEW h \in Handle, ReleaseHandle(h) PROVE Dropping
  <2>1. UNCHANGED <<views, frames, outVars, reg, token>> /\ DropLoans
    BY <1>2 DEF ReleaseHandle
  <2>2. SlotTokens' \subseteq SlotTokens
    BY <1>2, RemoveTokens DEF ReleaseHandle
  <2> QED BY <2>1, <2>2, LiveParts, LivePartsNext, ViewsSame, FramesSame, OutSame, RegsSame
          DEF Dropping
<1>3. ASSUME NEW h \in Handle, Export(h) PROVE Quiet
  <2>1. UNCHANGED <<slotVars, frames, outVars, reg, token, releases>>
    BY <1>3 DEF Export
  <2>2. alloc[h] \in Token /\ alloc[h] \in SlotTokens
    BY <1>3 DEF Export, TypeOK, Alloc, IsFrozen, SlotTokens, InSlot
  <2>3. ViewTokens' = ViewTokens \cup {alloc[h]}
    BY <1>3, <2>2, Bounds DEF Export, TypeOK, ViewTokens
  <2> QED BY <2>1, <2>2, <2>3, LiveParts, LivePartsNext, SlotsSame, FramesSame, OutSame,
             RegsSame DEF Quiet
<1>4. ASSUME NEW h \in Handle, NEW ne \in BOOLEAN, Freeze(h, ne) PROVE Quiet
  <2>1. UNCHANGED <<alloc, views, frames, outVars, reg, token, releases>>
    BY <1>4 DEF Freeze
  <2>2. alloc[h] \notin Token
    BY <1>4, Constants DEF Freeze, SlotsSound
  <2>3. \A g \in Handle : storage'[g] = IF g = h THEN "Frozen" ELSE storage[g]
    BY <1>4 DEF Freeze, TypeOK
  <2>4. SlotTokens' = SlotTokens
    BY <1>4, <2>1, <2>2, <2>3 DEF SlotTokens, InSlot, Freeze
  <2> QED BY <2>1, <2>4, LiveParts, LivePartsNext, ViewsSame, FramesSame, OutSame, RegsSame
          DEF Quiet
<1>5. ASSUME NEW h \in Handle, NEW ne \in BOOLEAN, Slice(h, ne) PROVE Quiet
  <2>1. UNCHANGED <<views, frames, outVars, reg, token, releases>>
    BY <1>5 DEF Slice
  <2>2. SlotTokens' = SlotTokens \cup {t \in Token : "Frozen" = "Frozen" /\ t = alloc[h]}
    BY <1>5, InsertTokens DEF Slice
  <2>3. SlotTokens' = SlotTokens
    BY <1>5, <2>2 DEF SlotTokens, InSlot, Slice, IsFrozen
  <2> QED BY <2>1, <2>3, LiveParts, LivePartsNext, ViewsSame, FramesSame, OutSame, RegsSame
          DEF Quiet
<1>6. ASSUME NEW t \in Token, ViewFinalizer(t) PROVE Dropping
  <2>1. UNCHANGED <<slotVars, frames, outVars, reg, token>> /\ DropLoans
    BY <1>6 DEF ViewFinalizer
  <2>2. ViewTokens' \subseteq ViewTokens
    BY <1>6, Bounds DEF ViewFinalizer, TypeOK, ViewTokens
  <2> QED BY <2>1, <2>2, LiveParts, LivePartsNext, SlotsSame, FramesSame, OutSame, RegsSame
          DEF Dropping
<1> QED BY <1>1, <1>2, <1>3, <1>4, <1>5, <1>6 DEF BufferNext
(* Nor do the frames' steps.                                               *)
LEMMA FrameLive ==
  ASSUME TypeOK, SlotsSound, FramesSound, FrameNext
  PROVE  Quiet \/ Dropping
<1> USE DEF ownerVars, leaseVars, slotVars, frameVars, connVars, outVars
<1>1. ASSUME NEW c \in Handle, NEW b \in Handle, Compose(c, b) PROVE Quiet
  <2>1. UNCHANGED <<slotVars, views, outVars, reg, token, releases>>
    BY <1>1 DEF Compose
  <2> DEFINE fr == FrameOf(<<c, b>>)
  <2>2. fr \in Frame /\ \A t \in Token : t \in fr.owners => t \in SlotTokens
    BY <1>1, FrameOfType, FrameOfTokens DEF Compose
  <2>3. FrameTokens' = FrameTokens \cup {t \in Token : t \in fr.owners}
    BY <1>1, <2>2, InsertFrameTokens DEF Compose
  <2> HIDE DEF fr
  <2> QED BY <2>1, <2>2, <2>3, LiveParts, LivePartsNext, SlotsSame, ViewsSame, OutSame,
             RegsSame DEF Quiet
<1>2. ASSUME NEW c \in Handle, NEW b \in Handle, SendSegments(c, b) PROVE Quiet
  <2>1. UNCHANGED <<slotVars, views, frames, writing, reg, token, releases>>
    BY <1>2 DEF SendSegments
  <2> DEFINE fr == FrameOf(<<c, b>>)
  <2>2. fr \in Frame /\ DOMAIN fr.segments = 1..2
        /\ (\A i \in 1..2 : fr.segments[i] \subseteq fr.owners)
        /\ \A t \in Token : t \in fr.owners => t \in SlotTokens
    BY <1>2, FrameOfType, FrameOfTokens DEF SendSegments
  <2>3. Enqueue(Submission(fr))
    BY <1>2 DEF SendSegments
  <2> HIDE DEF fr
  <2>4. UNION Range(Submission(fr).segments) \subseteq fr.owners
    BY <2>2, SubmissionProperties
  <2>5. /\ QueueTokens \subseteq QueueTokens'
        /\ \A t \in QueueTokens' : t \in QueueTokens \/ t \in UNION Range(Submission(fr).segments)
    BY <2>3, EnqueueTokens
  <2>6. \A t \in QueueTokens' : t \in QueueTokens \/ t \in SlotTokens
    BY <2>2, <2>4, <2>5 DEF QueueTokens
  <2> QED BY <2>1, <2>5, <2>6, LiveParts, LivePartsNext, SlotsSame, ViewsSame, FramesSame,
             WriterSame, RegsSame DEF Quiet, OutTokens
<1>3. ASSUME NEW h \in Handle, SendBuffer(h) PROVE Dropping
  <2>1. UNCHANGED <<views, frames, writing, reg, token>> /\ DropLoans
    BY <1>3 DEF SendBuffer
  <2>2. SlotTokens' \subseteq SlotTokens
    BY <1>3, RemoveTokens DEF SendBuffer
  <2> DEFINE fr == [owners |-> Kept(h), segments |-> <<Kept(h)>>]
  <2>3. \A t \in QueueTokens' : t \in QueueTokens \/ t \in UNION Range(fr.segments)
    BY <1>3, EnqueueTokens DEF SendBuffer
  <2>4. \A t \in UNION Range(fr.segments) : t \in Kept(h)
    BY DEF Range
  <2>5. \A t \in Token : t \in Kept(h) => t \in SlotTokens
    BY <1>3 DEF Kept, SendBuffer, IsFrozen, SlotTokens, InSlot
  <2> HIDE DEF fr
  <2>6. \A t \in QueueTokens' : t \in QueueTokens \/ t \in SlotTokens
    BY <2>3, <2>4, <2>5 DEF QueueTokens
  <2> QED BY <2>1, <2>2, <2>6, LiveParts, LivePartsNext, ViewsSame, FramesSame, WriterSame,
             RegsSame DEF Dropping, OutTokens
<1>4. ASSUME NEW f \in FrameHandle, RetainFrame(f) PROVE Quiet
  <2>1. UNCHANGED <<slotVars, views, outVars, reg, token, releases>>
    BY <1>4 DEF RetainFrame
  <2>2. frames[f] \in Frame /\ frames[f] # None
    BY <1>4 DEF RetainFrame, TypeOK
  <2>3. FrameTokens' = FrameTokens \cup {t \in Token : t \in frames[f].owners}
    BY <1>4, <2>2, InsertFrameTokens DEF RetainFrame
  <2>4. FrameTokens' = FrameTokens
    BY <2>2, <2>3 DEF FrameTokens, InFrame
  <2> QED BY <2>1, <2>4, LiveParts, LivePartsNext, SlotsSame, ViewsSame, OutSame, RegsSame
          DEF Quiet
<1>5. ASSUME NEW f \in FrameHandle, ReleaseFrame(f) PROVE Dropping
  <2>1. UNCHANGED <<slotVars, views, outVars, reg, token>> /\ DropLoans
    BY <1>5 DEF ReleaseFrame
  <2>2. FrameTokens' \subseteq FrameTokens
    BY <1>5, TakeFrameTokens DEF ReleaseFrame
  <2> QED BY <2>1, <2>2, LiveParts, LivePartsNext, SlotsSame, ViewsSame, OutSame, RegsSame
          DEF Dropping
<1>6. ASSUME NEW f \in FrameHandle, FrameControl(f) PROVE Quiet
  <2>1. UNCHANGED <<views, frames, outVars, reg, token, releases>>
    BY <1>6 DEF FrameControl
  <2>2. SlotTokens' = SlotTokens \cup {t \in Token : "Frozen" = "Frozen" /\ t = frames[f].control}
    BY <1>6, InsertTokens DEF FrameControl
  <2>3. frames[f] # None /\ frames[f].control \in frames[f].owners
    BY <1>6 DEF FrameControl, FramesSound, FrameSound
  <2>4. \A t \in SlotTokens' : t \in SlotTokens \/ t \in FrameTokens
    BY <2>2, <2>3 DEF FrameTokens, InFrame
  <2> QED BY <2>1, <2>2, <2>4, LiveParts, LivePartsNext, ViewsSame, FramesSame, OutSame,
             RegsSame DEF Quiet
<1>7. ASSUME NEW f \in FrameHandle, SendFrame(f) PROVE Dropping
  <2>1. UNCHANGED <<slotVars, views, writing, reg, token>> /\ DropLoans
    BY <1>7 DEF SendFrame
  <2>2. /\ FrameTokens' \subseteq FrameTokens
        /\ \A t \in Token : t \in frames[f].owners => t \in FrameTokens
    BY <1>7, TakeFrameTokens DEF SendFrame
  <2>3. frames[f] \in Frame /\ FrameSound(frames[f])
    BY <1>7 DEF SendFrame, TakeFrame, TypeOK, FramesSound
  <2>4. UNION Range(Submission(frames[f]).segments) \subseteq frames[f].owners
    BY <2>3, SubmissionProperties DEF FrameSound
  <2>5. queue' = queue \/ Enqueue(Submission(frames[f]))
    BY <1>7 DEF SendFrame
  <2>6. \A t \in QueueTokens' :
           t \in QueueTokens \/ t \in UNION Range(Submission(frames[f]).segments)
    BY <2>5, QueueSame, EnqueueTokens
  <2>7. \A t \in QueueTokens' : t \in QueueTokens \/ t \in FrameTokens
    BY <2>2, <2>4, <2>6 DEF QueueTokens
  <2> QED BY <2>1, <2>2, <2>7, LiveParts, LivePartsNext, SlotsSame, ViewsSame, WriterSame,
             RegsSame DEF Dropping, OutTokens
<1> QED BY <1>1, <1>2, <1>3, <1>4, <1>5, <1>6, <1>7 DEF FrameNext

(* Nor do the writer's.                                                    *)
LEMMA WriterLive ==
  ASSUME TypeOK, WriterNext
  PROVE  Quiet \/ Dropping
<1> USE DEF writerUnchanged, ownerVars, leaseVars, slotVars, frameVars, connVars, outVars
<1>1. CASE WriterTakes
  <2>1. UNCHANGED <<slotVars, views, frames, reg, token, releases>> /\ writing = None
    BY <1>1 DEF WriterTakes
  <2>2. queue \in Seq(Outbound) /\ queue # <<>> /\ queue' = Tail(queue)
        /\ writing' = [owners |-> Head(queue).owners, segments |-> Head(queue).segments, at |-> 1]
    BY <1>1 DEF WriterTakes, TypeOK
  <2>3. /\ 1 \in DOMAIN queue /\ Head(queue) = queue[1]
        /\ \A i \in DOMAIN queue' : i + 1 \in DOMAIN queue /\ queue'[i] = queue[i + 1]
        /\ \A i \in DOMAIN queue : i = 1 \/ (i - 1 \in DOMAIN queue' /\ queue'[i - 1] = queue[i])
    BY <2>2
  <2>4. writing' # None
    <3>1. Head(queue) \in Outbound
      BY <2>2
    <3>2. writing' \in Writing
      BY <2>2, <3>1 DEF Writing, Outbound
    <3> QED BY <3>2, NoneAssumption
  <2>5. WriterTokens' = {t \in Token : t \in UNION Range(queue[1].segments)}
    BY <2>2, <2>3, <2>4 DEF WriterTokens, InWriter
  <2>6. WriterTokens = {}
    BY <2>1 DEF WriterTokens, InWriter
  <2>7. QueueTokens = QueueTokens' \cup {t \in Token : t \in UNION Range(queue[1].segments)}
    <3>1. \A t \in Token : InQueue(t) <=> t \in UNION Range(queue[1].segments) \/ InQueue(t)'
      BY <2>3 DEF InQueue
    <3> QED BY <3>1 DEF QueueTokens
  <2>8. OutTokens' = OutTokens
    BY <2>5, <2>6, <2>7 DEF OutTokens
  <2> QED BY <2>1, <2>8, LiveParts, LivePartsNext, SlotsSame, ViewsSame, FramesSame, RegsSame
          DEF Quiet
<1>2. CASE WriterWrites
  <2>1. UNCHANGED <<slotVars, views, frames, queue, reg, token>> /\ DropLoans /\ writing # None
    BY <1>2 DEF WriterWrites
  <2>2. /\ DOMAIN writing'.segments = DOMAIN writing.segments
        /\ \A i \in DOMAIN writing.segments : writing'.segments[i] \subseteq writing.segments[i]
    BY <1>2, WriterWritesProperties
  <2>3. WriterTokens' \subseteq WriterTokens
    BY <2>1, <2>2 DEF WriterTokens, InWriter, Range
  <2> QED BY <2>1, <2>3, LiveParts, LivePartsNext, SlotsSame, ViewsSame, FramesSame, QueueSame,
             RegsSame DEF Dropping, OutTokens
<1>3. CASE WriterFlushes
  <2>1. UNCHANGED <<slotVars, views, frames, queue, reg, token>> /\ DropLoans /\ writing' = None
    BY <1>3 DEF WriterFlushes
  <2>2. WriterTokens' = {}
    BY <2>1 DEF WriterTokens, InWriter
  <2> QED BY <2>1, <2>2, LiveParts, LivePartsNext, SlotsSame, ViewsSame, FramesSame, QueueSame,
             RegsSame DEF Dropping, OutTokens
<1>4. CASE ConnectionEnds
  <2>1. UNCHANGED <<slotVars, views, frames, reg, token>> /\ DropLoans /\ writing' = None
        /\ queue' = <<>>
    BY <1>4 DEF ConnectionEnds
  <2>2. WriterTokens' = {} /\ QueueTokens' = {}
    BY <2>1 DEF WriterTokens, InWriter, QueueTokens, InQueue
  <2> QED BY <2>1, <2>2, LiveParts, LivePartsNext, SlotsSame, ViewsSame, FramesSame, RegsSame
          DEF Dropping, OutTokens
<1>5. CASE ConnectionBegins
  <2>1. UNCHANGED <<slotVars, views, frames, outVars, reg, token, releases>>
    BY <1>5 DEF ConnectionBegins
  <2> QED BY <2>1, LiveParts, LivePartsNext, SlotsSame, ViewsSame, FramesSame, OutSame, RegsSame
          DEF Quiet
<1> QED BY <1>1, <1>2, <1>3, <1>4, <1>5 DEF WriterNext
(* What RegisterAdmit does to the loans, refused or not.                   *)
Refused(o) == Quiet /\ UNCHANGED <<leases, bytes>> /\ reg'[o] = NoReg
(* An admission: the token goes out on loan, charged to its owner.         *)
Lent(o, t) ==
    /\ t \in Token /\ Home[t] = o /\ token[t] = "producer" /\ Admissible(o, t)
    /\ token' = [token EXCEPT ![t] = "lent"] /\ Live' = Live \cup {t}
    /\ leases' = [leases EXCEPT ![o] = @ + 1] /\ bytes' = [bytes EXCEPT ![o] = @ + Size[t]]
    /\ releases' = releases

(* RegisterAdmit is one or the other.                                      *)
LEMMA AdmitProperties ==
  ASSUME TypeOK, SlotsSound, RegistrationSound, NEW o \in Owner, RegisterAdmit(o)
  PROVE  /\ UNCHANGED <<owners, calling>>
         /\ Refused(o) \/ (Lent(o, reg[o].token) /\ storage' = storage)
<1> USE DEF ownerVars, leaseVars, slotVars, frameVars, connVars, outVars
<1> DEFINE t == reg[o].token
           g == reg[o].handle
<1>1. UNCHANGED <<alloc, views, frames, outVars, releases, owners, calling>>
  BY DEF RegisterAdmit
<1>2. reg[o].stage = "reserved" /\ reg[o] # NoReg
  BY DEF RegisterAdmit, NoReg
<1>3. t \in Token /\ g \in Handle
  BY <1>2 DEF TypeOK, Registration
<1>4. Home[t] = o /\ token[t] = "producer" /\ storage[g] = "Reserved"
  BY <1>2 DEF RegistrationSound
<1>5. CASE Admissible(o, t)
  <2>1. /\ leases' = [leases EXCEPT ![o] = @ + 1] /\ bytes' = [bytes EXCEPT ![o] = @ + Size[t]]
        /\ token' = [token EXCEPT ![t] = "lent"] /\ storage' = storage
        /\ reg' = [reg EXCEPT ![o].stage = "admitted"]
    BY <1>5 DEF RegisterAdmit
  <2>2. reg'[o].stage = "admitted" /\ reg'[o].token = t /\ \A p \in Owner : p # o => reg'[p] = reg[p]
    <3>1. reg[o] \in Registration
      BY <1>2 DEF TypeOK
    <3>2. reg'[o] = [reg[o] EXCEPT !.stage = "admitted"] /\ \A p \in Owner : p # o => reg'[p] = reg[p]
      BY <2>1 DEF TypeOK
    <3> QED BY <3>1, <3>2 DEF Registration
  <2>3. RegTokens' = RegTokens \cup {t}
    <3> HIDE DEF t
    <3>1. \A x \in Token : InRegistration(x)' <=> InRegistration(x) \/ x = t
      BY <1>2, <2>2 DEF InRegistration
    <3> QED BY <3>1, <1>3 DEF RegTokens
  <2>4. Live' = Live \cup {t}
    <3> HIDE DEF t
    <3> QED BY <1>1, <2>1, <2>3, LiveParts, LivePartsNext, SlotsSame, ViewsSame, FramesSame, OutSame
  <2> QED BY <1>1, <1>3, <1>4, <1>5, <2>1, <2>4 DEF Lent
<1>6. CASE ~Admissible(o, t)
  <2>1. /\ storage' = [storage EXCEPT ![g] = "None"] /\ UNCHANGED <<bytes, leases, token>>
        /\ reg' = [reg EXCEPT ![o] = NoReg]
    BY <1>6 DEF RegisterAdmit
  <2>2. reg'[o] = NoReg /\ NoReg.stage = "none" /\ \A p \in Owner : p # o => reg'[p] = reg[p]
    BY <2>1 DEF TypeOK, NoReg
  <2>3. \A h \in Handle : storage'[h] = IF h = g THEN "None" ELSE storage[h]
    <3> HIDE DEF g
    <3> QED BY <2>1 DEF TypeOK
  <2>4. SlotTokens' = SlotTokens
    <3> HIDE DEF g
    <3> QED BY <1>1, <1>4, <2>3 DEF SlotTokens, InSlot
  <2>5. RegTokens' = RegTokens
    BY <1>2, <2>2 DEF RegTokens, InRegistration
  <2>6. Live' = Live
    BY <1>1, <2>4, <2>5, LiveParts, LivePartsNext, ViewsSame, FramesSame, OutSame
  <2> QED BY <1>1, <2>1, <2>2, <2>6 DEF Refused, Quiet
<1> QED BY <1>1, <1>5, <1>6

(* An admission leaves the loans sound.                                    *)
LEMMA LoansLent ==
  ASSUME TypeOK, LoansSound, NEW o \in Owner, NEW t, Lent(o, t)
  PROVE  LoansSound'
<1>1. /\ t \in Token /\ token[t] = "producer" /\ Live' = Live \cup {t} /\ releases' = releases
      /\ token'[t] = "lent" /\ \A x \in Token : x # t => token'[x] = token[x]
  BY DEF Lent, TypeOK
<1>2. \A p \in Owner : \A i \in DOMAIN releases[p] : releases[p][i] \in Token /\ releases[p][i] # t
  BY <1>1 DEF TypeOK, LoansSound, ReleasesDue
<1>3. ReleasesDue'
  BY <1>1, <1>2 DEF LoansSound, ReleasesDue
<1>4. LentOrDue'
  BY <1>1 DEF LoansSound, LentOrDue
<1>5. LiveLent'
  BY <1>1 DEF LoansSound, LiveLent, Live
<1> QED BY <1>3, <1>4, <1>5 DEF LoansSound

(* A release is called for a token that nothing reads any more.            *)
LEMMA CallProperties ==
  ASSUME TypeOK, LoansSound, NEW o \in Owner, DispatchCall(o)
  PROVE  /\ calling[o] = None /\ calling' = [calling EXCEPT ![o] = Head(releases[o])]
         /\ Head(releases[o]) \in Token /\ Home[Head(releases[o])] = o
         /\ token[Head(releases[o])] = "lent" /\ Head(releases[o]) \notin Live
         /\ token' = [token EXCEPT ![Head(releases[o])] = "returned"]
         /\ Live' = Live /\ UNCHANGED <<leases, bytes, owners, reg>>
         /\ LoansSound'
<1> USE DEF ownerVars, leaseVars, slotVars, frameVars, connVars, outVars
<1> DEFINE s == releases[o]
           t == Head(s)
<1>1. s \in Seq(Token) /\ s # <<>> /\ IsInjective(s)
  BY DEF DispatchCall, TypeOK, LoansSound, ReleasesDue
<1>2. 1 \in DOMAIN s /\ t = s[1] /\ t \in Token
  BY <1>1
<1>3. Home[t] = o /\ token[t] = "lent" /\ t \notin Live
  BY <1>2 DEF LoansSound, ReleasesDue
<1>4. /\ calling[o] = None /\ calling' = [calling EXCEPT ![o] = t]
      /\ token' = [token EXCEPT ![t] = "returned"]
      /\ releases' = [releases EXCEPT ![o] = Tail(s)]
      /\ UNCHANGED <<slotVars, views, frames, outVars, reg, leases, bytes, owners>>
  BY DEF DispatchCall
<1>5. Live' = Live
  BY <1>4, LiveParts, LivePartsNext, SlotsSame, ViewsSame, FramesSame, OutSame, RegsSame
<1>6. token'[t] = "returned" /\ \A x \in Token : x # t => token'[x] = token[x]
  <2> HIDE DEF t
  <2> QED BY <1>2, <1>4 DEF TypeOK
<1>7. releases'[o] = Tail(s) /\ \A p \in Owner : p # o => releases'[p] = releases[p]
  <2> HIDE DEF s
  <2> QED BY <1>4 DEF TypeOK
<1>8. /\ \A i \in DOMAIN Tail(s) : i + 1 \in DOMAIN s /\ Tail(s)[i] = s[i + 1] /\ i + 1 # 1
      /\ \A i \in DOMAIN s : i = 1 \/ (i - 1 \in DOMAIN Tail(s) /\ Tail(s)[i - 1] = s[i])
  <2> HIDE DEF s
  <2> QED BY <1>1
<1>9. \A i \in DOMAIN Tail(s) : Tail(s)[i] \in Token /\ Tail(s)[i] # t
  <2> HIDE DEF s
  <2> QED BY <1>1, <1>2, <1>8 DEF IsInjective
<1>10. IsInjective(Tail(s))
  <2> SUFFICES ASSUME NEW i \in DOMAIN Tail(s), NEW j \in DOMAIN Tail(s), Tail(s)[i] = Tail(s)[j]
               PROVE  i = j
    BY DEF IsInjective
  <2>1. i + 1 = j + 1
    <3> HIDE DEF s
    <3> QED BY <1>1, <1>8 DEF IsInjective
  <2>2. i \in Nat /\ j \in Nat
    <3> HIDE DEF s
    <3> QED BY <1>1
  <2> QED BY <2>1, <2>2
<1>11. ReleasesDue'
  <2> SUFFICES ASSUME NEW p \in Owner
      PROVE  /\ IsInjective(releases'[p])
             /\ \A i \in DOMAIN releases'[p] :
                   /\ Home[releases'[p][i]] = p /\ token'[releases'[p][i]] = "lent"
                   /\ releases'[p][i] \notin Live'
    BY DEF ReleasesDue
  <2>1. CASE p = o
    <3> HIDE DEF t
    <3>1. \A i \in DOMAIN s : s[i] \in Token /\ Home[s[i]] = o /\ token[s[i]] = "lent" /\ s[i] \notin Live
      BY <1>1 DEF LoansSound, ReleasesDue
    <3> HIDE DEF s
    <3> QED BY <2>1, <3>1, <1>5, <1>6, <1>7, <1>8, <1>9, <1>10
  <2>2. CASE p # o
    <3>1. \A i \in DOMAIN releases[p] : releases[p][i] \in Token
      BY DEF TypeOK
    <3> HIDE DEF t
    <3> QED BY <2>2, <3>1, <1>3, <1>5, <1>6, <1>7 DEF LoansSound, ReleasesDue
  <2> QED BY <2>1, <2>2
<1>12. LentOrDue'
  <2> SUFFICES ASSUME NEW x \in Token, token'[x] = "lent", x \notin Live'
      PROVE  \E i \in DOMAIN releases'[Home[x]] : releases'[Home[x]][i] = x
    BY DEF LentOrDue
  <2>1. x # t /\ token[x] = "lent"
    BY <1>6
  <2>2. PICK i \in DOMAIN releases[Home[x]] : releases[Home[x]][i] = x
    BY <2>1, <1>5 DEF LoansSound, LentOrDue
  <2>3. Home[x] \in Owner
    BY Constants
  <2> HIDE DEF t
  <2>4. CASE Home[x] = o
    <3>1. i \in DOMAIN s /\ s[i] = x /\ i # 1
      BY <2>1, <2>2, <2>4, <1>2
    <3> HIDE DEF s
    <3> QED BY <3>1, <2>4, <1>7, <1>8
  <2>5. CASE Home[x] # o
    BY <2>2, <2>3, <2>5, <1>7
  <2> QED BY <2>4, <2>5
<1>13. LiveLent'
  <2> HIDE DEF t
  <2> QED BY <1>3, <1>5, <1>6 DEF LoansSound, LiveLent, Live
<1> QED BY <1>2, <1>3, <1>4, <1>5, <1>11, <1>12, <1>13 DEF LoansSound
-----------------------------------------------------------------------------
(* The slots and the registrations.                                        *)
SlotsKept ==
    /\ SlotsSound' /\ next' >= next
    /\ \A h \in Handle : storage[h] = "Reserved" => storage'[h] = "Reserved"

(* A new slot disturbs no reservation.                                     *)
LEMMA InsertKeeps ==
  ASSUME TypeOK, SlotsSound, NEW kind, NEW a, NEW ne, Insert(kind, a, ne),
         kind = "Frozen" \/ (kind = "Mutable" /\ a = heap)
  PROVE  SlotsKept
<1>1. next \in Handle /\ storage[next] = "None" /\ next' = next + 1
  BY Bounds DEF Insert, TypeOK, Handle, SlotsSound
<1>2. \A h \in Handle : /\ storage'[h] = IF h = next THEN kind ELSE storage[h]
                        /\ alloc'[h] = IF h = next THEN a ELSE alloc[h]
  BY DEF Insert, TypeOK
<1> QED BY <1>1, <1>2 DEF SlotsKept, SlotsSound, Handle

(* Nor does emptying one that is not reserved.                             *)
LEMMA RemoveKeeps ==
  ASSUME TypeOK, SlotsSound, NEW h \in Handle, RemoveSlot(h), storage[h] # "Reserved"
  PROVE  SlotsKept
<1>1. \A g \in Handle : /\ storage'[g] = IF g = h THEN "None" ELSE storage[g]
                        /\ alloc'[g] = IF g = h THEN heap ELSE alloc[g]
  BY DEF RemoveSlot, TypeOK
<1>2. next' = next /\ next \in Nat
  BY Bounds DEF RemoveSlot, TypeOK
<1> QED BY <1>1, <1>2 DEF SlotsKept, SlotsSound

(* Nor does leaving the slots alone.                                       *)
LEMMA SameKeeps ==
  ASSUME TypeOK, SlotsSound, UNCHANGED slotVars
  PROVE  SlotsKept
  BY Bounds DEF TypeOK, SlotsSound, SlotsKept, slotVars

(* Registrations stay sound while their slots stay reserved.               *)
LEMMA RegistrationKept ==
  ASSUME TypeOK, RegistrationSound, SlotsKept, reg' = reg, token' = token, owners' = owners,
         TypeOK'
  PROVE  RegistrationSound'
<1> SUFFICES ASSUME NEW o \in Owner, reg[o] # NoReg
    PROVE  /\ o \in owners' /\ Home[reg'[o].token] = o
           /\ reg'[o].handle < next' /\ storage'[reg'[o].handle] = "Reserved"
           /\ reg'[o].stage = "reserved" => token'[reg'[o].token] = "producer"
           /\ \A p \in Owner : p # o /\ reg'[p] # NoReg => reg'[p].handle # reg'[o].handle
  BY DEF RegistrationSound
<1>1. reg[o].handle \in Handle
  BY DEF TypeOK, Registration
<1>2. next \in Nat /\ next' \in Nat /\ next' >= next
  BY Bounds DEF TypeOK, SlotsKept
<1> QED BY <1>1, <1>2 DEF RegistrationSound, SlotsKept, Handle

(* What the buffer handles' steps leave alone.                             *)
LEMMA BufferKeeps ==
  ASSUME TypeOK, SlotsSound, BufferNext
  PROVE  /\ SlotsKept
         /\ UNCHANGED <<owners, made, bytes, leases, closing, dispatching, calling, reg, token,
                        frameVars, connVars, outVars>>
<1> USE DEF ownerVars, leaseVars, slotVars, frameVars, connVars, outVars
<1>1. CASE Allocate
  <2>1. SlotsKept
    BY <1>1, InsertKeeps DEF Allocate
  <2> QED BY <1>1, <2>1 DEF Allocate
<1>2. ASSUME NEW h \in Handle, ReleaseHandle(h)
      PROVE  /\ SlotsKept
             /\ UNCHANGED <<owners, made, bytes, leases, closing, dispatching, calling, reg, token,
                            frameVars, connVars, outVars>>
  <2>1. SlotsKept
    BY <1>2, RemoveKeeps DEF ReleaseHandle
  <2> QED BY <1>2, <2>1 DEF ReleaseHandle
<1>3. ASSUME NEW h \in Handle, Export(h)
      PROVE  /\ SlotsKept
             /\ UNCHANGED <<owners, made, bytes, leases, closing, dispatching, calling, reg, token,
                            frameVars, connVars, outVars>>
  BY <1>3, SameKeeps DEF Export
<1>4. ASSUME NEW h \in Handle, NEW ne \in BOOLEAN, Freeze(h, ne)
      PROVE  /\ SlotsKept
             /\ UNCHANGED <<owners, made, bytes, leases, closing, dispatching, calling, reg, token,
                            frameVars, connVars, outVars>>
  <2>1. \A g \in Handle : storage'[g] = IF g = h THEN "Frozen" ELSE storage[g]
    BY <1>4 DEF Freeze, TypeOK
  <2>2. next' = next /\ next \in Nat /\ alloc' = alloc
    BY <1>4, Bounds DEF Freeze, TypeOK
  <2>3. storage[h] = "Mutable"
    BY <1>4 DEF Freeze
  <2>4. SlotsKept
    BY <2>1, <2>2, <2>3 DEF SlotsKept, SlotsSound
  <2> QED BY <1>4, <2>4 DEF Freeze
<1>5. ASSUME NEW h \in Handle, NEW ne \in BOOLEAN, Slice(h, ne)
      PROVE  /\ SlotsKept
             /\ UNCHANGED <<owners, made, bytes, leases, closing, dispatching, calling, reg, token,
                            frameVars, connVars, outVars>>
  <2>1. SlotsKept
    BY <1>5, InsertKeeps DEF Slice
  <2> QED BY <1>5, <2>1 DEF Slice
<1>6. ASSUME NEW t \in Token, ViewFinalizer(t)
      PROVE  /\ SlotsKept
             /\ UNCHANGED <<owners, made, bytes, leases, closing, dispatching, calling, reg, token,
                            frameVars, connVars, outVars>>
  BY <1>6, SameKeeps DEF ViewFinalizer
<1> QED BY <1>1, <1>2, <1>3, <1>4, <1>5, <1>6 DEF BufferNext

(* What the frames' steps leave alone.                                     *)
LEMMA FrameKeeps ==
  ASSUME TypeOK, SlotsSound, FrameNext
  PROVE  /\ SlotsKept
         /\ UNCHANGED <<owners, made, bytes, leases, closing, dispatching, calling, reg, token,
                        connVars, writing>>
<1> USE DEF ownerVars, leaseVars, slotVars, frameVars, connVars, outVars
<1> DEFINE Others == UNCHANGED <<owners, made, bytes, leases, closing, dispatching, calling, reg,
                                token, connVars, writing>>
<1>1. ASSUME NEW c \in Handle, NEW b \in Handle, Compose(c, b) PROVE SlotsKept /\ Others
  BY <1>1, SameKeeps DEF Compose
<1>2. ASSUME NEW c \in Handle, NEW b \in Handle, SendSegments(c, b) PROVE SlotsKept /\ Others
  BY <1>2, SameKeeps DEF SendSegments
<1>3. ASSUME NEW h \in Handle, SendBuffer(h) PROVE SlotsKept /\ Others
  <2>1. SlotsKept
    BY <1>3, RemoveKeeps DEF SendBuffer, IsFrozen
  <2> QED BY <1>3, <2>1 DEF SendBuffer
<1>4. ASSUME NEW f \in FrameHandle, RetainFrame(f) PROVE SlotsKept /\ Others
  BY <1>4, SameKeeps DEF RetainFrame
<1>5. ASSUME NEW f \in FrameHandle, ReleaseFrame(f) PROVE SlotsKept /\ Others
  BY <1>5, SameKeeps DEF ReleaseFrame
<1>6. ASSUME NEW f \in FrameHandle, FrameControl(f) PROVE SlotsKept /\ Others
  <2>1. SlotsKept
    BY <1>6, InsertKeeps DEF FrameControl
  <2> QED BY <1>6, <2>1 DEF FrameControl
<1>7. ASSUME NEW f \in FrameHandle, SendFrame(f) PROVE SlotsKept /\ Others
  BY <1>7, SameKeeps DEF SendFrame
<1> QED BY <1>1, <1>2, <1>3, <1>4, <1>5, <1>6, <1>7 DEF FrameNext

(* What the writer's steps leave alone.                                    *)
LEMMA WriterKeeps ==
  ASSUME TypeOK, SlotsSound, WriterNext
  PROVE  /\ SlotsKept
         /\ UNCHANGED <<owners, made, bytes, leases, closing, dispatching, calling, reg, token,
                        frameVars, link>>
<1> USE DEF ownerVars, leaseVars, slotVars, frameVars, connVars, outVars, writerUnchanged
<1>1. UNCHANGED slotVars /\ UNCHANGED <<owners, made, bytes, leases, closing, dispatching, calling,
                                        reg, token, frameVars, link>>
  BY DEF WriterNext, WriterTakes, WriterWrites, WriterFlushes, ConnectionEnds, ConnectionBegins
<1> QED BY <1>1, SameKeeps
-----------------------------------------------------------------------------
(* The books of an owner.                                                  *)
LEMMA ChargedFinite ==
  ASSUME NEW o \in Owner
  PROVE  Charged(o) \in SUBSET Token /\ IsFiniteSet(Charged(o)) /\ SumOf(Charged(o)) \in Nat
<1>1. Charged(o) \in SUBSET Token
  BY DEF Charged, OnLoan
<1> QED BY <1>1, Constants, FS_Subset, SumType

(* The owners' books, and the types the counters need.                     *)
Books == CallingReturned /\ LeasesCounted /\ GoneIdle
BooksTyped == bytes' \in [Owner -> Nat] /\ leases' \in [Owner -> Nat]

(* A step that moves no token, callback or counter.                        *)
LEMMA BooksKept ==
  ASSUME TypeOK, Books, UNCHANGED <<calling, token, leases, bytes>>,
         \A o \in Owner \ owners' : leases[o] = 0 /\ reg'[o] = NoReg
  PROVE  Books' /\ BooksTyped
  BY DEF Books, CallingReturned, LeasesCounted, GoneIdle, Charged, OnLoan, TypeOK, BooksTyped

(* Admission charges the token once, within the quotas.                    *)
LEMMA BooksLent ==
  ASSUME TypeOK, Books, NEW o \in Owner, NEW t, Lent(o, t), UNCHANGED <<owners, calling>>,
         o \in owners, \A p \in Owner : p # o => reg'[p] = reg[p]
  PROVE  Books' /\ BooksTyped
<1>1. /\ t \in Token /\ Home[t] = o /\ token[t] = "producer" /\ Admissible(o, t)
      /\ token'[t] = "lent" /\ \A x \in Token : x # t => token'[x] = token[x]
  BY DEF Lent, TypeOK
<1>2. /\ leases'[o] = leases[o] + 1 /\ bytes'[o] = bytes[o] + Size[t]
      /\ \A p \in Owner : p # o => leases'[p] = leases[p] /\ bytes'[p] = bytes[p]
  BY DEF Lent, TypeOK
<1>3. BooksTyped
  <2>1. Size[t] \in Nat /\ bytes \in [Owner -> Nat] /\ leases \in [Owner -> Nat]
    BY <1>1, Constants DEF TypeOK
  <2>2. leases' = [leases EXCEPT ![o] = @ + 1] /\ bytes' = [bytes EXCEPT ![o] = @ + Size[t]]
    BY DEF Lent
  <2> QED BY <2>1, <2>2 DEF BooksTyped
<1> DEFINE C(p) == {x \in Token : Home[x] = p /\ token'[x] = "lent"} \cup {x \in Token : calling[p] = x}
<1>4. t \notin Charged(o) /\ C(o) = Charged(o) \cup {t}
  BY <1>1, NoneAssumption DEF Books, CallingReturned, Charged, OnLoan
<1>5. \A p \in Owner : p # o => C(p) = Charged(p)
  BY <1>1 DEF Charged, OnLoan
<1>6. leases'[o] = Cardinality(C(o)) /\ leases'[o] <= MaxLeases
  <2>1. leases[o] = Cardinality(Charged(o)) /\ leases[o] <= MaxLeases /\ leases[o] # MaxLeases
    BY <1>1 DEF Books, LeasesCounted, Admissible
  <2>2. Cardinality(Charged(o) \cup {t}) = Cardinality(Charged(o)) + 1
    BY <1>4, ChargedFinite, FS_AddElement
  <2>3. leases[o] \in Nat
    BY DEF TypeOK
  <2> HIDE DEF C
  <2> QED BY <1>2, <1>4, <2>1, <2>2, <2>3, Bounds
<1>7. bytes'[o] = SumOf(C(o)) /\ bytes'[o] <= MaxBytes
  <2>1. bytes[o] = SumOf(Charged(o)) /\ bytes[o] + Size[t] <= MaxBytes
    BY <1>1 DEF Books, LeasesCounted, Admissible
  <2>2. SumOf(Charged(o) \cup {t}) = SumOf(Charged(o)) + Size[t]
    BY <1>1, <1>4, ChargedFinite, SumAdd
  <2> HIDE DEF C
  <2> QED BY <1>2, <1>4, <2>1, <2>2
<1>8. \A p \in Owner : /\ leases'[p] = Cardinality(C(p)) /\ leases'[p] <= MaxLeases
                       /\ bytes'[p] = SumOf(C(p)) /\ bytes'[p] <= MaxBytes
  <2> HIDE DEF C
  <2> QED BY <1>2, <1>5, <1>6, <1>7 DEF Books, LeasesCounted
<1>9. LeasesCounted'
  BY <1>8 DEF LeasesCounted, Charged, OnLoan
<1>10. CallingReturned'
  BY <1>1 DEF Books, CallingReturned, TypeOK
<1>11. GoneIdle'
  BY <1>2 DEF Books, GoneIdle
<1> QED BY <1>3, <1>9, <1>10, <1>11 DEF Books

(* A token whose callback runs is still charged.                           *)
LEMMA BooksCalled ==
  ASSUME TypeOK, LoansSound, Books, NEW o \in Owner, DispatchCall(o)
  PROVE  Books' /\ BooksTyped
<1> DEFINE t == Head(releases[o])
<1>1. /\ calling[o] = None /\ calling' = [calling EXCEPT ![o] = t]
      /\ t \in Token /\ Home[t] = o /\ token[t] = "lent"
      /\ token' = [token EXCEPT ![t] = "returned"]
      /\ UNCHANGED <<leases, bytes, owners, reg>>
  BY CallProperties
<1> HIDE DEF t
<1>2. /\ calling'[o] = t /\ \A p \in Owner : p # o => calling'[p] = calling[p]
      /\ token'[t] = "returned" /\ \A x \in Token : x # t => token'[x] = token[x]
  BY <1>1 DEF TypeOK
<1> DEFINE C(p) == {x \in Token : Home[x] = p /\ token'[x] = "lent"} \cup {x \in Token : calling'[p] = x}
<1>3. C(o) = Charged(o)
  BY <1>1, <1>2, NoneAssumption DEF Charged, OnLoan
<1>4. \A p \in Owner : p # o => C(p) = Charged(p)
  BY <1>1, <1>2 DEF Charged, OnLoan
<1>5. \A p \in Owner : /\ leases'[p] = Cardinality(C(p)) /\ leases'[p] <= MaxLeases
                       /\ bytes'[p] = SumOf(C(p)) /\ bytes'[p] <= MaxBytes
  <2> HIDE DEF C
  <2> QED BY <1>1, <1>3, <1>4 DEF Books, LeasesCounted
<1>6. LeasesCounted'
  BY <1>5 DEF LeasesCounted, Charged, OnLoan
<1>7. CallingReturned'
  BY <1>1, <1>2 DEF Books, CallingReturned, TypeOK
<1>8. GoneIdle' /\ BooksTyped
  BY <1>1 DEF Books, GoneIdle, BooksTyped, TypeOK
<1> QED BY <1>6, <1>7, <1>8 DEF Books

(* The return of the callback gives the charge back.                       *)
LEMMA BooksReturned ==
  ASSUME TypeOK, Books, NEW o \in Owner, DispatchReturn(o)
  PROVE  Books' /\ BooksTyped
<1> DEFINE t == calling[o]
<1>1. /\ t # None /\ calling' = [calling EXCEPT ![o] = None]
      /\ bytes' = [bytes EXCEPT ![o] = @ - Size[t]] /\ leases' = [leases EXCEPT ![o] = @ - 1]
      /\ UNCHANGED <<owners, token, reg>>
  BY DEF DispatchReturn, ownerVars
<1>2. t \in Token /\ Home[t] = o /\ token[t] = "returned"
  BY <1>1 DEF TypeOK, Books, CallingReturned
<1>3. /\ calling'[o] = None /\ \A p \in Owner : p # o => calling'[p] = calling[p]
      /\ leases'[o] = leases[o] - 1 /\ bytes'[o] = bytes[o] - Size[t]
      /\ \A p \in Owner : p # o => leases'[p] = leases[p] /\ bytes'[p] = bytes[p]
  <2> HIDE DEF t
  <2> QED BY <1>1 DEF TypeOK
<1> DEFINE C(p) == {x \in Token : Home[x] = p /\ token[x] = "lent"} \cup {x \in Token : calling'[p] = x}
<1>4. t \notin C(o) /\ Charged(o) = C(o) \cup {t} /\ C(o) \in SUBSET Token
  BY <1>2, <1>3, NoneAssumption DEF Charged, OnLoan
<1>5. \A p \in Owner : p # o => C(p) = Charged(p)
  BY <1>3 DEF Charged, OnLoan
<1>6. IsFiniteSet(C(o)) /\ Cardinality(C(o)) \in Nat /\ SumOf(C(o)) \in Nat /\ Size[t] \in Nat
  <2> HIDE DEF C, t
  <2> QED BY <1>2, <1>4, Constants, FS_Subset, FS_CardinalityType, SumType
<1>7. leases'[o] = Cardinality(C(o)) /\ leases'[o] <= MaxLeases
  <2>1. leases[o] = Cardinality(Charged(o)) /\ leases[o] <= MaxLeases
    BY DEF Books, LeasesCounted
  <2> HIDE DEF C, t
  <2>2. Cardinality(C(o) \cup {t}) = Cardinality(C(o)) + 1
    BY <1>4, <1>6, FS_AddElement
  <2> QED BY <1>3, <1>4, <1>6, <2>1, <2>2, Bounds
<1>8. bytes'[o] = SumOf(C(o)) /\ bytes'[o] <= MaxBytes
  <2>1. bytes[o] = SumOf(Charged(o)) /\ bytes[o] <= MaxBytes
    BY DEF Books, LeasesCounted
  <2> HIDE DEF C, t
  <2>2. SumOf(C(o) \cup {t}) = SumOf(C(o)) + Size[t]
    BY <1>2, <1>4, SumAdd
  <2> QED BY <1>3, <1>4, <1>6, <2>1, <2>2, Bounds
<1>9. \A p \in Owner : /\ leases'[p] = Cardinality(C(p)) /\ leases'[p] <= MaxLeases
                       /\ bytes'[p] = SumOf(C(p)) /\ bytes'[p] <= MaxBytes
  <2> HIDE DEF C, t
  <2> QED BY <1>3, <1>5, <1>7, <1>8 DEF Books, LeasesCounted
<1>10. BooksTyped
  <2> HIDE DEF C, t
  <2>1. bytes'[o] \in Nat /\ leases'[o] \in Nat
    BY <1>6, <1>7, <1>8
  <2> QED BY <1>1, <1>3, <2>1 DEF TypeOK, BooksTyped
<1>11. LeasesCounted'
  BY <1>1, <1>9 DEF LeasesCounted, Charged, OnLoan
<1>12. CallingReturned'
  <2> HIDE DEF t
  <2> QED BY <1>1, <1>3 DEF Books, CallingReturned, TypeOK
<1>13. o \in owners
  <2>1. leases[o] # 0
    <3> HIDE DEF C, t
    <3> QED BY <1>3, <1>6, <1>7 DEF TypeOK
  <2> QED BY <2>1 DEF Books, GoneIdle
<1>14. GoneIdle'
  <2> HIDE DEF t
  <2> QED BY <1>1, <1>3, <1>13 DEF Books, GoneIdle
<1> QED BY <1>10, <1>11, <1>12, <1>14 DEF Books
(* The producer's steps keep slots, registrations and books sound.         *)
LEMMA ProducerTables ==
  ASSUME TypeOK, SlotsSound, RegistrationSound, LoansSound, Books,
         NEW o \in Owner, ProducerNext(o)
  PROVE  SlotsSound' /\ RegistrationSound' /\ Books' /\ BooksTyped
<1> USE DEF ownerVars, leaseVars, slotVars, frameVars, connVars, outVars
<1>1. CASE CreateOwner(o) \/ CloseOwner(o) \/ DispatchBegin(o) \/ DispatchEnd(o)
  <2>1. UNCHANGED <<slotVars, reg, token, calling, leases, bytes>> /\ owners \subseteq owners'
    BY <1>1 DEF CreateOwner, CloseOwner, DispatchBegin, DispatchEnd
  <2>2. SlotsSound' /\ RegistrationSound'
    BY <2>1 DEF SlotsSound, RegistrationSound
  <2> QED BY <2>1, <2>2, BooksKept DEF Books, GoneIdle
<1>2. CASE DestroyOwner(o)
  <2>1. UNCHANGED <<slotVars, reg, token, calling, leases, bytes>> /\ reg[o] = NoReg
    BY <1>2 DEF DestroyOwner, MayCall, OnThread
  <2>2. \A p \in Owner : p # o /\ p \in owners => p \in owners'
    BY <1>2 DEF DestroyOwner
  <2>3. o \notin owners' => leases[o] = 0
    BY <1>2 DEF DestroyOwner
  <2>4. SlotsSound' /\ RegistrationSound'
    BY <2>1, <2>2 DEF SlotsSound, RegistrationSound
  <2> QED BY <2>1, <2>2, <2>3, <2>4, BooksKept DEF Books, GoneIdle
<1>3. ASSUME NEW t \in Token, NEW ne \in BOOLEAN, RegisterReserve(o, t, ne)
      PROVE  SlotsSound' /\ RegistrationSound' /\ Books' /\ BooksTyped
  <2>1. UNCHANGED <<owners, alloc, token, calling, leases, bytes>> /\ o \in owners
        /\ Home[t] = o /\ token[t] = "producer" /\ reg[o] = NoReg /\ next' = next + 1
    BY <1>3 DEF RegisterReserve, MayCall, OnThread
  <2>2. next \in Handle /\ next \in Nat
    BY <1>3, Bounds DEF RegisterReserve, TypeOK, Handle
  <2>3. \A h \in Handle : storage'[h] = IF h = next THEN "Reserved" ELSE storage[h]
    BY <1>3 DEF RegisterReserve, TypeOK
  <2>4. /\ reg'[o] = [stage |-> "reserved", token |-> t, handle |-> next, nonempty |-> ne]
        /\ \A p \in Owner : p # o => reg'[p] = reg[p]
    BY <1>3 DEF RegisterReserve, TypeOK
  <2>5. SlotsSound'
    BY <2>1, <2>2, <2>3 DEF SlotsSound, Handle
  <2>6. \A p \in Owner : reg[p] # NoReg => reg[p].handle \in Handle /\ reg[p].handle < next
    BY DEF TypeOK, Registration, RegistrationSound
  <2>7. RegistrationSound'
    <3> SUFFICES ASSUME NEW p \in Owner, reg'[p] # NoReg
        PROVE  /\ p \in owners' /\ Home[reg'[p].token] = p
               /\ reg'[p].handle < next' /\ storage'[reg'[p].handle] = "Reserved"
               /\ reg'[p].stage = "reserved" => token'[reg'[p].token] = "producer"
               /\ \A q \in Owner : q # p /\ reg'[q] # NoReg => reg'[q].handle # reg'[p].handle
      BY DEF RegistrationSound
    <3>1. CASE p = o
      BY <3>1, <2>1, <2>2, <2>3, <2>4, <2>6
    <3>2. CASE p # o
      <4>1. /\ p \in owners /\ Home[reg[p].token] = p
            /\ reg[p].handle < next /\ storage[reg[p].handle] = "Reserved"
            /\ reg[p].stage = "reserved" => token[reg[p].token] = "producer"
            /\ \A q \in Owner : q # p /\ reg[q] # NoReg => reg[q].handle # reg[p].handle
        BY <3>2, <2>4 DEF RegistrationSound
      <4>2. reg'[p] = reg[p] /\ reg[p].handle \in Handle /\ reg[p].handle # next
            /\ reg[p].handle < next + 1
        BY <3>2, <2>2, <2>4, <2>6 DEF Handle
      <4>3. storage'[reg[p].handle] = "Reserved"
        BY <4>1, <4>2, <2>3
      <4>4. \A q \in Owner : q # p /\ reg'[q] # NoReg => reg'[q].handle # reg[p].handle
        BY <4>1, <4>2, <2>4
      <4> QED BY <4>1, <4>2, <4>3, <4>4, <2>1
    <3> QED BY <3>1, <3>2
  <2>8. \A p \in Owner \ owners' : leases[p] = 0 /\ reg'[p] = NoReg
    BY <2>1, <2>4 DEF Books, GoneIdle
  <2> QED BY <2>1, <2>5, <2>7, <2>8, BooksKept
<1>4. CASE RegisterAdmit(o)
  <2>1. /\ UNCHANGED <<owners, calling>>
        /\ Refused(o) \/ (Lent(o, reg[o].token) /\ storage' = storage)
    BY <1>4, AdmitProperties
  <2>2. UNCHANGED <<next, alloc>> /\ reg[o].stage = "reserved" /\ reg[o] # NoReg
    BY <1>4 DEF RegisterAdmit, NoReg
  <2>3. \A p \in Owner : p # o => reg'[p] = reg[p]
    BY <1>4 DEF RegisterAdmit, TypeOK
  <2>4. o \in owners /\ reg[o].handle \in Handle /\ reg[o].token \in Token
    BY <2>2 DEF RegistrationSound, TypeOK, Registration
  <2>5. CASE Refused(o)
    <3>1. token' = token /\ UNCHANGED <<leases, bytes>> /\ reg'[o] = NoReg
      BY <2>5 DEF Refused, Quiet
    <3>2. \A h \in Handle : storage'[h] = IF h = reg[o].handle THEN "None" ELSE storage[h]
      <4>1. storage' = [storage EXCEPT ![reg[o].handle] = "None"]
        BY <1>4, <2>2, <3>1 DEF RegisterAdmit, TypeOK, NoReg, Registration
      <4> QED BY <4>1 DEF TypeOK
    <3>3. SlotsSound'
      BY <2>2, <3>2 DEF SlotsSound
    <3>4. \A p \in Owner : reg[p] # NoReg => reg[p].handle \in Handle
      BY DEF TypeOK, Registration
    <3>5. \A p \in Owner : p # o /\ reg[p] # NoReg => reg[p].handle # reg[o].handle
      BY <2>2 DEF RegistrationSound
    <3>6. RegistrationSound'
      BY <2>1, <2>2, <2>3, <3>1, <3>2, <3>4, <3>5 DEF RegistrationSound
    <3>7. \A p \in Owner \ owners' : leases[p] = 0 /\ reg'[p] = NoReg
      BY <2>1, <2>3, <2>4 DEF Books, GoneIdle
    <3> QED BY <2>1, <3>1, <3>3, <3>6, <3>7, BooksKept
  <2>6. CASE Lent(o, reg[o].token) /\ storage' = storage
    <3>1. Books' /\ BooksTyped
      BY <2>1, <2>3, <2>4, <2>6, BooksLent
    <3>2. SlotsSound'
      BY <2>2, <2>6 DEF SlotsSound
    <3> DEFINE t == reg[o].token
    <3>3. token[t] = "producer" /\ Home[t] = o /\ token'[t] = "lent"
          /\ \A x \in Token : x # t => token'[x] = token[x]
      BY <2>4, <2>6 DEF Lent, TypeOK
    <3>4. reg'[o] = [reg[o] EXCEPT !.stage = "admitted"] /\ reg[o] \in Registration
      <4>1. Admissible(o, reg[o].token)
        BY <2>6 DEF Lent
      <4> QED BY <1>4, <2>2, <4>1 DEF RegisterAdmit, TypeOK
    <3>5. reg'[o].token = t /\ reg'[o].handle = reg[o].handle /\ reg'[o].stage = "admitted"
      BY <3>4 DEF Registration
    <3>6. \A p \in Owner : p # o /\ reg[p] # NoReg =>
             Home[reg[p].token] = p /\ reg[p].token \in Token /\ reg[p].token # t
      BY <3>3 DEF RegistrationSound, TypeOK, Registration
    <3> HIDE DEF t
    <3>7. RegistrationSound'
      <4> SUFFICES ASSUME NEW p \in Owner, reg'[p] # NoReg
          PROVE  /\ p \in owners' /\ Home[reg'[p].token] = p
                 /\ reg'[p].handle < next' /\ storage'[reg'[p].handle] = "Reserved"
                 /\ reg'[p].stage = "reserved" => token'[reg'[p].token] = "producer"
                 /\ \A q \in Owner : q # p /\ reg'[q] # NoReg => reg'[q].handle # reg'[p].handle
        BY DEF RegistrationSound
      <4>1. \A q \in Owner : (reg'[q] # NoReg => reg[q] # NoReg)
                             /\ (reg[q] # NoReg => reg'[q].handle = reg[q].handle)
        BY <2>2, <2>3, <3>5
      <4>2. CASE p = o
        BY <4>1, <4>2, <2>1, <2>2, <2>6, <3>3, <3>5 DEF RegistrationSound
      <4>3. CASE p # o
        BY <4>1, <4>3, <2>1, <2>2, <2>3, <2>6, <3>3, <3>6 DEF RegistrationSound
      <4> QED BY <4>2, <4>3
    <3> QED BY <3>1, <3>2, <3>7
  <2> QED BY <2>1, <2>5, <2>6
<1>5. CASE RegisterCommit(o)
  <2>1. UNCHANGED <<owners, next, token, calling, leases, bytes>> /\ reg[o] # NoReg
    BY <1>5 DEF RegisterCommit, NoReg
  <2>2. reg'[o] = NoReg /\ \A p \in Owner : p # o => reg'[p] = reg[p]
    BY <1>5 DEF RegisterCommit, TypeOK
  <2> DEFINE g == reg[o].handle
  <2>3. \A p \in Owner : reg[p] # NoReg => reg[p].handle \in Handle
    BY DEF TypeOK, Registration
  <2>4. \A p \in Owner : p # o /\ reg[p] # NoReg => reg[p].handle # g
    BY <2>1 DEF RegistrationSound
  <2>5. g < next /\ g \in Handle
    BY <2>1, <2>3 DEF RegistrationSound
  <2>6. \A h \in Handle : /\ storage'[h] = IF h = g THEN "Frozen" ELSE storage[h]
                          /\ h # g => alloc'[h] = alloc[h]
    BY <1>5 DEF RegisterCommit, TypeOK
  <2> HIDE DEF g
  <2>7. SlotsSound'
    BY <2>1, <2>5, <2>6, Bounds DEF SlotsSound, TypeOK, Handle
  <2>8. RegistrationSound'
    BY <2>1, <2>2, <2>3, <2>4, <2>6 DEF RegistrationSound
  <2>9. \A p \in Owner \ owners' : leases[p] = 0 /\ reg'[p] = NoReg
    BY <2>1, <2>2 DEF Books, GoneIdle
  <2> QED BY <2>1, <2>7, <2>8, <2>9, BooksKept
<1>6. CASE DispatchCall(o)
  <2>1. UNCHANGED <<slotVars, owners, reg>>
    BY <1>6 DEF DispatchCall
  <2>2. Books' /\ BooksTyped
    BY <1>6, BooksCalled
  <2> DEFINE t == Head(releases[o])
  <2>3. t \in Token /\ token[t] = "lent" /\ token' = [token EXCEPT ![t] = "returned"]
    BY <1>6, CallProperties
  <2> HIDE DEF t
  <2>4. \A x \in Token : token[x] = "producer" => token'[x] = "producer"
    BY <2>3 DEF TypeOK
  <2>5. \A p \in Owner : reg[p] # NoReg => reg[p].token \in Token
    BY DEF TypeOK, Registration
  <2>6. SlotsSound' /\ RegistrationSound'
    BY <2>1, <2>4, <2>5 DEF SlotsSound, RegistrationSound
  <2> QED BY <2>2, <2>6
<1>7. CASE DispatchReturn(o)
  <2>1. UNCHANGED <<slotVars, owners, reg, token>>
    BY <1>7 DEF DispatchReturn
  <2>2. Books' /\ BooksTyped
    BY <1>7, BooksReturned
  <2>3. SlotsSound' /\ RegistrationSound'
    BY <2>1 DEF SlotsSound, RegistrationSound
  <2> QED BY <2>2, <2>3
<1> QED BY <1>1, <1>2, <1>3, <1>4, <1>5, <1>6, <1>7 DEF ProducerNext
-----------------------------------------------------------------------------
(* The frames and their count.                                             *)
LEMMA InsertFrameSound ==
  ASSUME TypeOK, FramesSound, NEW fr \in Frame, FrameSound(fr), InsertFrame(fr)
  PROVE  FramesSound'
<1> DEFINE S == {f \in FrameHandle : frames[f] # None}
           T == {f \in FrameHandle : frames'[f] # None}
<1>1. frameNext \in FrameHandle /\ frames[frameNext] = None /\ frameNext' = frameNext + 1
  BY Bounds DEF InsertFrame, TypeOK, FrameHandle, FramesSound
<1>2. \A f \in FrameHandle : frames'[f] = IF f = frameNext THEN fr ELSE frames[f]
  BY DEF InsertFrame, TypeOK
<1>3. T = S \cup {frameNext} /\ frameNext \notin S
  BY <1>1, <1>2, NoneAssumption
<1>4. IsFiniteSet(S)
  <2>1. IsFiniteSet(FrameHandle) /\ S \subseteq FrameHandle
    BY Bounds, FS_Interval DEF FrameHandle
  <2> HIDE DEF S
  <2> QED BY <2>1, FS_Subset
<1>5. frameCount' = frameCount + 1 /\ frameCount = Cardinality(S)
  BY DEF InsertFrame, FramesSound, FramesCounted
<1>6. frameCount' = Cardinality(T)
  <2> HIDE DEF S, T
  <2> QED BY <1>3, <1>4, <1>5, FS_AddElement
<1>7. FramesCounted'
  BY <1>6 DEF FramesCounted
<1>8. ASSUME NEW f \in FrameHandle, frames'[f] # None
      PROVE  /\ f < frameNext' /\ frames'[f] \in Frame
             /\ frames'[f] = fr \/ (FrameSound(frames[f]) /\ frames'[f] = frames[f])
  <2>1. CASE f = frameNext
    <3>1. frameNext \in Nat
      BY <1>1 DEF FrameHandle
    <3>2. frames'[f] = fr
      BY <1>2, <2>1
    <3> QED BY <1>1, <2>1, <3>1, <3>2
  <2>2. CASE f # frameNext
    <3>1. frames'[f] = frames[f] /\ f < frameNext /\ FrameSound(frames[f]) /\ frames[f] \in Frame
      BY <1>2, <1>8, <2>2 DEF FramesSound, TypeOK
    <3>2. f < frameNext + 1
      BY <1>1, <3>1 DEF FrameHandle
    <3> QED BY <1>1, <3>1, <3>2
  <2> QED BY <2>1, <2>2
<1> QED BY <1>7, <1>8 DEF FramesSound, FrameSound

(* A frame taken out keeps the table sound and counted.                    *)
LEMMA TakeFrameSound ==
  ASSUME TypeOK, FramesSound, NEW f \in FrameHandle, TakeFrame(f)
  PROVE  FramesSound'
<1> DEFINE S == {g \in FrameHandle : frames[g] # None}
           T == {g \in FrameHandle : frames'[g] # None}
<1>1. frames[f] # None /\ frameNext' = frameNext
  BY DEF TakeFrame
<1>2. \A g \in FrameHandle : frames'[g] = IF g = f THEN None ELSE frames[g]
  BY DEF TakeFrame, TypeOK
<1>3. T = S \ {f} /\ f \in S
  BY <1>1, <1>2
<1>4. IsFiniteSet(S)
  <2>1. IsFiniteSet(FrameHandle) /\ S \subseteq FrameHandle
    BY Bounds, FS_Interval DEF FrameHandle
  <2> HIDE DEF S
  <2> QED BY <2>1, FS_Subset
<1>5. frameCount' = frameCount - 1 /\ frameCount = Cardinality(S)
  BY DEF TakeFrame, FramesSound, FramesCounted
<1>6. frameCount' = Cardinality(T)
  <2> HIDE DEF S, T
  <2> QED BY <1>3, <1>4, <1>5, FS_RemoveElement
<1>7. FramesCounted'
  BY <1>6 DEF FramesCounted
<1>8. \A g \in FrameHandle : frames'[g] # None => frames'[g] = frames[g] /\ frames[g] # None
  BY <1>2
<1> QED BY <1>1, <1>7, <1>8 DEF FramesSound, FrameSound

(* The frames' steps keep their table sound and counted.                   *)
LEMMA FrameFramesSound ==
  ASSUME TypeOK, FramesSound, FrameNext
  PROVE  FramesSound'
<1> USE DEF frameVars
<1>0. UNCHANGED frameVars => FramesSound'
  BY DEF FramesSound, FramesCounted, FrameSound
<1>1. ASSUME NEW c \in Handle, NEW b \in Handle, Compose(c, b) PROVE FramesSound'
  <2> DEFINE fr == FrameOf(<<c, b>>)
  <2>1. fr \in Frame
    BY FrameOfType
  <2>2. IsFrozen(c) /\ IsFrozen(b) /\ nonempty[c] /\ InsertFrame(fr)
    BY <1>1 DEF Compose
  <2>3. /\ fr.owners = {alloc[c], alloc[b]} /\ fr.control = alloc[c]
        /\ DOMAIN fr.segments = 1..2 /\ fr.segments[1] = Kept(c)
        /\ \A i \in 1..2 : fr.segments[i] \subseteq fr.owners
    BY <2>2, FrameOfTokens
  <2> HIDE DEF fr
  <2>4. Kept(c) # {} /\ 1 \in 1..2
    BY <2>2 DEF Kept
  <2>5. FrameSound(fr)
    BY <2>3, <2>4 DEF FrameSound
  <2> QED BY <2>1, <2>2, <2>5, InsertFrameSound
<1>2. ASSUME NEW c \in Handle, NEW b \in Handle, SendSegments(c, b) PROVE FramesSound'
  BY <1>0, <1>2 DEF SendSegments
<1>3. ASSUME NEW h \in Handle, SendBuffer(h) PROVE FramesSound'
  BY <1>0, <1>3 DEF SendBuffer
<1>4. ASSUME NEW f \in FrameHandle, RetainFrame(f) PROVE FramesSound'
  <2>1. frames[f] \in Frame /\ FrameSound(frames[f]) /\ InsertFrame(frames[f])
    BY <1>4 DEF RetainFrame, TypeOK, FramesSound
  <2> QED BY <2>1, InsertFrameSound
<1>5. ASSUME NEW f \in FrameHandle, ReleaseFrame(f) PROVE FramesSound'
  BY <1>5, TakeFrameSound DEF ReleaseFrame
<1>6. ASSUME NEW f \in FrameHandle, FrameControl(f) PROVE FramesSound'
  BY <1>0, <1>6 DEF FrameControl
<1>7. ASSUME NEW f \in FrameHandle, SendFrame(f) PROVE FramesSound'
  BY <1>7, TakeFrameSound DEF SendFrame
<1> QED BY <1>1, <1>2, <1>3, <1>4, <1>5, <1>6, <1>7 DEF FrameNext

(* The queue holds whole frames, and so does a writer that borrows them.   *)
LEMMA EnqueueAnchored ==
  ASSUME TypeOK, QueueAnchored, NEW fr, Enqueue(fr),
         fr.owners \subseteq UNION Range(fr.segments)
  PROVE  QueueAnchored'
<1>1. CASE open /\ Len(queue) < Capacity
  <2>1. queue' = Append(queue, fr) /\ queue \in Seq(Outbound)
    BY <1>1 DEF Enqueue, TypeOK
  <2>2. \A i \in DOMAIN queue' : (i \in DOMAIN queue /\ queue'[i] = queue[i]) \/ queue'[i] = fr
    BY <2>1
  <2> QED BY <2>2 DEF QueueAnchored
<1>2. CASE ~(open /\ Len(queue) < Capacity)
  BY <1>2 DEF Enqueue, QueueAnchored
<1> QED BY <1>1, <1>2

(* Whatever is queued keeps all it was made of.                            *)
LEMMA FrameAnchored ==
  ASSUME TypeOK, FramesSound, QueueAnchored, FrameNext
  PROVE  QueueAnchored'
<1> USE DEF outVars
<1>0. UNCHANGED queue => QueueAnchored'
  BY DEF QueueAnchored
<1>1. ASSUME NEW c \in Handle, NEW b \in Handle, Compose(c, b) PROVE QueueAnchored'
  BY <1>0, <1>1 DEF Compose
<1>2. ASSUME NEW c \in Handle, NEW b \in Handle, SendSegments(c, b) PROVE QueueAnchored'
  <2> DEFINE fr == FrameOf(<<c, b>>)
  <2>1. fr \in Frame
    BY FrameOfType
  <2>2. IsFrozen(c) /\ IsFrozen(b) /\ (nonempty[c] \/ nonempty[b]) /\ Enqueue(Submission(fr))
    BY <1>2 DEF SendSegments
  <2>3. /\ DOMAIN fr.segments = 1..2 /\ fr.segments[1] = Kept(c) /\ fr.segments[2] = Kept(b)
    BY <2>2, FrameOfTokens
  <2> HIDE DEF fr
  <2>4. \E i \in DOMAIN fr.segments : fr.segments[i] # {}
    <3>1. 1 \in DOMAIN fr.segments /\ 2 \in DOMAIN fr.segments
      BY <2>3
    <3>2. Kept(c) # {} \/ Kept(b) # {}
      BY <2>2 DEF Kept
    <3> QED BY <2>3, <3>1, <3>2
  <2>5. Submission(fr).owners \subseteq UNION Range(Submission(fr).segments)
    BY <2>1, <2>4, SubmissionProperties
  <2> QED BY <2>2, <2>5, EnqueueAnchored
<1>3. ASSUME NEW h \in Handle, SendBuffer(h) PROVE QueueAnchored'
  <2> DEFINE fr == [owners |-> Kept(h), segments |-> <<Kept(h)>>]
  <2>1. fr.owners \subseteq UNION Range(fr.segments)
    <3>1. fr.owners = Kept(h) /\ fr.segments = <<Kept(h)>>
      OBVIOUS
    <3>2. 1 \in DOMAIN <<Kept(h)>> /\ <<Kept(h)>>[1] = Kept(h)
      OBVIOUS
    <3>3. Kept(h) \in Range(<<Kept(h)>>)
      BY <3>2 DEF Range
    <3> QED BY <3>1, <3>3
  <2> QED BY <1>3, <2>1, EnqueueAnchored DEF SendBuffer
<1>4. ASSUME NEW f \in FrameHandle, RetainFrame(f) PROVE QueueAnchored'
  BY <1>0, <1>4 DEF RetainFrame
<1>5. ASSUME NEW f \in FrameHandle, ReleaseFrame(f) PROVE QueueAnchored'
  BY <1>0, <1>5 DEF ReleaseFrame
<1>6. ASSUME NEW f \in FrameHandle, FrameControl(f) PROVE QueueAnchored'
  BY <1>0, <1>6 DEF FrameControl
<1>7. ASSUME NEW f \in FrameHandle, SendFrame(f) PROVE QueueAnchored'
  <2>1. frames[f] \in Frame /\ FrameSound(frames[f])
    BY <1>7 DEF SendFrame, TakeFrame, TypeOK, FramesSound
  <2>2. Submission(frames[f]).owners \subseteq UNION Range(Submission(frames[f]).segments)
    BY <2>1, SubmissionProperties DEF FrameSound
  <2>3. queue' = queue \/ Enqueue(Submission(frames[f]))
    BY <1>7 DEF SendFrame
  <2> QED BY <1>0, <2>2, <2>3, EnqueueAnchored
<1> QED BY <1>1, <1>2, <1>3, <1>4, <1>5, <1>6, <1>7 DEF FrameNext

(* The writer's steps keep to it as well.                                  *)
LEMMA WriterAnchored ==
  ASSUME TypeOK, QueueAnchored, BorrowedThroughFlush, WriterNext
  PROVE  QueueAnchored' /\ BorrowedThroughFlush'
<1> USE DEF outVars, connVars
<1>1. CASE WriterTakes
  <2>1. queue \in Seq(Outbound) /\ queue # <<>> /\ queue' = Tail(queue)
        /\ writing' = [owners |-> Head(queue).owners, segments |-> Head(queue).segments, at |-> 1]
    BY <1>1 DEF WriterTakes, TypeOK
  <2>2. /\ 1 \in DOMAIN queue /\ Head(queue) = queue[1]
        /\ \A i \in DOMAIN queue' : i + 1 \in DOMAIN queue /\ queue'[i] = queue[i + 1]
    BY <2>1
  <2>3. QueueAnchored'
    BY <2>2 DEF QueueAnchored
  <2>4. writing'.owners \subseteq UNION Range(writing'.segments)
    BY <2>1, <2>2 DEF QueueAnchored
  <2> QED BY <2>3, <2>4 DEF BorrowedThroughFlush, RetainedThroughFlush, InWriter
<1>2. CASE WriterWrites
  <2>1. UNCHANGED <<queue, link>>
    BY <1>2 DEF WriterWrites
  <2>2. /\ writing'.owners = writing.owners /\ writing # None
        /\ transport = "WebSocket" => writing'.segments = writing.segments
    BY <1>2, WriterWritesProperties, NoneAssumption
  <2> QED BY <2>1, <2>2 DEF QueueAnchored, BorrowedThroughFlush, RetainedThroughFlush, InWriter,
                            transport
<1>3. CASE WriterFlushes
  BY <1>3 DEF WriterFlushes, QueueAnchored, BorrowedThroughFlush, RetainedThroughFlush
<1>4. CASE ConnectionEnds
  BY <1>4 DEF ConnectionEnds, QueueAnchored, BorrowedThroughFlush, RetainedThroughFlush
<1>5. CASE ConnectionBegins
  BY <1>5 DEF ConnectionBegins, QueueAnchored, BorrowedThroughFlush, RetainedThroughFlush, InWriter,
              transport
<1> QED BY <1>1, <1>2, <1>3, <1>4, <1>5 DEF WriterNext
-----------------------------------------------------------------------------
(* The inductive invariant.                                                *)
IndInv ==
    /\ TypeOK /\ LoansSound /\ Books /\ RegistrationSound /\ SlotsSound
    /\ FramesSound /\ QueueAnchored /\ BorrowedThroughFlush

(* It holds initially,                                                     *)
LEMMA IndInit == Init => IndInv
<1> SUFFICES ASSUME Init PROVE IndInv
  OBVIOUS
<1>1. TypeOK
  BY TypeInit
<1>2. Live = {}
  BY Bounds, Constants DEF Init, Live, Referenced, InSlot, InFrame, InQueue, InWriter,
     InRegistration, NoReg
<1>3. LoansSound
  BY <1>2 DEF Init, LoansSound, ReleasesDue, LentOrDue, LiveLent, IsInjective
<1>4. \A o \in Owner : Charged(o) = {}
  BY NoneAssumption DEF Init, Charged, OnLoan
<1>5. Cardinality({}) = 0 /\ SumOf({}) = 0
  BY FS_EmptySet, SumStep
<1>6. Books
  <2>1. \A o \in Owner : leases[o] = 0 /\ bytes[o] = 0 /\ calling[o] = None /\ reg[o] = NoReg
    BY DEF Init
  <2>2. LeasesCounted
    BY <1>4, <1>5, <2>1, Bounds DEF LeasesCounted
  <2> QED BY <2>1, <2>2 DEF Books, CallingReturned, GoneIdle
<1>7. RegistrationSound /\ SlotsSound
  BY DEF Init, RegistrationSound, SlotsSound
<1>8. FramesSound
  <2>1. {f \in FrameHandle : frames[f] # None} = {}
    BY DEF Init
  <2> QED BY <2>1, <1>5 DEF Init, FramesSound, FramesCounted
<1>9. QueueAnchored /\ BorrowedThroughFlush
  BY DEF Init, QueueAnchored, BorrowedThroughFlush, RetainedThroughFlush
<1> QED BY <1>1, <1>3, <1>6, <1>7, <1>8, <1>9 DEF IndInv

(* is kept by the producers,                                               *)
LEMMA IndProducer ==
  ASSUME IndInv, NEW o \in Owner, ProducerNext(o)
  PROVE  IndInv'
<1> USE DEF IndInv
<1>1. SlotsSound' /\ RegistrationSound' /\ Books' /\ BooksTyped
  BY ProducerTables
<1>2. TypeOK'
  BY <1>1, ProducerType DEF BooksTyped
<1>3. LoansSound'
  <2>1. CASE Quiet
    BY <2>1, LoansKept DEF Quiet
  <2>2. CASE RegisterAdmit(o)
    BY <2>2, AdmitProperties, LoansKept, LoansLent DEF Refused, Quiet
  <2>3. CASE DispatchCall(o)
    BY <2>3, CallProperties
  <2> QED BY <2>1, <2>2, <2>3, ProducerLive
<1>4. UNCHANGED <<frameVars, connVars, outVars>>
  BY DEF ProducerNext, CreateOwner, CloseOwner, DestroyOwner, RegisterReserve, RegisterAdmit,
         RegisterCommit, DispatchBegin, DispatchCall, DispatchReturn, DispatchEnd
<1>5. FramesSound'
  BY <1>4 DEF frameVars, FramesSound, FramesCounted, FrameSound
<1>6. QueueAnchored' /\ BorrowedThroughFlush'
  BY <1>4 DEF connVars, outVars, QueueAnchored, BorrowedThroughFlush, RetainedThroughFlush, InWriter,
              transport
<1> QED BY <1>1, <1>2, <1>3, <1>5, <1>6

(* by the buffer handles,                                                  *)
LEMMA IndBuffer ==
  ASSUME IndInv, BufferNext
  PROVE  IndInv'
<1> USE DEF IndInv
<1>1. TypeOK'
  BY BufferType
<1>2. LoansSound'
  BY BufferLive, LoansKept, LoansDropped DEF Quiet, Dropping
<1>3. /\ SlotsKept
      /\ UNCHANGED <<owners, made, bytes, leases, closing, dispatching, calling, reg, token,
                     frameVars, connVars, outVars>>
  BY BufferKeeps
<1>4. SlotsSound' /\ RegistrationSound'
  BY <1>1, <1>3, RegistrationKept DEF SlotsKept
<1>5. Books'
  BY <1>3, BooksKept DEF Books, GoneIdle
<1>6. FramesSound'
  BY <1>3 DEF frameVars, FramesSound, FramesCounted, FrameSound
<1>7. QueueAnchored' /\ BorrowedThroughFlush'
  BY <1>3 DEF connVars, outVars, QueueAnchored, BorrowedThroughFlush, RetainedThroughFlush, InWriter,
              transport
<1> QED BY <1>1, <1>2, <1>4, <1>5, <1>6, <1>7

(* by the frames,                                                          *)
LEMMA IndFrame ==
  ASSUME IndInv, FrameNext
  PROVE  IndInv'
<1> USE DEF IndInv
<1>1. TypeOK'
  BY FrameType DEF FramesSound
<1>2. LoansSound'
  BY FrameLive, LoansKept, LoansDropped DEF Quiet, Dropping
<1>3. /\ SlotsKept
      /\ UNCHANGED <<owners, made, bytes, leases, closing, dispatching, calling, reg, token,
                     connVars, writing>>
  BY FrameKeeps
<1>4. SlotsSound' /\ RegistrationSound'
  BY <1>1, <1>3, RegistrationKept DEF SlotsKept
<1>5. Books'
  BY <1>3, BooksKept DEF Books, GoneIdle
<1>6. FramesSound' /\ QueueAnchored'
  BY FrameFramesSound, FrameAnchored
<1>7. BorrowedThroughFlush'
  BY <1>3 DEF connVars, BorrowedThroughFlush, RetainedThroughFlush, InWriter, transport
<1> QED BY <1>1, <1>2, <1>4, <1>5, <1>6, <1>7

(* by the writer,                                                          *)
LEMMA IndWriter ==
  ASSUME IndInv, WriterNext
  PROVE  IndInv'
<1> USE DEF IndInv
<1>1. TypeOK'
  BY WriterType
<1>2. LoansSound'
  BY WriterLive, LoansKept, LoansDropped DEF Quiet, Dropping
<1>3. /\ SlotsKept
      /\ UNCHANGED <<owners, made, bytes, leases, closing, dispatching, calling, reg, token,
                     frameVars, link>>
  BY WriterKeeps
<1>4. SlotsSound' /\ RegistrationSound'
  BY <1>1, <1>3, RegistrationKept DEF SlotsKept
<1>5. Books'
  BY <1>3, BooksKept DEF Books, GoneIdle
<1>6. FramesSound'
  BY <1>3 DEF frameVars, FramesSound, FramesCounted, FrameSound
<1>7. QueueAnchored' /\ BorrowedThroughFlush'
  BY WriterAnchored
<1> QED BY <1>1, <1>2, <1>4, <1>5, <1>6, <1>7

(* and so by every step.                                                   *)
LEMMA IndNext == IndInv /\ [Next]_vars => IndInv'
<1> SUFFICES ASSUME IndInv, [Next]_vars PROVE IndInv'
  OBVIOUS
<1>1. CASE Next
  BY <1>1, IndProducer, IndBuffer, IndFrame, IndWriter DEF Next
<1>2. CASE UNCHANGED vars
  <2>1. UNCHANGED <<slotVars, reg, token, calling, leases, bytes, owners, releases, frameVars,
                    connVars, outVars, views>>
    BY <1>2 DEF vars, slotVars, frameVars, connVars, outVars
  <2>2. TypeOK'
    BY <1>2 DEF vars, IndInv, TypeOK
  <2>3. Live' = Live
    BY <2>1, LiveParts, LivePartsNext, SlotsSame, ViewsSame, FramesSame, OutSame, RegsSame
       DEF slotVars, frameVars, outVars
  <2>4. LoansSound'
    BY <2>1, <2>3, LoansKept DEF IndInv
  <2>5. SlotsSound' /\ RegistrationSound' /\ FramesSound'
    BY <2>1 DEF IndInv, slotVars, frameVars, SlotsSound, RegistrationSound, FramesSound,
                FramesCounted, FrameSound
  <2>6. Books'
    BY <2>1, BooksKept DEF IndInv, Books, GoneIdle
  <2>7. QueueAnchored' /\ BorrowedThroughFlush'
    BY <2>1 DEF IndInv, connVars, outVars, QueueAnchored, BorrowedThroughFlush,
                RetainedThroughFlush, InWriter, transport
  <2> QED BY <2>2, <2>4, <2>5, <2>6, <2>7 DEF IndInv
<1> QED BY <1>1, <1>2

(* The inductive invariant holds in every behaviour.                       *)
LEMMA Invariance == Spec => []IndInv
  BY IndInit, IndNext, PTL DEF Spec
-----------------------------------------------------------------------------
(* The release queue of an owner holds distinct tokens on loan, so it is   *)
(* never longer than the quota it was reserved for.                        *)
LEMMA QueueWithinQuota ==
  ASSUME IndInv, NEW o \in Owner
  PROVE  Len(releases[o]) <= MaxLeases
<1> DEFINE s == releases[o]
           n == Len(s)
<1>1. s \in Seq(Token) /\ n \in Nat /\ s \in [1..n -> Token] /\ IsInjective(s)
  BY DEF IndInv, TypeOK, LoansSound, ReleasesDue
<1>2. \A i \in 1..n : s[i] \in Charged(o)
  BY <1>1 DEF IndInv, LoansSound, ReleasesDue, Charged, OnLoan
<1>3. s \in Injection(1..n, Charged(o))
  <2> HIDE DEF s, n
  <2>1. s \in [1..n -> Charged(o)]
    BY <1>1, <1>2
  <2> QED BY <1>1, <2>1 DEF Injection
<1>4. IsFiniteSet(Charged(o))
  BY ChargedFinite
<1>5. Cardinality(1..n) <= Cardinality(Charged(o))
  <2> HIDE DEF s, n
  <2> QED BY <1>3, <1>4, FS_Injection
<1>6. Cardinality(1..n) = n
  <2> HIDE DEF s, n
  <2> QED BY <1>1, FS_Interval
<1>7. leases[o] = Cardinality(Charged(o)) /\ leases[o] <= MaxLeases /\ leases[o] \in Nat
  BY DEF IndInv, Books, LeasesCounted, TypeOK
<1> HIDE DEF s, n
<1>8. n <= MaxLeases
  BY <1>1, <1>5, <1>6, <1>7, Bounds
<1> QED BY <1>8 DEF s, n

(* The counters agree with the tables they summarise, whichever is updated *)
(* first: every owner's leases and bytes are those of its loans and of the *)
(* callback it is in, within its quotas, and the frames' count is that of  *)
(* their table (LeaseOwner::admit, dispatch; FrameStore::insert, take).    *)
THEOREM BooksAlwaysBalance == Spec => []BooksBalance
<1>1. IndInv => BooksBalance
  <2> SUFFICES ASSUME IndInv PROVE BooksBalance
    OBVIOUS
  <2>1. LeasesCharged
    BY QueueWithinQuota DEF IndInv, Books, LeasesCounted, LeasesCharged, SumOf
  <2> QED BY <2>1 DEF IndInv, FramesSound, BooksBalance
<1> QED BY <1>1, Invariance, PTL

(* An owner that is gone has no loan left, live, queued or in its callback *)
(* (OwnerRegistry::destroy).                                               *)
THEOREM OwnersOutliveLoans == Spec => []OwnerOutlivesLoans
<1>1. IndInv => OwnerOutlivesLoans
  <2> SUFFICES ASSUME IndInv, NEW o \in made \ owners PROVE OnLoan(o) = {} /\ calling[o] = None
    BY DEF OwnerOutlivesLoans
  <2>1. o \in Owner /\ leases[o] = 0
    BY DEF IndInv, TypeOK, Books, GoneIdle
  <2>2. IsFiniteSet(Charged(o)) /\ Cardinality(Charged(o)) = 0
    BY <2>1, ChargedFinite DEF IndInv, Books, LeasesCounted
  <2>3. Charged(o) = {}
    BY <2>2, FS_EmptySet
  <2>4. calling[o] \in Token \cup {None}
    BY <2>1 DEF IndInv, TypeOK
  <2> QED BY <2>3, <2>4 DEF Charged
<1> QED BY <1>1, Invariance, PTL

(* On a WebSocket the frame the writer has in hand keeps every allocation  *)
(* it came with until it is flushed or given up.                           *)
THEOREM FramesBorrowedThroughFlush == Spec => []BorrowedThroughFlush
  BY Invariance, PTL DEF IndInv

(* No step brings an id back that was handed out and given up.             *)
LEMMA DeadStays ==
  ASSUME IndInv, [Next]_vars
  PROVE  \A h \in Handle : h < next /\ storage[h] = "None" => storage'[h] = "None"
<1> USE DEF slotVars
<1>1. ASSUME NEW o \in Owner, ProducerNext(o), NEW h \in Handle, h < next, storage[h] = "None"
      PROVE  storage'[h] = "None"
  <2>1. next \in Nat /\ storage \in [Handle -> {"None", "Reserved", "Mutable", "Frozen"}]
    BY Bounds DEF IndInv, TypeOK
  <2>2. reg[o] # NoReg => storage[reg[o].handle] = "Reserved"
    BY DEF IndInv, RegistrationSound
  <2>3. ASSUME NEW t \in Token, NEW ne \in BOOLEAN, RegisterReserve(o, t, ne)
        PROVE  storage'[h] = "None"
    BY <1>1, <2>1, <2>3 DEF RegisterReserve, Handle
  <2>4. CASE RegisterAdmit(o)
    <3>1. storage' = storage \/ storage' = [storage EXCEPT ![reg[o].handle] = "None"]
      BY <2>4 DEF RegisterAdmit
    <3> QED BY <1>1, <2>1, <3>1
  <2>5. CASE RegisterCommit(o)
    <3>1. reg[o] # NoReg /\ storage' = [storage EXCEPT ![reg[o].handle] = "Frozen"]
      BY <2>5 DEF RegisterCommit, NoReg
    <3> QED BY <1>1, <2>1, <2>2, <3>1
  <2>6. CASE storage' = storage
    BY <1>1, <2>6
  <2> QED BY <1>1, <2>3, <2>4, <2>5, <2>6 DEF ProducerNext, CreateOwner, CloseOwner,
         DestroyOwner, DispatchBegin, DispatchCall, DispatchReturn, DispatchEnd
<1>2. ASSUME NEW kind, NEW a, NEW ne, Insert(kind, a, ne),
             NEW h \in Handle, h < next, storage[h] = "None"
      PROVE  storage'[h] = "None"
  BY <1>2, Bounds DEF Insert, IndInv, TypeOK, Handle
<1>3. ASSUME NEW g \in Handle, RemoveSlot(g), NEW h \in Handle, storage[h] = "None"
      PROVE  storage'[h] = "None"
  BY <1>3 DEF RemoveSlot, IndInv, TypeOK
<1>4. ASSUME BufferNext, NEW h \in Handle, h < next, storage[h] = "None"
      PROVE  storage'[h] = "None"
  <2>1. CASE Allocate BY <2>1, <1>2, <1>4 DEF Allocate
  <2>2. ASSUME NEW g \in Handle, ReleaseHandle(g) PROVE storage'[h] = "None"
    BY <2>2, <1>3, <1>4 DEF ReleaseHandle
  <2>3. ASSUME NEW g \in Handle, NEW ne \in BOOLEAN, Freeze(g, ne) PROVE storage'[h] = "None"
    BY <2>3, <1>4 DEF Freeze, IndInv, TypeOK
  <2>4. ASSUME NEW g \in Handle, NEW ne \in BOOLEAN, Slice(g, ne) PROVE storage'[h] = "None"
    BY <2>4, <1>2, <1>4 DEF Slice
  <2>5. ASSUME NEW g \in Handle, Export(g) PROVE storage'[h] = "None"
    BY <2>5, <1>4 DEF Export
  <2>6. ASSUME NEW t \in Token, ViewFinalizer(t) PROVE storage'[h] = "None"
    BY <2>6, <1>4 DEF ViewFinalizer
  <2> QED BY <1>4, <2>1, <2>2, <2>3, <2>4, <2>5, <2>6 DEF BufferNext
<1>5. ASSUME FrameNext, NEW h \in Handle, h < next, storage[h] = "None"
      PROVE  storage'[h] = "None"
  <2>1. ASSUME NEW c \in Handle, NEW b \in Handle, Compose(c, b) \/ SendSegments(c, b)
        PROVE  storage'[h] = "None"
    BY <2>1, <1>5 DEF Compose, SendSegments
  <2>2. ASSUME NEW g \in Handle, SendBuffer(g) PROVE storage'[h] = "None"
    BY <2>2, <1>3, <1>5 DEF SendBuffer
  <2>3. ASSUME NEW f \in FrameHandle, RetainFrame(f) \/ ReleaseFrame(f) \/ SendFrame(f)
        PROVE  storage'[h] = "None"
    BY <2>3, <1>5 DEF RetainFrame, ReleaseFrame, SendFrame
  <2>4. ASSUME NEW f \in FrameHandle, FrameControl(f) PROVE storage'[h] = "None"
    BY <2>4, <1>2, <1>5 DEF FrameControl
  <2> QED BY <1>5, <2>1, <2>2, <2>3, <2>4 DEF FrameNext
<1>6. WriterNext \/ UNCHANGED vars => storage' = storage
  BY DEF WriterNext, WriterTakes, WriterWrites, WriterFlushes, ConnectionEnds, ConnectionBegins,
         writerUnchanged, vars
<1> QED BY <1>1, <1>4, <1>5, <1>6 DEF Next

(* A handle given back stays dead: no finalizer or queued use meets        *)
(* another buffer under its id (BufferStore::insert_resource).             *)
THEOREM StaleHandlesStayDead == Spec => StaleHandleStaysDead
<1>1. IndInv /\ [Next]_vars =>
        [\A h \in Handle : h < next /\ storage[h] = "None" => storage'[h] = "None"]_vars
  BY DeadStays
<1> QED BY <1>1, Invariance, PTL DEF Spec, StaleHandleStaysDead

(* The library keeps its promise to every producer: a lent span is given   *)
(* back once, and only when no handle, view, frame or queued write reads   *)
(* it any more (external_leases.rs).                                       *)
THEOREM PromiseToProducers == Spec => LoansPromise
<1>1. Init => Promise!LoanInit
  <2> SUFFICES ASSUME Init PROVE Promise!LoanInit
    OBVIOUS
  <2>1. {t \in Token : Referenced(t)} = {}
    BY Bounds, Constants DEF Init, Referenced, InSlot, InFrame, InQueue, InWriter,
       InRegistration, NoReg
  <2> QED BY <2>1 DEF Init, Promise!LoanInit
<1>2. IndInv /\ [Next]_vars => [Promise!LoanNext]_(Promise!loanVars)
  <2> SUFFICES ASSUME IndInv, [Next]_vars PROVE Promise!LoanNext \/ (token' = token /\ Live' = Live)
    BY DEF Promise!loanVars, Live
  <2>1. ASSUME NEW ts \in SUBSET Token, ts # {}, ts \subseteq Live, Live' = Live \ ts, token' = token
        PROVE  Promise!LoanNext
    BY <2>1 DEF Promise!LoanNext, Promise!Forget, Live
  <2>2. CASE Dropping
    <3>1. Live' \subseteq Live /\ Live \subseteq Token /\ token' = token
      BY <2>2 DEF Dropping, Live
    <3> QED BY <2>1, <3>1
  <2>3. ASSUME NEW o \in Owner, RegisterAdmit(o) PROVE Promise!LoanNext \/ (token' = token /\ Live' = Live)
    <3>1. Refused(o) \/ Lent(o, reg[o].token)
      BY <2>3, AdmitProperties DEF IndInv
    <3>2. CASE Lent(o, reg[o].token)
      BY <3>2 DEF Lent, Promise!LoanNext, Promise!Lend, Live
    <3> QED BY <3>1, <3>2 DEF Refused, Quiet
  <2>4. ASSUME NEW o \in Owner, DispatchCall(o) PROVE Promise!LoanNext
    <3>1. /\ Head(releases[o]) \in Token /\ token[Head(releases[o])] = "lent"
          /\ Head(releases[o]) \notin Live /\ Live' = Live
          /\ token' = [token EXCEPT ![Head(releases[o])] = "returned"]
      BY <2>4, CallProperties DEF IndInv
    <3> QED BY <3>1 DEF Promise!LoanNext, Promise!Return, Live
  <2>5. ASSUME NEW o \in Owner, ProducerNext(o) PROVE Promise!LoanNext \/ (token' = token /\ Live' = Live)
    BY <2>3, <2>4, <2>5, ProducerLive DEF IndInv, Quiet
  <2>6. CASE BufferNext \/ FrameNext \/ WriterNext
    BY <2>2, <2>6, BufferLive, FrameLive, WriterLive DEF IndInv, Quiet
  <2>7. CASE UNCHANGED vars
    <3>1. UNCHANGED <<slotVars, reg, token, frames, outVars, views>>
      BY <2>7 DEF vars, slotVars, outVars
    <3> QED BY <3>1, LiveParts, LivePartsNext, SlotsSame, ViewsSame, FramesSame, OutSame, RegsSame
            DEF slotVars, outVars
  <2> QED BY <2>5, <2>6, <2>7 DEF Next
<1> QED BY <1>1, <1>2, Invariance, PTL DEF Spec, LoansPromise, Promise!LoanSpec
=============================================================================
