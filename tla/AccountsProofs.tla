----------------------------- MODULE AccountsProofs -----------------------------
(***************************************************************************)
(* Proofs about the parts that let people in and that set policies, as       *)
(* MCAccounts puts them together: the invariant of each part, kept by every  *)
(* step of it, and from these the properties the run checks, for every       *)
(* number of handlers, every limit and every set of settings.                *)
(***************************************************************************)
EXTENDS MCAccounts, CommonLemmas

-----------------------------------------------------------------------------
(* EmailVerification.                                                      *)

\* The counts of the model are those the theorems about finite sets speak of.
LEMMA VerificationCounts ==
    /\ \A S : Verification!Cardinality(S) = Cardinality(S)
    /\ \A S : Verification!IsFiniteSet(S) = IsFiniteSet(S)
<1>1. \A S : Verification!Cardinality(S) = Cardinality(S)
  BY DEF Verification!Cardinality, Cardinality
<1>2. \A S : Verification!IsFiniteSet(S) = IsFiniteSet(S)
  BY DEF Verification!IsFiniteSet, IsFiniteSet
<1> QED
  BY <1>1, <1>2

EmailHandlers == [pc : Verification!Pcs, code : Nat]

\* What a step may do to the rows: codes are added and used up, never taken back.
EmailGrows ==
    /\ user' \in {"none", "unverified", "verified"}
    /\ user # "none" => user' # "none"
    /\ user' = "none" <=> codes' = <<>>
    /\ codes' \in Seq(Verification!Codes) /\ Len(codes') >= Len(codes)
    /\ \A i \in 1 .. Len(codes) : codes[i].used => codes'[i].used
    /\ received \subseteq received' /\ received' \subseteq DOMAIN codes'
    /\ lost' \in 0 .. LostMails

\* What handler p alone moves.
OnlyHandler(p) ==
    /\ proc' \in [Proc -> EmailHandlers]
    /\ \A q \in Proc \ {p} : proc'[q] = proc[q]

\* The rows and the handlers, as the invariant has them.
LEMMA CodesAreSequence ==
    ASSUME Verification!IInv
    PROVE  /\ codes \in Seq(Verification!Codes) /\ Len(codes) \in Nat
           /\ DOMAIN codes = 1 .. Len(codes)
           /\ \A i \in 1 .. Len(codes) : codes[i] \in Verification!Codes
           /\ proc \in [Proc -> EmailHandlers]
  BY LenProperties DEF Verification!IInv, Verification!Shape, EmailHandlers

\* What the other handlers know stays true.
LEMMA EmailKnowledgeStays ==
    ASSUME Verification!IInv, EmailGrows, NEW p \in Proc, OnlyHandler(p), Verification!Knows(p)'
    PROVE  Verification!Shape' /\ \A q \in Proc : Verification!Knows(q)'
<1>1. Verification!Shape'
  BY DEF EmailGrows, OnlyHandler, Verification!Shape, EmailHandlers
<1>2. DOMAIN codes' = 1 .. Len(codes') /\ Len(codes') \in Nat
  BY LenProperties DEF EmailGrows
<1>3. ASSUME NEW q \in Proc \ {p} PROVE Verification!Knows(q)'
  <2>1. proc'[q] = proc[q] /\ Verification!Knows(q) /\ proc[q] \in EmailHandlers
    BY CodesAreSequence DEF OnlyHandler, Verification!IInv
  <2> QED
    BY <1>2, <2>1, CodesAreSequence DEF Verification!Knows, EmailGrows, EmailHandlers
<1> QED
  BY <1>1, <1>3

\* The verified address still has its code.
LEMMA VerifiedStays ==
    ASSUME Verification!IInv, EmailGrows,
           user' = "verified" => user = "verified" \/ \E c \in received' : codes'[c].used
    PROVE  Verification!VerifiedByCode'
<1>1. \A c \in received : c \in 1 .. Len(codes)
  BY CodesAreSequence DEF Verification!IInv, Verification!Shape
<1> QED
  BY <1>1 DEF Verification!VerifiedByCode, Verification!IInv, EmailGrows

\* An exhausted code has somebody to mark it.
LEMMA ExhaustedStays ==
    ASSUME Verification!IInv, EmailGrows, NEW p \in Proc, OnlyHandler(p),
           \A i \in DOMAIN codes' : codes'[i].attempts >= VerificationAttempts =>
              \/ codes'[i].used
              \/ proc'[p] = [pc |-> "lock", code |-> i]
              \/ /\ i \in DOMAIN codes /\ codes[i].attempts >= VerificationAttempts
                 /\ proc[p] # [pc |-> "lock", code |-> i]
    PROVE  Verification!ExhaustedIsUsed'
<1> SUFFICES ASSUME NEW i \in DOMAIN codes', codes'[i].attempts >= VerificationAttempts,
                    ~codes'[i].used, proc'[p] # [pc |-> "lock", code |-> i]
             PROVE  \E q \in Proc : proc'[q] = [pc |-> "lock", code |-> i]
  BY DEF Verification!ExhaustedIsUsed
<1>1. /\ i \in DOMAIN codes /\ codes[i].attempts >= VerificationAttempts
      /\ proc[p] # [pc |-> "lock", code |-> i]
  OBVIOUS
<1>2. ~codes[i].used
  BY <1>1, CodesAreSequence DEF EmailGrows
<1>3. PICK q \in Proc : proc[q] = [pc |-> "lock", code |-> i]
  BY <1>1, <1>2 DEF Verification!IInv, Verification!ExhaustedIsUsed
<1> QED
  BY <1>1, <1>3 DEF OnlyHandler

\* The handlers that are counted are finitely many.
LEMMA HandlersCounted ==
    ASSUME IsFiniteSet(Proc)
    PROVE  \A S \in SUBSET Proc : /\ Cardinality(S) \in Nat /\ Cardinality(Proc) \in Nat
                                  /\ Cardinality(S) <= Cardinality(Proc)
                                  /\ \A T \in SUBSET S : Cardinality(T) <= Cardinality(S)
                                  /\ \A p \in S : Cardinality(S \ {p}) = Cardinality(S) - 1
<1> SUFFICES ASSUME NEW S \in SUBSET Proc
             PROVE  /\ Cardinality(S) \in Nat /\ Cardinality(Proc) \in Nat
                    /\ Cardinality(S) <= Cardinality(Proc)
                    /\ \A T \in SUBSET S : Cardinality(T) <= Cardinality(S)
                    /\ \A p \in S : Cardinality(S \ {p}) = Cardinality(S) - 1
  OBVIOUS
<1>1. IsFiniteSet(S) /\ Cardinality(S) <= Cardinality(Proc)
  BY FS_Subset
<1> QED
  BY <1>1, FS_Subset, FS_CardinalityType, FS_RemoveElement

\* Of codes there are not more than those who passed the bound and those who will add one.
LEMMA CodesBounded ==
    ASSUME Verification!VerificationAssumption, Verification!IInv, EmailGrows, NEW p \in Proc,
           OnlyHandler(p),
           \/ Len(codes') < VerificationCodes
           \/ Len(codes') = Len(codes) /\ (p \in Verification!Adding' => p \in Verification!Adding)
           \/ /\ Len(codes') = Len(codes) + 1
              /\ p \in Verification!Adding /\ p \notin Verification!Adding'
    PROVE  Len(codes') + Cardinality(Verification!Adding')
               <= VerificationCodes - 1 + Cardinality(Proc)
<1> DEFINE A == Verification!Adding  B == Verification!Adding'
<1>1. B \subseteq A \cup {p} /\ A \in SUBSET Proc /\ B \in SUBSET Proc
  BY DEF Verification!Adding, OnlyHandler
<1>2. /\ Len(codes) + Cardinality(A) <= VerificationCodes - 1 + Cardinality(Proc)
      /\ VerificationCodes \in Nat /\ IsFiniteSet(Proc) /\ Len(codes) \in Nat
      /\ Len(codes') \in Nat
  BY CodesAreSequence, LenProperties, VerificationCounts
     DEF Verification!IInv, Verification!Overshoot, Verification!VerificationAssumption, EmailGrows
<1>3. /\ Cardinality(A) \in Nat /\ Cardinality(B) \in Nat /\ Cardinality(Proc) \in Nat
      /\ Cardinality(B) <= Cardinality(Proc)
  BY <1>1, <1>2, HandlersCounted
<1>4. CASE Len(codes') < VerificationCodes
  BY <1>2, <1>3, <1>4
<1>5. CASE Len(codes') = Len(codes) /\ (p \in B => p \in A)
  <2>1. B \in SUBSET A
    BY <1>1, <1>5
  <2>2. Cardinality(B) <= Cardinality(A)
    BY <2>1, <1>1, <1>2, HandlersCounted
  <2> QED
    BY <1>2, <1>3, <1>5, <2>2
<1>6. CASE Len(codes') = Len(codes) + 1 /\ p \in A /\ p \notin B
  <2>1. B \in SUBSET (A \ {p}) /\ A \ {p} \in SUBSET Proc
    BY <1>1, <1>6
  <2>2. Cardinality(B) <= Cardinality(A \ {p}) /\ Cardinality(A \ {p}) = Cardinality(A) - 1
    BY <2>1, <1>1, <1>2, <1>6, HandlersCounted
  <2> QED
    BY <1>2, <1>3, <1>6, <2>2
<1> QED
  BY <1>4, <1>5, <1>6

\* And of guesses at a code.
LEMMA GuessesBounded ==
    ASSUME Verification!VerificationAssumption, Verification!IInv, EmailGrows, NEW p \in Proc,
           OnlyHandler(p), NEW i \in DOMAIN codes',
           \/ codes'[i].attempts < VerificationAttempts
           \/ /\ i \in DOMAIN codes /\ codes'[i].attempts = codes[i].attempts
              /\ (p \in Verification!Counting(i)' => p \in Verification!Counting(i))
           \/ /\ i \in DOMAIN codes /\ codes'[i].attempts = codes[i].attempts + 1
              /\ p \in Verification!Counting(i) /\ p \notin Verification!Counting(i)'
    PROVE  codes'[i].attempts + Cardinality(Verification!Counting(i)')
               <= VerificationAttempts - 1 + Cardinality(Proc)
<1> DEFINE A == Verification!Counting(i)  B == Verification!Counting(i)'
<1>1. B \subseteq A \cup {p} /\ A \in SUBSET Proc /\ B \in SUBSET Proc
  BY DEF Verification!Counting, OnlyHandler
<1>2. /\ VerificationAttempts \in Nat /\ IsFiniteSet(Proc)
      /\ codes'[i].attempts \in Nat
      /\ i \in DOMAIN codes =>
           /\ codes[i].attempts \in Nat
           /\ codes[i].attempts + Cardinality(A) <= VerificationAttempts - 1 + Cardinality(Proc)
  <2>1. codes'[i] \in Verification!Codes
    BY ElementOfSeq, LenProperties DEF EmailGrows
  <2> QED
    BY <2>1, CodesAreSequence, VerificationCounts
       DEF Verification!IInv, Verification!Overshoot, Verification!VerificationAssumption,
           Verification!Codes
<1>3. /\ Cardinality(A) \in Nat /\ Cardinality(B) \in Nat /\ Cardinality(Proc) \in Nat
      /\ Cardinality(B) <= Cardinality(Proc)
  BY <1>1, <1>2, HandlersCounted
<1>4. CASE codes'[i].attempts < VerificationAttempts
  BY <1>2, <1>3, <1>4
<1>5. CASE /\ i \in DOMAIN codes /\ codes'[i].attempts = codes[i].attempts
           /\ (p \in B => p \in A)
  <2>1. B \in SUBSET A
    BY <1>1, <1>5
  <2>2. Cardinality(B) <= Cardinality(A)
    BY <2>1, <1>1, <1>2, HandlersCounted
  <2> QED
    BY <1>2, <1>3, <1>5, <2>2
<1>6. CASE /\ i \in DOMAIN codes /\ codes'[i].attempts = codes[i].attempts + 1
           /\ p \in A /\ p \notin B
  <2>1. B \in SUBSET (A \ {p}) /\ A \ {p} \in SUBSET Proc
    BY <1>1, <1>6
  <2>2. Cardinality(B) <= Cardinality(A \ {p}) /\ Cardinality(A \ {p}) = Cardinality(A) - 1
    BY <2>1, <1>1, <1>2, <1>6, HandlersCounted
  <2> QED
    BY <1>2, <1>3, <1>6, <2>2
<1> QED
  BY <1>4, <1>5, <1>6

\* What an action has to show.
LEMMA EmailKeeps ==
    ASSUME Verification!VerificationAssumption, Verification!IInv, EmailGrows, NEW p \in Proc,
           OnlyHandler(p), Verification!Knows(p)',
           user' = "verified" => user = "verified" \/ \E c \in received' : codes'[c].used,
           \A i \in DOMAIN codes' : codes'[i].attempts >= VerificationAttempts =>
              \/ codes'[i].used
              \/ proc'[p] = [pc |-> "lock", code |-> i]
              \/ /\ i \in DOMAIN codes /\ codes[i].attempts >= VerificationAttempts
                 /\ proc[p] # [pc |-> "lock", code |-> i],
           \/ Len(codes') < VerificationCodes
           \/ Len(codes') = Len(codes) /\ (p \in Verification!Adding' => p \in Verification!Adding)
           \/ /\ Len(codes') = Len(codes) + 1
              /\ p \in Verification!Adding /\ p \notin Verification!Adding',
           \A i \in DOMAIN codes' :
              \/ codes'[i].attempts < VerificationAttempts
              \/ /\ i \in DOMAIN codes /\ codes'[i].attempts = codes[i].attempts
                 /\ (p \in Verification!Counting(i)' => p \in Verification!Counting(i))
              \/ /\ i \in DOMAIN codes /\ codes'[i].attempts = codes[i].attempts + 1
                 /\ p \in Verification!Counting(i) /\ p \notin Verification!Counting(i)'
    PROVE  Verification!IInv'
<1>1. Verification!Shape' /\ \A q \in Proc : Verification!Knows(q)'
  BY EmailKnowledgeStays
<1>2. Verification!VerifiedByCode'
  BY VerifiedStays
<1>3. Verification!ExhaustedIsUsed'
  BY ExhaustedStays
<1>4. Verification!Overshoot'
  BY CodesBounded, GuessesBounded, VerificationCounts DEF Verification!Overshoot
<1> QED
  BY <1>1, <1>2, <1>3, <1>4 DEF Verification!IInv

\* A handler that moves where the rows do not.
LEMMA EmailMoves ==
    ASSUME Verification!VerificationAssumption, Verification!IInv, NEW p \in Proc,
           UNCHANGED <<user, codes>>, received \subseteq received', received' \subseteq DOMAIN codes,
           lost' \in 0 .. LostMails,
           OnlyHandler(p), Verification!Knows(p)',
           \A i \in DOMAIN codes : proc[p] # [pc |-> "lock", code |-> i],
           Len(codes) < VerificationCodes \/ (p \in Verification!Adding' => p \in Verification!Adding),
           \A i \in DOMAIN codes : codes[i].attempts < VerificationAttempts
                                   \/ p \notin Verification!Counting(i)'
    PROVE  Verification!IInv'
<1>1. EmailGrows
  BY CodesAreSequence DEF EmailGrows, Verification!IInv, Verification!Shape
<1>2. user' = "verified" => user = "verified"
  OBVIOUS
<1> QED
  BY <1>1, <1>2, EmailKeeps

\* Where a handler goes.
LEMMA EmailGoes ==
    ASSUME Verification!IInv, NEW p \in Proc,
           NEW h \in EmailHandlers, proc' = [proc EXCEPT ![p] = h]
    PROVE  OnlyHandler(p) /\ proc'[p] = h
  BY CodesAreSequence DEF OnlyHandler

\* A handler goes on with the code it has.
LEMMA EmailGoesTo ==
    ASSUME Verification!IInv, NEW p \in Proc, NEW to \in Verification!Pcs,
           Verification!Goto(p, to)
    PROVE  OnlyHandler(p) /\ proc'[p] = [pc |-> to, code |-> proc[p].code]
  BY CodesAreSequence DEF OnlyHandler, Verification!Goto, EmailHandlers

\* A handler that answers makes and counts no code any more.
LEMMA EmailAnswers ==
    ASSUME Verification!IInv, NEW p \in Proc, Verification!Answer(p)
    PROVE  /\ OnlyHandler(p) /\ proc'[p].pc = "idle" /\ proc'[p].code = 0
           /\ p \notin Verification!Adding' /\ \A i : p \notin Verification!Counting(i)'
           /\ (Len(codes') \in Nat => Verification!Knows(p)')
<1>1. Verification!Idle \in EmailHandlers
  BY DEF Verification!Idle, EmailHandlers, Verification!Pcs
<1>2. OnlyHandler(p) /\ proc'[p] = Verification!Idle
  BY <1>1, EmailGoes DEF Verification!Answer
<1> QED
  BY <1>2 DEF Verification!Idle, Verification!Adding, Verification!Counting, Verification!Knows

\* A request that asks for a code.
LEMMA SignupKeeps ==
    ASSUME Verification!VerificationAssumption, Verification!IInv, NEW p \in Proc,
           Verification!Signup(p) \/ Verification!ResendOtp(p)
    PROVE  Verification!IInv'
<1>0. /\ proc[p] \in EmailHandlers /\ Verification!Knows(p) /\ proc[p].pc = "idle"
      /\ Len(codes) < VerificationCodes /\ UNCHANGED <<user, codes, received, lost>>
  BY CodesAreSequence DEF Verification!IInv, Verification!Signup, Verification!ResendOtp
<1>1. PICK to \in {"create", "update", "invalidate"} :
         Verification!Goto(p, to) /\ (to # "create" => user # "none")
  BY DEF Verification!Signup, Verification!ResendOtp
<1>2. to \in Verification!Pcs
  BY DEF Verification!Pcs
<1>3. OnlyHandler(p) /\ proc'[p] = [pc |-> to, code |-> proc[p].code]
  BY <1>1, <1>2, EmailGoesTo
<1>4. Verification!Knows(p)'
  BY <1>0, <1>1, <1>3 DEF Verification!Knows
<1>5. \A i : p \notin Verification!Counting(i)' /\ proc[p] # [pc |-> "lock", code |-> i]
  BY <1>0, <1>3 DEF Verification!Counting
<1> QED
  BY <1>0, <1>3, <1>4, <1>5, EmailMoves DEF Verification!IInv, Verification!Shape

\* A code is added, with a user or to the codes of one.
LEMMA CodeAdded ==
    ASSUME Verification!VerificationAssumption, Verification!IInv, NEW p \in Proc,
           user' \in {"unverified", user}, user' # "none", user' = "verified" => user = "verified",
           codes' = Append(codes, Verification!NewCode), UNCHANGED <<received, lost>>,
           proc' = [proc EXCEPT ![p] = [pc |-> "mail", code |-> Len(codes) + 1]],
           proc[p].pc \in {"create", "insert", "insertUpdate"}
    PROVE  Verification!IInv'
<1> DEFINE h == [pc |-> "mail", code |-> Len(codes) + 1]
<1>1. /\ Verification!NewCode \in Verification!Codes /\ VerificationAttempts \in Nat \ {0}
      /\ Verification!NewCode.attempts = 0
  BY DEF Verification!NewCode, Verification!Codes, Verification!VerificationAssumption
<1>2. /\ codes' \in Seq(Verification!Codes) /\ Len(codes') = Len(codes) + 1
      /\ Len(codes) \in Nat /\ DOMAIN codes = 1 .. Len(codes)
      /\ DOMAIN codes' = 1 .. Len(codes) + 1
      /\ codes'[Len(codes) + 1] = Verification!NewCode
      /\ \A i \in 1 .. Len(codes) : codes'[i] = codes[i]
  BY <1>1, CodesAreSequence, Appended
<1>3. h \in EmailHandlers
  BY <1>2 DEF EmailHandlers, Verification!Pcs
<1>4. OnlyHandler(p) /\ proc'[p] = h
  BY <1>3, EmailGoes
<1>5. EmailGrows
  BY <1>2 DEF EmailGrows, Verification!IInv, Verification!Shape
<1>6. Verification!Knows(p)'
  BY <1>2, <1>4 DEF Verification!Knows
<1>7. p \in Verification!Adding /\ p \notin Verification!Adding'
  BY <1>4 DEF Verification!Adding
<1>8. ASSUME NEW i \in DOMAIN codes'
      PROVE  /\ codes'[i].attempts >= VerificationAttempts =>
                  /\ i \in DOMAIN codes /\ codes[i].attempts >= VerificationAttempts
                  /\ proc[p] # [pc |-> "lock", code |-> i]
             /\ \/ codes'[i].attempts < VerificationAttempts
                \/ /\ i \in DOMAIN codes /\ codes'[i].attempts = codes[i].attempts
                   /\ p \notin Verification!Counting(i)'
  <2>1. p \notin Verification!Counting(i)'
    BY <1>4 DEF Verification!Counting
  <2>2. CASE i = Len(codes) + 1
    BY <1>1, <1>2, <2>2
  <2>3. CASE i \in 1 .. Len(codes)
    BY <1>2, <2>1, <2>3
  <2> QED
    BY <1>2, <2>2, <2>3
<1> HIDE DEF h
<1> QED
  BY <1>2, <1>4, <1>5, <1>6, <1>7, <1>8, EmailKeeps

\* createUser: the first code comes with the user, or another handler was first.
LEMMA CreateUserKeeps ==
    ASSUME Verification!VerificationAssumption, Verification!IInv, NEW p \in Proc,
           Verification!CreateUser(p)
    PROVE  Verification!IInv'
<1>1. CASE user = "none"
  BY <1>1, CodeAdded DEF Verification!CreateUser, Verification!Latest
<1>2. CASE user # "none"
  <2>1. /\ Verification!Answer(p) /\ UNCHANGED <<user, codes, received, lost>>
        /\ proc[p].pc = "create"
    BY <1>2 DEF Verification!CreateUser
  <2>2. \A i : proc[p] # [pc |-> "lock", code |-> i]
    BY <2>1
  <2> QED
    BY <2>1, <2>2, EmailAnswers, EmailMoves, CodesAreSequence
       DEF Verification!IInv, Verification!Shape
<1> QED
  BY <1>1, <1>2

\* A resent code is inserted.
LEMMA InsertCodeKeeps ==
    ASSUME Verification!VerificationAssumption, Verification!IInv, NEW p \in Proc,
           Verification!InsertCode(p)
    PROVE  Verification!IInv'
<1>1. user # "none"
  BY DEF Verification!IInv, Verification!Knows, Verification!InsertCode
<1> QED
  BY <1>1, CodeAdded DEF Verification!InsertCode, Verification!Latest

\* The codes there are, used up.
LEMMA InvalidateKeeps ==
    ASSUME Verification!VerificationAssumption, Verification!IInv, NEW p \in Proc,
           Verification!Invalidate(p)
    PROVE  Verification!IInv'
<1>0. /\ proc[p] \in EmailHandlers /\ Verification!Knows(p)
      /\ proc[p].pc \in {"invalidate", "update"} /\ UNCHANGED <<user, received, lost>>
      /\ codes' = [i \in DOMAIN codes |-> [codes[i] EXCEPT !.used = TRUE]]
  BY CodesAreSequence DEF Verification!IInv, Verification!Invalidate
<1>1. PICK to \in {"insertUpdate", "insert"} : Verification!Goto(p, to)
  BY DEF Verification!Invalidate
<1>2. OnlyHandler(p) /\ proc'[p] = [pc |-> to, code |-> proc[p].code]
  BY <1>1, EmailGoesTo DEF Verification!Pcs
<1>3. /\ codes' \in [1 .. Len(codes) -> Verification!Codes]
      /\ \A i \in 1 .. Len(codes) : codes'[i].used /\ codes'[i].attempts = codes[i].attempts
  BY <1>0, CodesAreSequence DEF Verification!Codes
<1>4. /\ codes' \in Seq(Verification!Codes) /\ Len(codes') = Len(codes)
      /\ DOMAIN codes' = 1 .. Len(codes) /\ DOMAIN codes = 1 .. Len(codes) /\ Len(codes) \in Nat
  BY <1>3, SequenceOf, CodesAreSequence
<1>5. EmailGrows
  <2>1. codes' = <<>> <=> codes = <<>>
    BY <1>4, EmptySeq, CodesAreSequence
  <2> QED
    BY <1>0, <1>3, <1>4, <2>1 DEF EmailGrows, Verification!IInv, Verification!Shape
<1>6. Verification!Knows(p)'
  BY <1>0, <1>2, <1>4 DEF Verification!Knows
<1>7. p \in Verification!Adding /\ \A i : p \notin Verification!Counting(i)'
  BY <1>0, <1>2 DEF Verification!Adding, Verification!Counting
<1> QED
  BY <1>0, <1>2, <1>3, <1>4, <1>5, <1>6, <1>7, EmailKeeps

\* The mail arrives, or it is lost.
LEMMA MailKeeps ==
    ASSUME Verification!VerificationAssumption, Verification!IInv, NEW p \in Proc,
           Verification!Mail(p)
    PROVE  Verification!IInv'
<1>1. /\ Verification!Answer(p) /\ UNCHANGED <<user, codes>> /\ proc[p].pc = "mail"
      /\ proc[p].code \in DOMAIN codes
  BY DEF Verification!Mail, Verification!IInv, Verification!Knows
<1>2. \A i : proc[p] # [pc |-> "lock", code |-> i]
  BY <1>1
<1>3. /\ received \subseteq received' /\ received' \subseteq DOMAIN codes
      /\ lost' \in 0 .. LostMails
  BY <1>1 DEF Verification!Mail, Verification!IInv, Verification!Shape,
     Verification!VerificationAssumption
<1> QED
  BY <1>1, <1>2, <1>3, EmailAnswers, EmailMoves, CodesAreSequence

\* The comparison with the latest code.
LEMMA FindCodeKeeps ==
    ASSUME Verification!VerificationAssumption, Verification!IInv, NEW p \in Proc,
           NEW guess \in received \cup {0}, Verification!FindCode(p, guess)
    PROVE  Verification!IInv'
<1>0. /\ proc[p].pc = "idle" /\ UNCHANGED <<user, codes, received, lost>> /\ codes # <<>>
      /\ Len(codes) \in Nat /\ DOMAIN codes = 1 .. Len(codes) /\ Len(codes) # 0
      /\ received \subseteq DOMAIN codes /\ lost \in 0 .. LostMails
      /\ codes[Len(codes)].attempts \in Nat /\ VerificationAttempts \in Nat
  <2>1. codes # <<>> /\ Len(codes) \in Nat \ {0} /\ Len(codes) \in DOMAIN codes
    BY EmptySeq, CodesAreSequence DEF Verification!FindCode
  <2> QED
    BY <2>1, CodesAreSequence DEF Verification!FindCode, Verification!IInv, Verification!Shape,
       Verification!Codes, Verification!VerificationAssumption
<1>1. PICK to \in {"lock", "verify", "count"} :
         /\ proc' = [proc EXCEPT ![p] = [pc |-> to, code |-> Len(codes)]]
         /\ to = "verify" => guess = Len(codes)
         /\ to = "count" => codes[Len(codes)].attempts < VerificationAttempts
  <2> DEFINE last == codes[Len(codes)]
             To(to) == proc' = [proc EXCEPT ![p] = [pc |-> to, code |-> Len(codes)]]
  <2>1. CASE last.attempts >= VerificationAttempts
    <3>1. To("lock")
      BY <2>1 DEF Verification!FindCode, Verification!Latest
    <3> QED
      BY <3>1
  <2>2. CASE ~(last.attempts >= VerificationAttempts) /\ guess = Len(codes)
    <3>1. To("verify")
      BY <2>2 DEF Verification!FindCode, Verification!Latest
    <3> QED
      BY <3>1, <2>2
  <2>3. CASE ~(last.attempts >= VerificationAttempts) /\ guess # Len(codes)
    <3>1. To("count")
      BY <2>3 DEF Verification!FindCode, Verification!Latest
    <3>2. last.attempts < VerificationAttempts
      BY <2>3, <1>0
    <3> QED
      BY <3>1, <3>2
  <2> QED
    BY <2>1, <2>2, <2>3
<1> DEFINE h == [pc |-> to, code |-> Len(codes)]
<1>2. h \in EmailHandlers
  BY <1>0 DEF EmailHandlers, Verification!Pcs
<1>3. OnlyHandler(p) /\ proc'[p] = h
  BY <1>1, <1>2, EmailGoes
<1>4. Verification!Knows(p)'
  BY <1>0, <1>1, <1>3 DEF Verification!Knows
<1>5. p \notin Verification!Adding' /\ \A i : proc[p] # [pc |-> "lock", code |-> i]
  BY <1>0, <1>3 DEF Verification!Adding
<1>6. \A i : p \in Verification!Counting(i)' => codes[i].attempts < VerificationAttempts
  BY <1>1, <1>3 DEF Verification!Counting
<1> HIDE DEF h
<1> QED
  BY <1>0, <1>3, <1>4, <1>5, <1>6, EmailMoves

\* A code in which only some columns change.
LEMMA CodeChanged ==
    ASSUME Verification!IInv, NEW c \in DOMAIN codes, NEW new \in Verification!Codes,
           codes[c].used => new.used, codes' = [codes EXCEPT ![c] = new],
           user' \in {user, "verified"}, user # "none", UNCHANGED <<received, lost>>
    PROVE  /\ EmailGrows /\ Len(codes') = Len(codes) /\ Len(codes) \in Nat
           /\ DOMAIN codes = 1 .. Len(codes) /\ DOMAIN codes' = 1 .. Len(codes)
           /\ \A i \in 1 .. Len(codes) : codes'[i] = IF i = c THEN new ELSE codes[i]
<1>1. /\ codes' \in Seq(Verification!Codes) /\ Len(codes') = Len(codes) /\ Len(codes) \in Nat
      /\ DOMAIN codes = 1 .. Len(codes) /\ DOMAIN codes' = 1 .. Len(codes)
      /\ \A i \in 1 .. Len(codes) : codes'[i] = IF i = c THEN new ELSE codes[i]
  BY CodesAreSequence, Replaced
<1>2. codes' # <<>> /\ codes # <<>>
  BY <1>1, EmptySeq
<1> QED
  BY <1>1, <1>2 DEF EmailGrows, Verification!IInv, Verification!Shape

\* A wrong guess is counted: the handler that counts makes way for its own count.
LEMMA CountAttemptKeeps ==
    ASSUME Verification!VerificationAssumption, Verification!IInv, NEW p \in Proc,
           Verification!CountAttempt(p)
    PROVE  Verification!IInv'
<1> DEFINE c == proc[p].code
           new == [codes[c] EXCEPT !.attempts = @ + 1]
<1>0. /\ proc[p].pc = "count" /\ UNCHANGED <<user, received, lost>>
      /\ codes' = [codes EXCEPT ![c].attempts = @ + 1]
      /\ c \in DOMAIN codes /\ Verification!Knows(p) /\ proc[p] \in EmailHandlers
      /\ VerificationAttempts \in Nat
  BY CodesAreSequence DEF Verification!CountAttempt, Verification!IInv, Verification!Knows,
     Verification!VerificationAssumption
<1>1. /\ codes[c] \in Verification!Codes /\ new \in Verification!Codes
      /\ (codes[c].used => new.used) /\ new.attempts = codes[c].attempts + 1
      /\ codes[c].attempts \in Nat
  BY <1>0, CodesAreSequence DEF Verification!Codes
<1>2. codes' = [codes EXCEPT ![c] = new]
  BY <1>0
<1>n. user # "none"
  BY <1>0, EmptySeq, CodesAreSequence DEF Verification!IInv, Verification!Shape
<1> HIDE DEF new
<1>3. /\ EmailGrows /\ Len(codes') = Len(codes) /\ Len(codes) \in Nat
      /\ DOMAIN codes = 1 .. Len(codes) /\ DOMAIN codes' = 1 .. Len(codes)
      /\ \A i \in 1 .. Len(codes) : codes'[i] = IF i = c THEN new ELSE codes[i]
  BY <1>0, <1>1, <1>2, <1>n, CodeChanged
<1>4. \/ /\ new.attempts >= VerificationAttempts /\ Verification!Goto(p, "lock")
      \/ /\ new.attempts < VerificationAttempts /\ Verification!Answer(p)
  BY <1>0, <1>1 DEF Verification!CountAttempt
<1>5. /\ OnlyHandler(p) /\ Verification!Knows(p)'
      /\ p \notin Verification!Adding' /\ \A i : p \notin Verification!Counting(i)'
      /\ new.attempts >= VerificationAttempts => proc'[p] = [pc |-> "lock", code |-> c]
  <2>1. CASE new.attempts >= VerificationAttempts /\ Verification!Goto(p, "lock")
    <3>1. OnlyHandler(p) /\ proc'[p] = [pc |-> "lock", code |-> c]
      BY <2>1, EmailGoesTo DEF Verification!Pcs
    <3>2. Verification!Knows(p)'
      BY <3>1, <1>0, <1>3 DEF Verification!Knows
    <3> QED
      BY <3>1, <3>2 DEF Verification!Adding, Verification!Counting
  <2>2. CASE new.attempts < VerificationAttempts /\ Verification!Answer(p)
    BY <2>2, <1>1, <1>0, <1>3, EmailAnswers
  <2> QED
    BY <1>4, <2>1, <2>2
<1>6. p \in Verification!Counting(c) /\ \A i : proc[p] # [pc |-> "lock", code |-> i]
  BY <1>0 DEF Verification!Counting
<1>7. ASSUME NEW i \in DOMAIN codes'
      PROVE  /\ codes'[i].attempts >= VerificationAttempts =>
                 \/ proc'[p] = [pc |-> "lock", code |-> i]
                 \/ i \in DOMAIN codes /\ codes[i].attempts >= VerificationAttempts
             /\ \/ /\ i \in DOMAIN codes /\ codes'[i].attempts = codes[i].attempts
                   /\ p \notin Verification!Counting(i)'
                \/ /\ i \in DOMAIN codes /\ codes'[i].attempts = codes[i].attempts + 1
                   /\ p \in Verification!Counting(i) /\ p \notin Verification!Counting(i)'
  BY <1>1, <1>3, <1>5, <1>6
<1>8. user' = "verified" => user = "verified"
  BY <1>0
<1> QED
  BY <1>3, <1>5, <1>6, <1>7, <1>8, EmailKeeps

\* A code is used up, by a right guess or by the last wrong one.
LEMMA UseKeeps ==
    ASSUME Verification!VerificationAssumption, Verification!IInv, NEW p \in Proc,
           Verification!LockCode(p) \/ Verification!Verify(p)
    PROVE  Verification!IInv'
<1> DEFINE c == proc[p].code
           new == [codes[c] EXCEPT !.used = TRUE]
<1>0. /\ proc[p].pc \in {"lock", "verify"} /\ UNCHANGED <<received, lost>>
      /\ codes' = [codes EXCEPT ![c].used = TRUE] /\ Verification!Answer(p)
      /\ c \in DOMAIN codes /\ user' \in {user, "verified"}
      /\ user' = "verified" => user = "verified" \/ c \in received
  BY DEF Verification!LockCode, Verification!Verify, Verification!IInv, Verification!Knows
<1>1. /\ codes[c] \in Verification!Codes /\ new \in Verification!Codes
      /\ new.used /\ new.attempts = codes[c].attempts
  BY <1>0, CodesAreSequence DEF Verification!Codes
<1>2. codes' = [codes EXCEPT ![c] = new]
  BY <1>0
<1>n. user # "none"
  BY <1>0, EmptySeq, CodesAreSequence DEF Verification!IInv, Verification!Shape
<1> HIDE DEF new
<1>3. /\ EmailGrows /\ Len(codes') = Len(codes) /\ Len(codes) \in Nat
      /\ DOMAIN codes = 1 .. Len(codes) /\ DOMAIN codes' = 1 .. Len(codes)
      /\ \A i \in 1 .. Len(codes) : codes'[i] = IF i = c THEN new ELSE codes[i]
  BY <1>0, <1>1, <1>2, <1>n, CodeChanged
<1>4. /\ OnlyHandler(p) /\ Verification!Knows(p)'
      /\ p \notin Verification!Adding' /\ \A i : p \notin Verification!Counting(i)'
  BY <1>0, <1>3, EmailAnswers
<1>5. user' = "verified" => user = "verified" \/ \E d \in received' : codes'[d].used
  BY <1>0, <1>1, <1>3
<1>6. ASSUME NEW i \in DOMAIN codes'
      PROVE  /\ codes'[i].attempts >= VerificationAttempts =>
                 \/ codes'[i].used
                 \/ /\ i \in DOMAIN codes /\ codes[i].attempts >= VerificationAttempts
                    /\ proc[p] # [pc |-> "lock", code |-> i]
             /\ i \in DOMAIN codes /\ codes'[i].attempts = codes[i].attempts
  BY <1>1, <1>3
<1> QED
  BY <1>3, <1>4, <1>5, <1>6, EmailKeeps

\* Time passes for a code.
LEMMA AgeKeeps ==
    ASSUME Verification!VerificationAssumption, Verification!IInv, NEW c \in DOMAIN codes,
           Verification!Age(c)
    PROVE  Verification!IInv'
<1>1. PICK new \in Verification!Codes :
         /\ codes' = [codes EXCEPT ![c] = new]
         /\ new.used = codes[c].used /\ new.attempts = codes[c].attempts
  <2>0. codes[c] \in Verification!Codes
    BY CodesAreSequence
  <2>1. CASE codes' = [codes EXCEPT ![c].recent = FALSE]
    <3> DEFINE new == [codes[c] EXCEPT !.recent = FALSE]
    <3>1. /\ new \in Verification!Codes /\ codes' = [codes EXCEPT ![c] = new]
          /\ new.used = codes[c].used /\ new.attempts = codes[c].attempts
      BY <2>0, <2>1 DEF Verification!Codes
    <3> HIDE DEF new
    <3> QED
      BY <3>1
  <2>2. CASE codes' = [codes EXCEPT ![c].expired = TRUE]
    <3> DEFINE new == [codes[c] EXCEPT !.expired = TRUE]
    <3>1. /\ new \in Verification!Codes /\ codes' = [codes EXCEPT ![c] = new]
          /\ new.used = codes[c].used /\ new.attempts = codes[c].attempts
      BY <2>0, <2>2 DEF Verification!Codes
    <3> HIDE DEF new
    <3> QED
      BY <3>1
  <2> QED
    BY <2>1, <2>2 DEF Verification!Age
<1>2. UNCHANGED <<user, received, proc, lost>>
  BY DEF Verification!Age
<1>n. user # "none"
  BY EmptySeq, CodesAreSequence DEF Verification!IInv, Verification!Shape
<1>3. /\ EmailGrows /\ Len(codes') = Len(codes) /\ Len(codes) \in Nat
      /\ DOMAIN codes = 1 .. Len(codes) /\ DOMAIN codes' = 1 .. Len(codes)
      /\ \A i \in 1 .. Len(codes) : codes'[i] = IF i = c THEN new ELSE codes[i]
  BY <1>1, <1>2, <1>n, CodeChanged
<1>4. \A i \in 1 .. Len(codes) : codes'[i].used = codes[i].used
                                 /\ codes'[i].attempts = codes[i].attempts
  BY <1>1, <1>3
<1>5. Verification!Shape'
  BY <1>2, <1>3 DEF EmailGrows, Verification!Shape, Verification!IInv
<1>6. \A q \in Proc : Verification!Knows(q)'
  BY <1>2, <1>3 DEF Verification!Knows, Verification!IInv
<1>7. Verification!Overshoot'
  <2>1. Verification!Adding' = Verification!Adding
    BY <1>2 DEF Verification!Adding
  <2>2. \A i : Verification!Counting(i)' = Verification!Counting(i)
    BY <1>2 DEF Verification!Counting
  <2> QED
    BY <1>3, <1>4, <2>1, <2>2 DEF Verification!Overshoot, Verification!IInv
<1>8. Verification!VerifiedByCode'
  BY <1>2, <1>3, <1>4 DEF Verification!VerifiedByCode, Verification!IInv, Verification!Shape
<1>9. Verification!ExhaustedIsUsed'
  BY <1>2, <1>3, <1>4 DEF Verification!ExhaustedIsUsed, Verification!IInv
<1> QED
  BY <1>5, <1>6, <1>7, <1>8, <1>9 DEF Verification!IInv

\* The invariant holds at first.
LEMMA EmailInit ==
    ASSUME Verification!VerificationAssumption, Verification!Init
    PROVE  Verification!IInv
<1>1. /\ user = "none" /\ codes = <<>> /\ received = {} /\ lost = 0
      /\ proc = [p \in Proc |-> Verification!Idle] /\ IsFiniteSet(Proc)
      /\ VerificationCodes \in Nat \ {0} /\ LostMails \in Nat
  BY VerificationCounts DEF Verification!Init, Verification!VerificationAssumption
<1>2. codes \in Seq(Verification!Codes) /\ Len(codes) = 0 /\ DOMAIN codes = {}
  BY <1>1, EmptySeq, LenProperties
<1>3. Verification!Shape /\ \A p \in Proc : Verification!Knows(p)
  BY <1>1, <1>2 DEF Verification!Shape, Verification!Knows, Verification!Idle, Verification!Pcs
<1>4. Verification!Overshoot
  <2>1. Verification!Adding = {}
    BY <1>1 DEF Verification!Adding, Verification!Idle
  <2>2. Cardinality({}) = 0 /\ Cardinality(Proc) \in Nat
    BY <1>1, FS_EmptySet, FS_CardinalityType
  <2> QED
    BY <1>1, <1>2, <2>1, <2>2, VerificationCounts DEF Verification!Overshoot
<1>5. Verification!VerifiedByCode /\ Verification!ExhaustedIsUsed
  BY <1>1, <1>2 DEF Verification!VerifiedByCode, Verification!ExhaustedIsUsed
<1> QED
  BY <1>3, <1>4, <1>5 DEF Verification!IInv

\* The invariant of EmailVerification holds at first and is kept by every step.
LEMMA EmailInductive ==
    ASSUME Verification!VerificationAssumption
    PROVE  /\ Verification!Init => Verification!IInv
           /\ Verification!IInv /\ [Verification!Next]_emailVars => Verification!IInv'
<1>1. Verification!Init => Verification!IInv
  BY EmailInit
<1>2. ASSUME Verification!IInv, Verification!Next PROVE Verification!IInv'
  BY <1>2, SignupKeeps, CreateUserKeeps, InvalidateKeeps, InsertCodeKeeps, MailKeeps,
     FindCodeKeeps, CountAttemptKeeps, UseKeeps, AgeKeeps
     DEF Verification!Next, Verification!Step
<1>3. ASSUME Verification!IInv, UNCHANGED emailVars PROVE Verification!IInv'
  BY <1>3 DEF emailVars, Verification!IInv, Verification!Shape, Verification!Knows,
     Verification!Overshoot, Verification!Adding, Verification!Counting,
     Verification!VerifiedByCode, Verification!ExhaustedIsUsed
<1> QED
  BY <1>1, <1>2, <1>3

\* The parts of the invariant a run checks.
LEMMA EmailTypeOK ==
    ASSUME Verification!VerificationAssumption, Verification!IInv
    PROVE  Verification!TypeOK
<1>1. /\ IsFiniteSet(Proc) /\ VerificationAttempts \in Nat /\ VerificationCodes \in Nat
      /\ Verification!Adding \in SUBSET Proc /\ \A i : Verification!Counting(i) \in SUBSET Proc
  BY VerificationCounts DEF Verification!VerificationAssumption, Verification!Adding,
     Verification!Counting
<1>2. /\ Cardinality(Verification!Adding) \in Nat /\ Cardinality(Proc) \in Nat
      /\ \A i : Cardinality(Verification!Counting(i)) \in Nat
  BY <1>1, HandlersCounted
<1>3. Len(codes) <= VerificationCodes - 1 + Cardinality(Proc)
  BY <1>1, <1>2, CodesAreSequence, VerificationCounts DEF Verification!IInv, Verification!Overshoot
<1>4. \A i \in DOMAIN codes : codes[i].attempts \in 0 .. VerificationAttempts - 1 + Cardinality(Proc)
  <2> SUFFICES ASSUME NEW i \in DOMAIN codes
               PROVE  codes[i].attempts \in 0 .. VerificationAttempts - 1 + Cardinality(Proc)
    OBVIOUS
  <2>1. codes[i].attempts \in Nat
    BY CodesAreSequence DEF Verification!Codes
  <2>2. codes[i].attempts + Cardinality(Verification!Counting(i))
            <= VerificationAttempts - 1 + Cardinality(Proc)
    BY VerificationCounts DEF Verification!IInv, Verification!Overshoot
  <2> QED
    BY <1>1, <1>2, <2>1, <2>2
<1> QED
  BY <1>3, <1>4, VerificationCounts
     DEF Verification!TypeOK, Verification!IInv, Verification!Shape, Verification!Knows

-----------------------------------------------------------------------------
(* AuthSessions.                                                           *)

Accounts == [status : Statuses, password : Password]
SessionRows == [password : Password, revoked : BOOLEAN]
ResetCodeRows ==
    [consumed : BOOLEAN, attempts : 0 .. ResetAttempts, expired : BOOLEAN, recent : BOOLEAN]
Ends == [changes : Nat, resets : Nat, late : Nat]
TokenRows == [used : BOOLEAN, expired : BOOLEAN, code : Nat]
ResetHandlers == [pc : Sessions!Pcs, at : Nat, password : Password]

\* The rows and the handlers, as the invariant has them.
LEMMA ResetRows ==
    ASSUME Sessions!IInv
    PROVE  /\ account \in Accounts
           /\ sessions \in Seq(SessionRows) /\ resetCodes \in Seq(ResetCodeRows)
           /\ tokens \in Seq(TokenRows) /\ ended \in Seq(Ends)
           /\ handlers \in [Proc -> ResetHandlers]
           /\ Len(sessions) \in Nat /\ DOMAIN sessions = 1 .. Len(sessions)
           /\ Len(resetCodes) \in Nat /\ DOMAIN resetCodes = 1 .. Len(resetCodes)
           /\ Len(tokens) \in Nat /\ DOMAIN tokens = 1 .. Len(tokens)
           /\ DOMAIN ended = 1 .. Len(tokens) /\ Len(ended) = Len(tokens)
           /\ \A s \in 1 .. Len(sessions) : sessions[s] \in SessionRows
           /\ \A i \in 1 .. Len(resetCodes) : resetCodes[i] \in ResetCodeRows
           /\ \A t \in 1 .. Len(tokens) : /\ tokens[t] \in TokenRows /\ ended[t] \in Ends
                                          /\ tokens[t].code \in 1 .. Len(resetCodes)
<1>1. /\ account \in Accounts
      /\ sessions \in Seq(SessionRows) /\ resetCodes \in Seq(ResetCodeRows)
      /\ tokens \in Seq(TokenRows) /\ ended \in Seq(Ends) /\ Len(ended) = Len(tokens)
      /\ handlers \in [Proc -> ResetHandlers]
      /\ \A t \in DOMAIN tokens : tokens[t].code \in DOMAIN resetCodes
  BY DEF Sessions!IInv, Sessions!Shape, Accounts, SessionRows, ResetCodeRows, TokenRows,
         ResetHandlers, Ends
<1> QED
  BY <1>1, LenProperties, ElementOfSeq

\* What a step may do to the rows when it makes no token: what is consumed, revoked or used
\* stays so.
ResetGrows ==
    /\ account' \in Accounts
    /\ sessions' \in Seq(SessionRows) /\ Len(sessions') >= Len(sessions)
    /\ resetCodes' \in Seq(ResetCodeRows) /\ Len(resetCodes') >= Len(resetCodes)
    /\ \A i \in 1 .. Len(resetCodes) : resetCodes[i].consumed => resetCodes'[i].consumed
    /\ tokens' \in Seq(TokenRows) /\ Len(tokens') = Len(tokens)
    /\ \A t \in 1 .. Len(tokens) : /\ tokens'[t].code = tokens[t].code
                                   /\ tokens[t].used => tokens'[t].used
    /\ ended' \in Seq(Ends) /\ Len(ended') = Len(ended)

\* No token is used up by the step, and nothing is counted; or the step keeps the account.
UsesStay ==
    /\ ended' = ended
    /\ \A t \in 1 .. Len(tokens) : tokens'[t].used = tokens[t].used

AccountKept == \A t \in 1 .. Len(tokens) : Sessions!Accounted(t)'

OnlyReset(p) ==
    /\ handlers' \in [Proc -> ResetHandlers]
    /\ \A q \in Proc \ {p} : handlers'[q] = handlers[q]

\* What a handler that stands still knows stays true.
LEMMA ResetKnowledgeStays ==
    ASSUME Sessions!IInv, ResetGrows, NEW q \in Proc, handlers'[q] = handlers[q]
    PROVE  Sessions!Knows(q)'
<1>0. /\ DOMAIN sessions' = 1 .. Len(sessions') /\ Len(sessions') \in Nat
      /\ DOMAIN resetCodes' = 1 .. Len(resetCodes') /\ Len(resetCodes') \in Nat
      /\ DOMAIN tokens' = 1 .. Len(tokens) /\ DOMAIN ended' = 1 .. Len(tokens)
  BY ResetRows, LenProperties DEF ResetGrows
<1>1. handlers'[q] = handlers[q] /\ handlers[q] \in ResetHandlers /\ Sessions!Knows(q)
  BY ResetRows DEF Sessions!IInv
<1>2. handlers[q].at \in Nat
  BY <1>1 DEF ResetHandlers
<1>3. handlers[q].pc = "rotate" => handlers[q].at \in DOMAIN sessions'
  BY <1>0, <1>1, <1>2, ResetRows DEF Sessions!Knows, ResetGrows
<1>4. handlers[q].pc \in {"count", "claim", "token"} => handlers[q].at \in DOMAIN resetCodes'
  BY <1>0, <1>1, <1>2, ResetRows DEF Sessions!Knows, ResetGrows
<1>5. handlers[q].pc \in {"recheck", "apply"} => handlers[q].at \in DOMAIN tokens'
  BY <1>0, <1>1, <1>2, ResetRows DEF Sessions!Knows, ResetGrows
<1>6. handlers[q].pc = "token" =>
         /\ resetCodes'[handlers[q].at].consumed
         /\ \A t \in DOMAIN tokens' : tokens'[t].code # handlers[q].at
  BY <1>0, <1>1, <1>2, ResetRows DEF Sessions!Knows, ResetGrows
<1> QED
  BY <1>1, <1>3, <1>4, <1>5, <1>6 DEF Sessions!Knows

\* Rows that grow keep the invariant, whoever moves.
LEMMA ResetRowsKeep ==
    ASSUME Sessions!IInv, ResetGrows, handlers' \in [Proc -> ResetHandlers],
           \A q \in Proc : Sessions!Knows(q)',
           \A q, r \in Proc :
              handlers'[q].pc = "token" /\ handlers'[r].pc = "token"
              /\ handlers'[q].at = handlers'[r].at => q = r,
           AccountKept
    PROVE  Sessions!IInv'
<1>1. /\ DOMAIN sessions' = 1 .. Len(sessions') /\ Len(sessions') \in Nat
      /\ DOMAIN resetCodes' = 1 .. Len(resetCodes') /\ Len(resetCodes') \in Nat
      /\ DOMAIN tokens' = 1 .. Len(tokens) /\ DOMAIN ended' = 1 .. Len(tokens)
  BY ResetRows, LenProperties DEF ResetGrows
<1>2. Sessions!Shape'
  <2>1. ASSUME NEW t \in 1 .. Len(tokens) PROVE tokens'[t].code \in 1 .. Len(resetCodes')
    <3>1. tokens'[t].code = tokens[t].code /\ Len(resetCodes') >= Len(resetCodes)
      BY DEF ResetGrows
    <3>2. tokens[t].code \in 1 .. Len(resetCodes) /\ Len(resetCodes) \in Nat
      BY ResetRows
    <3> QED
      BY <1>1, <3>1, <3>2
  <2>2. Len(ended') = Len(tokens')
    BY ResetRows DEF ResetGrows
  <2> QED
    BY <1>1, <2>1, <2>2 DEF Sessions!Shape, ResetGrows, Accounts, SessionRows, ResetCodeRows,
       TokenRows, ResetHandlers, Ends
<1>3. Sessions!CodeYieldsOneToken'
  BY <1>1, ResetRows DEF Sessions!IInv, Sessions!CodeYieldsOneToken, ResetGrows
<1>4. ASSUME NEW t \in 1 .. Len(tokens) PROVE resetCodes'[tokens'[t].code].consumed
  <2>1. resetCodes[tokens[t].code].consumed /\ tokens[t].code \in 1 .. Len(resetCodes)
    BY ResetRows DEF Sessions!IInv
  <2> QED
    BY <2>1 DEF ResetGrows
<1> QED
  BY <1>1, <1>2, <1>3, <1>4 DEF Sessions!IInv, AccountKept

\* Sets are counted alike in the instance.
LEMMA SessionCounts ==
    /\ \A S : Sessions!Cardinality(S) = Cardinality(S)
    /\ \A S : Sessions!IsFiniteSet(S) = IsFiniteSet(S)
<1>1. \A S : Sessions!Cardinality(S) = Cardinality(S)
  BY DEF Sessions!Cardinality, Cardinality
<1>2. \A S : Sessions!IsFiniteSet(S) = IsFiniteSet(S)
  BY DEF Sessions!IsFiniteSet, IsFiniteSet
<1> QED
  BY <1>1, <1>2

\* Who is about to write is counted.
LEMMA ApplyingCounted ==
    ASSUME Sessions!SessionsAssumption, NEW t
    PROVE  /\ Sessions!Applying(t) \in SUBSET Proc /\ Cardinality(Sessions!Applying(t)) \in Nat
           /\ \A T \in SUBSET Sessions!Applying(t) :
                 Cardinality(T) \in Nat /\ Cardinality(T) <= Cardinality(Sessions!Applying(t))
           /\ \A p \in Sessions!Applying(t) :
                 Cardinality(Sessions!Applying(t) \ {p}) = Cardinality(Sessions!Applying(t)) - 1
<1>1. Sessions!Applying(t) \in SUBSET Proc
  BY DEF Sessions!Applying
<1>2. IsFiniteSet(Proc)
  BY SessionCounts DEF Sessions!SessionsAssumption
<1> QED
  BY <1>1, <1>2, HandlersCounted

\* A handler that moves is about to write only with a token it has just seen unused: nobody
\* joins those who write with a token that is used up.
LEMMA AccountStays ==
    ASSUME Sessions!SessionsAssumption, Sessions!IInv, UsesStay, NEW p \in Proc, OnlyReset(p),
           handlers'[p].pc = "apply" => ~tokens[handlers'[p].at].used
    PROVE  AccountKept
<1> SUFFICES ASSUME NEW t \in 1 .. Len(tokens) PROVE Sessions!Accounted(t)'
  BY DEF AccountKept
<1> DEFINE N == Sessions!Applying(t)
           M == Sessions!Applying(t)'
<1>1. /\ Sessions!Accounted(t) /\ ended'[t] = ended[t] /\ tokens'[t].used = tokens[t].used
      /\ ended[t] \in Ends
  BY ResetRows DEF Sessions!IInv, UsesStay
<1>2. CASE tokens[t].used
  <2>1. M \in SUBSET N
    BY <1>2 DEF Sessions!Applying, OnlyReset
  <2>2. /\ Cardinality(N) \in Nat /\ Cardinality(M) \in Nat
        /\ Cardinality(M) <= Cardinality(N)
    BY <2>1, ApplyingCounted
  <2>3. /\ ended[t].resets <= 1
        /\ ended[t].changes + Cardinality(N) <= ended[t].resets + ended[t].late
        /\ ended[t].changes \in Nat /\ ended[t].resets \in Nat /\ ended[t].late \in Nat
    BY SessionCounts, <1>1, <1>2 DEF Sessions!Accounted, Ends
  <2> HIDE DEF N, M
  <2>4. ended[t].changes + Cardinality(M) <= ended[t].resets + ended[t].late
    BY <2>2, <2>3
  <2> QED
    BY SessionCounts, <1>1, <1>2, <2>3, <2>4 DEF Sessions!Accounted, M
<1>3. CASE ~tokens[t].used
  BY <1>1, <1>3 DEF Sessions!Accounted
<1> QED
  BY <1>2, <1>3

\* Such a step keeps the invariant, when its handler knows what it relies on, and goes on
\* to insert a token only with a code that was open until then, or to write only with a
\* token that is unused.
LEMMA ResetKeeps ==
    ASSUME Sessions!SessionsAssumption, Sessions!IInv, ResetGrows, NEW p \in Proc, OnlyReset(p), Sessions!Knows(p)',
           handlers'[p].pc = "token" =>
              handlers[p].pc # "token" /\ ~resetCodes[handlers'[p].at].consumed
              /\ handlers'[p].at \in DOMAIN resetCodes,
           \/ AccountKept
           \/ UsesStay /\ (handlers'[p].pc = "apply" => ~tokens[handlers'[p].at].used)
    PROVE  Sessions!IInv'
<1>1. \A q \in Proc : Sessions!Knows(q)'
  BY ResetKnowledgeStays DEF OnlyReset
<1>2. \A q, r \in Proc :
         handlers'[q].pc = "token" /\ handlers'[r].pc = "token" /\ handlers'[q].at = handlers'[r].at
         => q = r
  <2>1. \A q \in Proc \ {p} : handlers'[q].pc = "token" =>
           resetCodes[handlers'[q].at].consumed
    BY DEF OnlyReset, Sessions!IInv, Sessions!Knows
  <2>2. \A q \in Proc \ {p} :
           ~(handlers'[q].pc = "token" /\ handlers'[p].pc = "token"
             /\ handlers'[q].at = handlers'[p].at)
    BY <2>1
  <2>3. \A q, r \in Proc \ {p} :
         handlers'[q].pc = "token" /\ handlers'[r].pc = "token" /\ handlers'[q].at = handlers'[r].at
         => q = r
    BY DEF OnlyReset, Sessions!IInv
  <2> QED
    BY <2>2, <2>3
<1>3. AccountKept
  BY AccountStays
<1> QED
  BY <1>1, <1>2, <1>3, ResetRowsKeep DEF OnlyReset

\* Rows that do not change have not lost anything.
LEMMA ResetRowsSame ==
    ASSUME Sessions!IInv, UNCHANGED <<account, sessions, resetCodes, tokens, ended>>
    PROVE  ResetGrows /\ UsesStay
  BY ResetRows DEF ResetGrows, UsesStay

\* Where a handler goes.
LEMMA ResetGoes ==
    ASSUME Sessions!IInv, NEW p \in Proc,
           NEW h \in ResetHandlers, handlers' = [handlers EXCEPT ![p] = h]
    PROVE  OnlyReset(p) /\ handlers'[p] = h
  BY ResetRows DEF OnlyReset

\* A handler goes on with the row it has.
LEMMA ResetGoesTo ==
    ASSUME Sessions!IInv, NEW p \in Proc, NEW to \in Sessions!Pcs, Sessions!Goto(p, to)
    PROVE  /\ OnlyReset(p) /\ handlers'[p].pc = to /\ handlers'[p].at = handlers[p].at
           /\ handlers[p].at \in Nat
  BY ResetRows DEF OnlyReset, Sessions!Goto, ResetHandlers

\* A request gets a handler.
LEMMA ResetBegins ==
    ASSUME Sessions!IInv, NEW p \in Proc, NEW to \in Sessions!Pcs, NEW at \in Nat,
           NEW password \in Password, Sessions!Begin(p, to, at, password)
    PROVE  /\ OnlyReset(p) /\ handlers'[p].pc = to /\ handlers'[p].at = at
           /\ handlers[p].pc = "idle"
<1> DEFINE h == [pc |-> to, at |-> at, password |-> password]
<1>1. h \in ResetHandlers
  BY DEF ResetHandlers
<1>2. OnlyReset(p) /\ handlers'[p] = h
  BY <1>1, ResetGoes DEF Sessions!Begin
<1> QED
  BY <1>2 DEF Sessions!Begin

\* A handler that answers relies on nothing.
LEMMA ResetAnswers ==
    ASSUME Sessions!SessionsAssumption, Sessions!IInv, NEW p \in Proc, Sessions!Answer(p)
    PROVE  /\ OnlyReset(p) /\ handlers'[p].pc = "idle" /\ Sessions!Knows(p)'
<1>1. Sessions!Idle \in ResetHandlers
  BY DEF Sessions!Idle, ResetHandlers, Sessions!Pcs, Sessions!SessionsAssumption
<1>2. OnlyReset(p) /\ handlers'[p] = Sessions!Idle
  BY <1>1, ResetGoes DEF Sessions!Answer
<1> QED
  BY <1>2 DEF Sessions!Idle, Sessions!Knows

\* A request that starts, and has found what it is about.
LEMMA ResetStarts ==
    ASSUME Sessions!SessionsAssumption, Sessions!IInv, NEW p \in Proc,
           NEW to \in {"issue", "rotate", "invalidate", "count", "claim", "recheck"},
           NEW at \in Nat, NEW password \in Password, Sessions!Begin(p, to, at, password),
           to = "rotate" => at \in DOMAIN sessions,
           to \in {"count", "claim"} => at \in DOMAIN resetCodes,
           to = "recheck" => at \in DOMAIN tokens,
           UNCHANGED <<account, sessions, resetCodes, tokens, ended>>
    PROVE  Sessions!IInv'
<1>1. to \in Sessions!Pcs
  BY DEF Sessions!Pcs
<1>2. /\ OnlyReset(p) /\ handlers'[p].pc = to /\ handlers'[p].at = at
  BY <1>1, ResetBegins
<1>3. Sessions!Knows(p)'
  BY <1>2 DEF Sessions!Knows
<1> QED
  BY <1>2, <1>3, ResetKeeps, ResetRowsSame

\* The first step of every request.
LEMMA RequestKeeps ==
    ASSUME Sessions!SessionsAssumption, Sessions!IInv, NEW p \in Proc, Sessions!Request(p)
    PROVE  Sessions!IInv'
<1>0. First \in Password /\ account.password \in Password
  BY ResetRows DEF Sessions!SessionsAssumption, Accounts
<1>1. CASE Sessions!Login(p)
  BY <1>0, <1>1, ResetStarts DEF Sessions!Login
<1>2. CASE Sessions!ForgotPassword(p) \/ Sessions!ResendCode(p)
  BY <1>0, <1>2, ResetStarts DEF Sessions!ForgotPassword, Sessions!ResendCode
<1>3. ASSUME NEW s \in DOMAIN sessions, Sessions!RefreshSession(p, s)
      PROVE  Sessions!IInv'
  <2>1. s \in Nat /\ sessions[s].password \in Password
    BY ResetRows DEF SessionRows
  <2> QED
    BY <1>3, <2>1, ResetStarts DEF Sessions!RefreshSession
<1>4. ASSUME NEW s \in DOMAIN sessions, Sessions!Logout(p, s)
      PROVE  Sessions!IInv'
  <2> DEFINE new == [sessions[s] EXCEPT !.revoked = TRUE]
  <2>1. new \in SessionRows /\ sessions' = [sessions EXCEPT ![s] = new]
    BY <1>4, ResetRows DEF SessionRows, Sessions!Logout
  <2>2. UNCHANGED <<account, resetCodes, tokens, handlers, ended>> /\ handlers[p].pc = "idle"
    BY <1>4 DEF Sessions!Logout
  <2> HIDE DEF new
  <2>3. sessions' \in Seq(SessionRows) /\ Len(sessions') = Len(sessions)
    BY <2>1, ResetRows, Replaced
  <2>4. ResetGrows /\ OnlyReset(p) /\ UsesStay
    BY <2>2, <2>3, ResetRows DEF ResetGrows, OnlyReset, UsesStay
  <2>5. Sessions!Knows(p)'
    BY <2>2 DEF Sessions!Knows
  <2> QED
    BY <2>2, <2>4, <2>5, ResetKeeps
<1>5. ASSUME NEW right \in BOOLEAN, Sessions!FindCode(p, right)
      PROVE  Sessions!IInv'
  <2>1. /\ Len(resetCodes) \in Nat /\ Len(resetCodes) \in DOMAIN resetCodes
        /\ UNCHANGED <<account, sessions, resetCodes, tokens, ended>>
    BY <1>5, ResetRows, EmptySeq DEF Sessions!FindCode
  <2>2. \/ Sessions!Begin(p, "claim", Len(resetCodes), First)
        \/ Sessions!Begin(p, "count", Len(resetCodes), First)
    BY <1>5 DEF Sessions!FindCode, Sessions!Latest
  <2>3. CASE Sessions!Begin(p, "claim", Len(resetCodes), First)
    BY <1>0, <2>1, <2>3, ResetStarts
  <2>4. CASE Sessions!Begin(p, "count", Len(resetCodes), First)
    BY <1>0, <2>1, <2>4, ResetStarts
  <2> QED
    BY <2>2, <2>3, <2>4
<1>6. ASSUME NEW t \in DOMAIN tokens, NEW password \in Password,
             Sessions!ResetPassword(p, t, password)
      PROVE  Sessions!IInv'
  <2>1. t \in Nat
    BY ResetRows
  <2> QED
    BY <1>6, <2>1, ResetStarts DEF Sessions!ResetPassword
<1> QED
  BY <1>1, <1>2, <1>3, <1>4, <1>5, <1>6 DEF Sessions!Request

\* A row of the sessions, of the codes or of the tokens, and nothing else, changes.
LEMMA SessionsChange ==
    ASSUME Sessions!SessionsAssumption, Sessions!IInv, NEW p \in Proc, Sessions!Answer(p),
           sessions' \in Seq(SessionRows), Len(sessions') >= Len(sessions),
           UNCHANGED <<account, resetCodes, tokens, ended>>
    PROVE  Sessions!IInv'
<1>1. ResetGrows /\ UsesStay
  BY ResetRows DEF ResetGrows, UsesStay
<1> QED
  BY <1>1, ResetAnswers, ResetKeeps

\* A session is opened, the one it replaces is revoked.
LEMMA IssueSessionKeeps ==
    ASSUME Sessions!SessionsAssumption, Sessions!IInv, NEW p \in Proc,
           Sessions!IssueSession(p) \/ Sessions!RotateToken(p)
    PROVE  Sessions!IInv'
<1> DEFINE new == [password |-> handlers[p].password, revoked |-> FALSE]
           more == Append(sessions, new)
           at == handlers[p].at
<1>0. /\ Sessions!Answer(p) /\ UNCHANGED <<account, resetCodes, tokens, ended>>
      /\ handlers[p] \in ResetHandlers /\ Sessions!Knows(p)
  BY ResetRows DEF Sessions!IssueSession, Sessions!RotateToken, Sessions!IInv
<1>1. new \in SessionRows
  BY <1>0 DEF SessionRows, ResetHandlers
<1> HIDE DEF new
<1>2. /\ more \in Seq(SessionRows) /\ Len(more) = Len(sessions) + 1 /\ Len(sessions) \in Nat
      /\ DOMAIN more = 1 .. Len(sessions) + 1 /\ DOMAIN sessions = 1 .. Len(sessions)
  BY <1>1, ResetRows, Appended
<1>3. CASE Sessions!IssueSession(p)
  <2>1. sessions' = more
    BY <1>3 DEF Sessions!IssueSession, Sessions!Opened, new
  <2> HIDE DEF more
  <2> QED
    BY <1>0, <1>2, <2>1, SessionsChange
<1>4. CASE Sessions!RotateToken(p)
  <2>1. sessions' = [more EXCEPT ![at].revoked = TRUE] /\ handlers[p].pc = "rotate"
    BY <1>4 DEF Sessions!RotateToken, Sessions!Opened, new
  <2>2. at \in DOMAIN sessions
    BY <1>0, <2>1 DEF Sessions!Knows
  <2> DEFINE ended2 == [more[at] EXCEPT !.revoked = TRUE]
  <2> HIDE DEF more
  <2>3. at \in DOMAIN more /\ more[at] \in SessionRows
    BY <1>2, <2>2, ElementOfSeq
  <2>4. ended2 \in SessionRows /\ sessions' = [more EXCEPT ![at] = ended2]
    BY <2>1, <2>3 DEF SessionRows
  <2> HIDE DEF ended2, at
  <2>5. sessions' \in Seq(SessionRows) /\ Len(sessions') = Len(sessions) + 1
    BY <1>2, <2>3, <2>4, Replaced
  <2> QED
    BY <1>0, <1>2, <2>5, SessionsChange
<1> QED
  BY <1>3, <1>4

\* The two statements that replace a code.
LEMMA InvalidateCodesKeeps ==
    ASSUME Sessions!SessionsAssumption, Sessions!IInv, NEW p \in Proc, Sessions!InvalidateCodes(p)
    PROVE  Sessions!IInv'
<1>0. /\ resetCodes' = [i \in DOMAIN resetCodes |-> [resetCodes[i] EXCEPT !.consumed = TRUE]]
      /\ Sessions!Goto(p, "insert") /\ UNCHANGED <<account, sessions, tokens, ended>>
      /\ {"insert"} \subseteq Sessions!Pcs
  BY DEF Sessions!InvalidateCodes, Sessions!Pcs
<1>1. /\ resetCodes' \in [1 .. Len(resetCodes) -> ResetCodeRows]
      /\ \A i \in 1 .. Len(resetCodes) : resetCodes'[i].consumed
  BY <1>0, ResetRows DEF ResetCodeRows
<1>2. resetCodes' \in Seq(ResetCodeRows) /\ Len(resetCodes') = Len(resetCodes)
  BY <1>1, SequenceOf, ResetRows
<1>3. ResetGrows /\ UsesStay
  BY <1>0, <1>1, <1>2, ResetRows DEF ResetGrows, UsesStay
<1>4. OnlyReset(p) /\ handlers'[p].pc = "insert"
  BY <1>0, ResetGoesTo
<1>5. Sessions!Knows(p)'
  BY <1>4 DEF Sessions!Knows
<1> QED
  BY <1>3, <1>4, <1>5, ResetKeeps

\* A code is inserted, unused and unclaimed.
LEMMA InsertResetCodeKeeps ==
    ASSUME Sessions!SessionsAssumption, Sessions!IInv, NEW p \in Proc, Sessions!InsertCode(p)
    PROVE  Sessions!IInv'
<1>0. /\ resetCodes' = Append(resetCodes, Sessions!NewCode)
      /\ Sessions!Answer(p) /\ UNCHANGED <<account, sessions, tokens, ended>>
  BY DEF Sessions!InsertCode
<1>1. Sessions!NewCode \in ResetCodeRows
  BY DEF Sessions!NewCode, ResetCodeRows, Sessions!SessionsAssumption
<1>2. /\ resetCodes' \in Seq(ResetCodeRows) /\ Len(resetCodes') = Len(resetCodes) + 1
      /\ \A i \in 1 .. Len(resetCodes) : resetCodes'[i] = resetCodes[i]
  BY <1>0, <1>1, ResetRows, Appended
<1>3. ResetGrows /\ UsesStay
  BY <1>0, <1>2, ResetRows DEF ResetGrows, UsesStay
<1> QED
  BY <1>0, <1>3, ResetAnswers, ResetKeeps

\* One code changes, and is not opened again.
LEMMA ResetCodeChange ==
    ASSUME Sessions!IInv, NEW c \in DOMAIN resetCodes, NEW new \in ResetCodeRows,
           resetCodes[c].consumed => new.consumed, resetCodes' = [resetCodes EXCEPT ![c] = new],
           UNCHANGED <<account, sessions, tokens, ended>>
    PROVE  ResetGrows /\ UsesStay /\ resetCodes'[c] = new
<1>1. /\ resetCodes' \in Seq(ResetCodeRows) /\ Len(resetCodes') = Len(resetCodes)
      /\ \A i \in 1 .. Len(resetCodes) : resetCodes'[i] = IF i = c THEN new ELSE resetCodes[i]
  BY ResetRows, Replaced
<1> QED
  BY <1>1, ResetRows DEF ResetGrows, UsesStay

\* A wrong guess counts only below the limit.
LEMMA CountResetAttemptKeeps ==
    ASSUME Sessions!SessionsAssumption, Sessions!IInv, NEW p \in Proc, Sessions!CountAttempt(p)
    PROVE  Sessions!IInv'
<1> DEFINE c == handlers[p].at
<1>0. /\ Sessions!Answer(p) /\ UNCHANGED <<account, sessions, tokens, ended>>
      /\ c \in DOMAIN resetCodes /\ resetCodes[c] \in ResetCodeRows /\ ResetAttempts \in Nat
  BY ResetRows DEF Sessions!CountAttempt, Sessions!Knows, Sessions!IInv,
     Sessions!SessionsAssumption
<1>1. CASE ~resetCodes[c].consumed /\ resetCodes[c].attempts < ResetAttempts
  <2> DEFINE new == [resetCodes[c] EXCEPT !.attempts = @ + 1]
  <2>1. resetCodes' = [resetCodes EXCEPT ![c].attempts = @ + 1]
    BY <1>1 DEF Sessions!CountAttempt
  <2>2. /\ new \in ResetCodeRows /\ resetCodes' = [resetCodes EXCEPT ![c] = new]
    BY <1>0, <1>1, <2>1 DEF ResetCodeRows
  <2> HIDE DEF new
  <2>3. ResetGrows /\ UsesStay
    BY <1>0, <1>1, <2>2, ResetCodeChange
  <2> QED
    BY <1>0, <2>3, ResetAnswers, ResetKeeps
<1>2. CASE ~(~resetCodes[c].consumed /\ resetCodes[c].attempts < ResetAttempts)
  <2>1. resetCodes' = resetCodes
    BY <1>2 DEF Sessions!CountAttempt
  <2> QED
    BY <1>0, <2>1, ResetAnswers, ResetKeeps, ResetRowsSame
<1> QED
  BY <1>1, <1>2

\* Tokens that are marked as used, all of them.
LEMMA TokensInvalidated ==
    ASSUME Sessions!IInv, tokens' = [t \in DOMAIN tokens |-> [tokens[t] EXCEPT !.used = TRUE]]
    PROVE  /\ tokens' \in Seq(TokenRows) /\ Len(tokens') = Len(tokens)
           /\ DOMAIN tokens' = 1 .. Len(tokens)
           /\ \A t \in 1 .. Len(tokens) : tokens'[t].code = tokens[t].code /\ tokens'[t].used
<1>1. /\ tokens' \in [1 .. Len(tokens) -> TokenRows]
      /\ \A t \in 1 .. Len(tokens) : tokens'[t].code = tokens[t].code /\ tokens'[t].used
  BY ResetRows DEF TokenRows
<1> QED
  BY <1>1, SequenceOf, ResetRows

\* Of a token that is withdrawn those who are about to write with it are counted, and the
\* handler that withdraws it is none of them.
LEMMA TokensWithdrawn ==
    ASSUME Sessions!SessionsAssumption, Sessions!IInv, NEW p \in Proc, OnlyReset(p),
           handlers[p].pc = "claim", handlers'[p].pc = "token",
           \A t \in 1 .. Len(tokens) :
              /\ tokens'[t].used
              /\ ended'[t] = IF tokens[t].used THEN ended[t]
                             ELSE [ended[t] EXCEPT !.late = Cardinality(Sessions!Applying(t))]
    PROVE  AccountKept
<1> SUFFICES ASSUME NEW t \in 1 .. Len(tokens) PROVE Sessions!Accounted(t)'
  BY DEF AccountKept
<1> DEFINE N == Sessions!Applying(t)
<1>1. Sessions!Applying(t)' = N
  BY DEF Sessions!Applying, OnlyReset
<1>2. Sessions!Accounted(t) /\ ended[t] \in Ends /\ Cardinality(N) \in Nat
  BY ResetRows, ApplyingCounted DEF Sessions!IInv
<1>3. CASE tokens[t].used
  BY <1>1, <1>2, <1>3 DEF Sessions!Accounted
<1>4. CASE ~tokens[t].used
  <2>1. /\ ended[t] = Sessions!Unused /\ tokens'[t].used
        /\ ended'[t] = [ended[t] EXCEPT !.late = Cardinality(N)]
    BY <1>2, <1>4 DEF Sessions!Accounted
  <2> HIDE DEF N
  <2>2. ended'[t].resets = 0 /\ ended'[t].changes = 0 /\ ended'[t].late = Cardinality(N)
    BY <2>1 DEF Sessions!Unused
  <2>3. /\ ended'[t].resets <= 1
        /\ ended'[t].changes + Cardinality(N) <= ended'[t].resets + ended'[t].late
    BY <1>2, <2>2
  <2> QED
    BY SessionCounts, <1>1, <2>1, <2>3 DEF Sessions!Accounted, N
<1> QED
  BY <1>3, <1>4

\* The code is claimed by one, and no token came from it while it was open.
LEMMA ClaimCodeKeeps ==
    ASSUME Sessions!SessionsAssumption, Sessions!IInv, NEW p \in Proc, Sessions!ClaimCode(p)
    PROVE  Sessions!IInv'
<1> DEFINE c == handlers[p].at
<1>0. /\ handlers[p].pc = "claim" /\ UNCHANGED <<account, sessions>>
      /\ c \in DOMAIN resetCodes /\ resetCodes[c] \in ResetCodeRows
  BY ResetRows DEF Sessions!ClaimCode, Sessions!Knows, Sessions!IInv
<1>1. CASE resetCodes[c].consumed
  <2>1. Sessions!Answer(p) /\ UNCHANGED <<resetCodes, tokens, ended>>
    BY <1>1 DEF Sessions!ClaimCode
  <2> QED
    BY <1>0, <2>1, ResetAnswers, ResetKeeps, ResetRowsSame
<1>2. CASE ~resetCodes[c].consumed
  <2> DEFINE new == [resetCodes[c] EXCEPT !.consumed = TRUE]
  <2>1. /\ resetCodes' = [resetCodes EXCEPT ![c].consumed = TRUE]
        /\ tokens' = [t \in DOMAIN tokens |-> [tokens[t] EXCEPT !.used = TRUE]]
        /\ ended' = [t \in DOMAIN tokens |->
                        IF tokens[t].used THEN ended[t]
                        ELSE [ended[t] EXCEPT !.late = Cardinality(Sessions!Applying(t))]]
        /\ Sessions!Goto(p, "token") /\ {"token"} \subseteq Sessions!Pcs
    BY SessionCounts, <1>2 DEF Sessions!ClaimCode, Sessions!Pcs
  <2>2. /\ new \in ResetCodeRows /\ resetCodes' = [resetCodes EXCEPT ![c] = new] /\ new.consumed
    BY <1>0, <2>1 DEF ResetCodeRows
  <2> HIDE DEF new
  <2>3. /\ resetCodes' \in Seq(ResetCodeRows) /\ Len(resetCodes') = Len(resetCodes)
        /\ \A i \in 1 .. Len(resetCodes) : resetCodes'[i] = IF i = c THEN new ELSE resetCodes[i]
        /\ DOMAIN resetCodes' = 1 .. Len(resetCodes)
    BY <1>0, <2>2, ResetRows, Replaced
  <2>4. /\ tokens' \in Seq(TokenRows) /\ Len(tokens') = Len(tokens)
        /\ DOMAIN tokens' = 1 .. Len(tokens)
        /\ \A t \in 1 .. Len(tokens) : tokens'[t].code = tokens[t].code /\ tokens'[t].used
    BY <2>1, TokensInvalidated
  <2>5. /\ ended' \in [1 .. Len(tokens) -> Ends]
        /\ \A t \in 1 .. Len(tokens) :
              ended'[t] = IF tokens[t].used THEN ended[t]
                          ELSE [ended[t] EXCEPT !.late = Cardinality(Sessions!Applying(t))]
    BY <2>1, ResetRows, ApplyingCounted DEF Ends
  <2>10. ended' \in Seq(Ends) /\ Len(ended') = Len(ended)
    BY <2>5, SequenceOf, ResetRows
  <2>11. ResetGrows
    BY <1>0, <2>2, <2>3, <2>4, <2>10, ResetRows DEF ResetGrows
  <2>6. OnlyReset(p) /\ handlers'[p].pc = "token" /\ handlers'[p].at = c
    BY <2>1, ResetGoesTo
  <2>12. AccountKept
    BY <1>0, <2>4, <2>5, <2>6, TokensWithdrawn
  <2>7. \A t \in 1 .. Len(tokens) : tokens[t].code # c
    BY <1>2, ResetRows DEF Sessions!IInv, Sessions!UsedUp
  <2>8. c \in 1 .. Len(resetCodes) /\ resetCodes'[c].consumed
    BY <1>0, <2>2, <2>3, ResetRows
  <2>9. Sessions!Knows(p)'
    BY <2>3, <2>4, <2>6, <2>7, <2>8 DEF Sessions!Knows
  <2> QED
    BY <1>0, <1>2, <2>6, <2>9, <2>11, <2>12, ResetKeeps
<1> QED
  BY <1>1, <1>2

\* The token of the claimed code.
LEMMA InsertTokenKeeps ==
    ASSUME Sessions!SessionsAssumption, Sessions!IInv, NEW p \in Proc, Sessions!InsertToken(p)
    PROVE  Sessions!IInv'
<1> DEFINE c == handlers[p].at
           n == Len(tokens)
           new == [used |-> FALSE, expired |-> FALSE, code |-> c]
<1>0. /\ handlers[p].pc = "token" /\ Sessions!Answer(p)
      /\ UNCHANGED <<account, sessions, resetCodes>>
      /\ tokens' = Append(tokens, new) /\ ended' = Append(ended, Sessions!Unused)
      /\ c \in DOMAIN resetCodes /\ resetCodes[c].consumed
      /\ \A t \in DOMAIN tokens : tokens[t].code # c
  BY DEF Sessions!InsertToken, Sessions!Knows, Sessions!IInv
<1>1. new \in TokenRows /\ new.code = c /\ n \in Nat
  BY <1>0, ResetRows DEF TokenRows
<1> HIDE DEF new
<1>2. /\ tokens' \in Seq(TokenRows) /\ Len(tokens') = n + 1 /\ DOMAIN tokens' = 1 .. n + 1
      /\ tokens'[n + 1] = new /\ \A t \in 1 .. n : tokens'[t] = tokens[t]
  BY <1>0, <1>1, ResetRows, Appended
<1>3. /\ ended' \in Seq(Ends) /\ Len(ended') = n + 1 /\ DOMAIN ended' = 1 .. n + 1
      /\ ended'[n + 1] = Sessions!Unused /\ \A t \in 1 .. n : ended'[t] = ended[t]
  <2>1. Sessions!Unused \in Ends
    BY DEF Sessions!Unused, Ends
  <2> QED
    BY <1>0, <2>1, ResetRows, Appended
<1>4. OnlyReset(p) /\ handlers'[p].pc = "idle" /\ Sessions!Knows(p)'
  BY <1>0, ResetAnswers
<1>5. \A t \in 1 .. n + 1 : tokens'[t].code \in DOMAIN resetCodes
  BY <1>0, <1>1, <1>2, ResetRows
<1>6. Sessions!Shape'
  BY <1>0, <1>2, <1>3, <1>4, <1>5, ResetRows
     DEF Sessions!Shape, OnlyReset, Accounts, SessionRows, ResetCodeRows, TokenRows, ResetHandlers,
         Ends
<1>7. ASSUME NEW q \in Proc \ {p} PROVE Sessions!Knows(q)'
  <2>1. handlers'[q] = handlers[q] /\ handlers[q] \in ResetHandlers /\ Sessions!Knows(q)
    BY <1>4, ResetRows DEF OnlyReset, Sessions!IInv
  <2>2. handlers[q].pc = "token" => handlers[q].at # c
    BY <1>0 DEF Sessions!IInv
  <2>3. handlers[q].pc \in {"recheck", "apply"} => handlers[q].at \in 1 .. n + 1
    BY <1>1, <2>1, ResetRows DEF Sessions!Knows, ResetHandlers
  <2>4. handlers[q].pc = "token" => \A t \in 1 .. n + 1 : tokens'[t].code # handlers[q].at
    <3>1. handlers[q].pc = "token" => \A t \in 1 .. n : tokens'[t].code # handlers[q].at
      BY <1>2, <2>1, ResetRows DEF Sessions!Knows
    <3>2. tokens'[n + 1].code = c
      BY <1>1, <1>2
    <3> QED
      BY <1>1, <2>2, <3>1, <3>2
  <2> QED
    BY <1>0, <1>2, <2>1, <2>3, <2>4 DEF Sessions!Knows
<1>8. \A q, r \in Proc :
         handlers'[q].pc = "token" /\ handlers'[r].pc = "token" /\ handlers'[q].at = handlers'[r].at
         => q = r
  BY <1>4 DEF OnlyReset, Sessions!IInv
<1>9. Sessions!CodeYieldsOneToken'
  <2> SUFFICES ASSUME NEW t \in 1 .. n + 1, NEW u \in 1 .. n + 1,
                      tokens'[t].code = tokens'[u].code
               PROVE  t = u
    BY <1>2 DEF Sessions!CodeYieldsOneToken
  <2>1. CASE t \in 1 .. n /\ u \in 1 .. n
    BY <1>2, <2>1, ResetRows DEF Sessions!IInv, Sessions!CodeYieldsOneToken
  <2>2. CASE t = n + 1 \/ u = n + 1
    <3>1. \A v \in 1 .. n : tokens'[v].code # c
      BY <1>0, <1>2, ResetRows
    <3>2. tokens'[n + 1].code = c
      BY <1>1, <1>2
    <3> QED
      BY <1>1, <2>2, <3>1, <3>2
  <2> QED
    BY <1>1, <2>1, <2>2
<1>10. ASSUME NEW t \in 1 .. n PROVE Sessions!Accounted(t)'
  <2>1. tokens'[t] = tokens[t] /\ ended'[t] = ended[t] /\ Sessions!Accounted(t)
    BY <1>2, <1>3, ResetRows DEF Sessions!IInv
  <2>2. Sessions!Applying(t)' = Sessions!Applying(t)
    BY <1>0, <1>4 DEF Sessions!Applying, OnlyReset
  <2> QED
    BY <2>1, <2>2 DEF Sessions!Accounted
<1>11. ASSUME NEW t, t = n + 1 PROVE Sessions!Accounted(t)'
  BY SessionCounts, <1>1, <1>2, <1>3, <1>11 DEF Sessions!Accounted, new
<1>12. \A t \in 1 .. n + 1 : resetCodes'[tokens'[t].code].consumed
  <2>1. \A t \in 1 .. n : resetCodes[tokens[t].code].consumed
    BY ResetRows DEF Sessions!IInv
  <2> QED
    BY <1>0, <1>1, <1>2, <2>1
<1>13. \A t \in DOMAIN tokens' : Sessions!Accounted(t)' /\ resetCodes'[tokens'[t].code].consumed
  <2> SUFFICES ASSUME NEW t \in 1 .. n + 1
               PROVE  Sessions!Accounted(t)' /\ resetCodes'[tokens'[t].code].consumed
    BY <1>2
  <2>1. t \in 1 .. n \/ t = n + 1
    BY <1>1
  <2> QED
    BY <1>10, <1>11, <1>12, <2>1
<1> QED
  BY <1>4, <1>6, <1>7, <1>8, <1>9, <1>13 DEF Sessions!IInv

\* The token is looked at once more.
LEMMA RecheckTokenKeeps ==
    ASSUME Sessions!SessionsAssumption, Sessions!IInv, NEW p \in Proc, Sessions!RecheckToken(p)
    PROVE  Sessions!IInv'
<1>1. /\ Sessions!Answer(p) \/ (Sessions!Goto(p, "apply") /\ ~tokens[handlers[p].at].used)
      /\ "apply" \in Sessions!Pcs
      /\ UNCHANGED <<account, sessions, resetCodes, tokens, ended>>
      /\ handlers[p].pc = "recheck" /\ handlers[p].at \in DOMAIN tokens
  BY DEF Sessions!RecheckToken, Sessions!Knows, Sessions!IInv, Sessions!Pcs
<1>2. CASE Sessions!Answer(p)
  BY <1>1, <1>2, ResetAnswers, ResetKeeps, ResetRowsSame
<1>3. CASE Sessions!Goto(p, "apply") /\ ~tokens[handlers[p].at].used
  <2>1. OnlyReset(p) /\ handlers'[p].pc = "apply" /\ handlers'[p].at = handlers[p].at
    BY <1>1, <1>3, ResetGoesTo
  <2>2. Sessions!Knows(p)'
    BY <1>1, <2>1 DEF Sessions!Knows
  <2> QED
    BY <1>1, <1>3, <2>1, <2>2, ResetKeeps, ResetRowsSame
<1> QED
  BY <1>1, <1>2, <1>3

\* Who has written is counted, and writes no more; the first is counted with those who
\* were about to write beside it.
LEMMA WritesAreCounted ==
    ASSUME Sessions!SessionsAssumption, Sessions!IInv, NEW p \in Proc, OnlyReset(p),
           handlers[p].pc = "apply", handlers'[p].pc = "idle",
           NEW t \in 1 .. Len(tokens), handlers[p].at = t, tokens'[t].used,
           ended'[t] = IF tokens[t].used THEN [ended[t] EXCEPT !.changes = @ + 1]
                       ELSE [changes |-> ended[t].changes + 1, resets |-> ended[t].resets + 1,
                             late |-> Cardinality(Sessions!Applying(t) \ {p})],
           \A u \in 1 .. Len(tokens) : u # t => ended'[u] = ended[u] /\ tokens'[u] = tokens[u]
    PROVE  AccountKept
<1> SUFFICES ASSUME NEW u \in 1 .. Len(tokens) PROVE Sessions!Accounted(u)'
  BY DEF AccountKept
<1>0. Sessions!Accounted(u) /\ ended[u] \in Ends
  BY ResetRows DEF Sessions!IInv
<1>1. CASE u # t
  <2>1. Sessions!Applying(u)' = Sessions!Applying(u)
    BY <1>1 DEF Sessions!Applying, OnlyReset
  <2> QED
    BY <1>0, <1>1, <2>1 DEF Sessions!Accounted
<1>2. CASE u = t
  <2> DEFINE N == Sessions!Applying(t)
             e == ended[t]
  <2>1. Sessions!Applying(t)' = N \ {p} /\ p \in N
    BY DEF Sessions!Applying, OnlyReset
  <2>2. Cardinality(N) \in Nat /\ Cardinality(N \ {p}) = Cardinality(N) - 1
    BY <2>1, ApplyingCounted
  <2> HIDE DEF N
  <2>3. e.changes \in Nat /\ e.resets \in Nat /\ e.late \in Nat
    BY <1>0, <1>2 DEF Ends
  <2>4. CASE tokens[t].used
    <3>1. e.resets <= 1 /\ e.changes + Cardinality(N) <= e.resets + e.late
      BY SessionCounts, <1>0, <1>2, <2>4 DEF Sessions!Accounted, N
    <3>2. /\ ended'[t].resets = e.resets /\ ended'[t].late = e.late
          /\ ended'[t].changes = e.changes + 1
      BY <1>0, <1>2, <2>4 DEF Ends
    <3> HIDE DEF e
    <3>3. /\ ended'[t].resets <= 1
          /\ ended'[t].changes + Cardinality(N \ {p}) <= ended'[t].resets + ended'[t].late
      BY <2>2, <2>3, <3>1, <3>2
    <3> QED
      BY SessionCounts, <1>2, <2>1, <3>3 DEF Sessions!Accounted
  <2>5. CASE ~tokens[t].used
    <3>1. e = Sessions!Unused
      BY <1>0, <1>2, <2>5 DEF Sessions!Accounted
    <3>2. e.changes = 0 /\ e.resets = 0
      BY <3>1 DEF Sessions!Unused
    <3>3. /\ ended'[t].resets = 1 /\ ended'[t].changes = 1
          /\ ended'[t].late = Cardinality(N \ {p})
      BY <2>5, <3>2 DEF N
    <3>4. /\ ended'[t].resets <= 1
          /\ ended'[t].changes + Cardinality(N \ {p}) <= ended'[t].resets + ended'[t].late
      BY <2>2, <3>3
    <3> QED
      BY SessionCounts, <1>2, <2>1, <3>4 DEF Sessions!Accounted
  <2> QED
    BY <2>4, <2>5
<1> QED
  BY <1>1, <1>2

\* The password is set; the token is used up if it was not already.
LEMMA ApplyResetKeeps ==
    ASSUME Sessions!SessionsAssumption, Sessions!IInv, NEW p \in Proc, Sessions!ApplyReset(p)
    PROVE  Sessions!IInv'
<1> DEFINE t == handlers[p].at
           end == IF tokens[t].used THEN [ended[t] EXCEPT !.changes = @ + 1]
                  ELSE [changes |-> ended[t].changes + 1, resets |-> ended[t].resets + 1,
                        late |-> Cardinality(Sessions!Applying(t) \ {p})]
           new == [tokens[t] EXCEPT !.used = TRUE]
<1>0. /\ handlers[p].pc = "apply" /\ Sessions!Answer(p) /\ resetCodes' = resetCodes
      /\ account' = [account EXCEPT !.password = handlers[p].password]
      /\ handlers[p] \in ResetHandlers /\ t \in DOMAIN tokens /\ tokens[t] \in TokenRows
      /\ ended[t] \in Ends /\ t \in DOMAIN ended /\ t \in 1 .. Len(tokens)
  BY ResetRows DEF Sessions!ApplyReset, Sessions!Knows, Sessions!IInv
<1>1. account' \in Accounts
  BY <1>0, ResetRows DEF Accounts, ResetHandlers
<1>2. ended' = [ended EXCEPT ![t] = end]
  <2>1. CASE tokens[t].used
    <3>1. ended' = [ended EXCEPT ![t].changes = @ + 1]
      BY <2>1 DEF Sessions!ApplyReset
    <3> QED
      BY <1>0, <2>1, <3>1
  <2>2. CASE ~tokens[t].used
    <3>1. ended' = [ended EXCEPT ![t] =
                      [changes |-> @.changes + 1, resets |-> @.resets + 1,
                       late |-> Cardinality(Sessions!Applying(t) \ {p})]]
      BY <2>2, SessionCounts DEF Sessions!ApplyReset
    <3> QED
      BY <1>0, <2>2, <3>1
  <2> QED
    BY <2>1, <2>2
<1>3. end \in Ends
  <2>1. p \in Sessions!Applying(t)
    BY <1>0 DEF Sessions!Applying
  <2>2. Cardinality(Sessions!Applying(t) \ {p}) \in Nat
    BY <2>1, ApplyingCounted
  <2>3. CASE tokens[t].used
    BY <1>0, <2>3 DEF Ends
  <2>4. CASE ~tokens[t].used
    <3>1. ended[t].changes + 1 \in Nat /\ ended[t].resets + 1 \in Nat
      BY <1>0 DEF Ends
    <3> QED
      BY <2>2, <2>4, <3>1 DEF Ends
  <2> QED
    BY <2>3, <2>4
<1>4. /\ new \in TokenRows /\ new.used /\ new.code = tokens[t].code
      /\ tokens' = [tokens EXCEPT ![t] = new]
  <2>1. new \in TokenRows /\ new.used /\ new.code = tokens[t].code
    BY <1>0 DEF TokenRows
  <2>2. CASE tokens[t].used
    <3>1. new = tokens[t] /\ tokens' = tokens
      BY <1>0, <2>2 DEF TokenRows, Sessions!ApplyReset
    <3> HIDE DEF new
    <3>2. tokens = [tokens EXCEPT ![t] = new]
      BY <1>0, <3>1, ResetRows
    <3> QED
      BY <2>1, <3>1, <3>2
  <2>3. CASE ~tokens[t].used
    BY <2>1, <2>3 DEF Sessions!ApplyReset
  <2> QED
    BY <2>2, <2>3
<1>5. sessions' \in Seq(SessionRows) /\ Len(sessions') = Len(sessions)
  <2>1. CASE sessions' = sessions
    BY <2>1, ResetRows
  <2>2. CASE sessions' = [s \in DOMAIN sessions |-> [sessions[s] EXCEPT !.revoked = TRUE]]
    <3>1. sessions' \in [1 .. Len(sessions) -> SessionRows]
      BY <2>2, ResetRows DEF SessionRows
    <3> QED
      BY <3>1, SequenceOf, ResetRows
  <2> QED
    BY <2>1, <2>2 DEF Sessions!ApplyReset
<1> HIDE DEF new, end
<1>6. /\ tokens' \in Seq(TokenRows) /\ Len(tokens') = Len(tokens)
      /\ \A u \in 1 .. Len(tokens) : tokens'[u] = IF u = t THEN new ELSE tokens[u]
  BY <1>0, <1>4, ResetRows, Replaced
<1>7. /\ ended' \in Seq(Ends) /\ Len(ended') = Len(ended)
      /\ \A u \in 1 .. Len(tokens) : ended'[u] = IF u = t THEN end ELSE ended[u]
  BY <1>0, <1>2, <1>3, ResetRows, Replaced
<1>8. ResetGrows
  BY <1>0, <1>1, <1>4, <1>5, <1>6, <1>7, ResetRows DEF ResetGrows
<1>9. OnlyReset(p) /\ handlers'[p].pc = "idle" /\ Sessions!Knows(p)'
  BY <1>0, ResetAnswers
<1>10. /\ tokens'[t].used
       /\ \A u \in 1 .. Len(tokens) : u # t => ended'[u] = ended[u] /\ tokens'[u] = tokens[u]
  BY <1>0, <1>4, <1>6, <1>7
<1>11. ended'[t] = end
  BY <1>0, <1>7
<1>12. AccountKept
  BY <1>0, <1>9, <1>10, <1>11, WritesAreCounted DEF end
<1> QED
  BY <1>8, <1>9, <1>12, ResetKeeps

\* Time, and what is set outside.
LEMMA ResetRestKeeps ==
    ASSUME Sessions!SessionsAssumption, Sessions!IInv, ResetGrows, UsesStay, handlers' = handlers
    PROVE  Sessions!IInv'
<1>1. \A q \in Proc : Sessions!Knows(q)'
  BY ResetKnowledgeStays
<1>2. AccountKept
  <2> SUFFICES ASSUME NEW t \in 1 .. Len(tokens) PROVE Sessions!Accounted(t)'
    BY DEF AccountKept
  <2>1. Sessions!Applying(t)' = Sessions!Applying(t)
    BY DEF Sessions!Applying
  <2>2. Sessions!Accounted(t) /\ ended'[t] = ended[t] /\ tokens'[t].used = tokens[t].used
    BY ResetRows DEF Sessions!IInv, UsesStay
  <2> QED
    BY <2>1, <2>2 DEF Sessions!Accounted
<1> QED
  BY <1>1, <1>2, ResetRows, ResetRowsKeep DEF Sessions!IInv

\* The account gets a status, a code or a token gets older.
LEMMA ResetTimeKeeps ==
    ASSUME Sessions!SessionsAssumption, Sessions!IInv,
           \/ \E i \in DOMAIN resetCodes : Sessions!AgeCode(i)
           \/ \E t \in DOMAIN tokens : Sessions!AgeToken(t)
           \/ \E status \in Statuses : Sessions!SetStatus(status)
    PROVE  Sessions!IInv'
<1>1. ASSUME NEW i \in DOMAIN resetCodes, Sessions!AgeCode(i)
      PROVE  ResetGrows /\ UsesStay /\ handlers' = handlers
  <2>0. /\ resetCodes[i] \in ResetCodeRows
        /\ UNCHANGED <<account, sessions, tokens, handlers, ended>>
    BY <1>1, ResetRows DEF Sessions!AgeCode
  <2>1. CASE resetCodes' = [resetCodes EXCEPT ![i].recent = FALSE]
    <3> DEFINE new == [resetCodes[i] EXCEPT !.recent = FALSE]
    <3>1. /\ new \in ResetCodeRows /\ (resetCodes[i].consumed => new.consumed)
          /\ resetCodes' = [resetCodes EXCEPT ![i] = new]
      BY <2>0, <2>1 DEF ResetCodeRows
    <3> HIDE DEF new
    <3> QED
      BY <2>0, <3>1, ResetCodeChange
  <2>2. CASE resetCodes' = [resetCodes EXCEPT ![i].expired = TRUE]
    <3> DEFINE new == [resetCodes[i] EXCEPT !.expired = TRUE]
    <3>1. /\ new \in ResetCodeRows /\ (resetCodes[i].consumed => new.consumed)
          /\ resetCodes' = [resetCodes EXCEPT ![i] = new]
      BY <2>0, <2>2 DEF ResetCodeRows
    <3> HIDE DEF new
    <3> QED
      BY <2>0, <3>1, ResetCodeChange
  <2> QED
    BY <1>1, <2>1, <2>2 DEF Sessions!AgeCode
<1>2. ASSUME NEW t \in DOMAIN tokens, Sessions!AgeToken(t)
      PROVE  ResetGrows /\ UsesStay /\ handlers' = handlers
  <2> DEFINE new == [tokens[t] EXCEPT !.expired = TRUE]
  <2>0. /\ tokens[t] \in TokenRows /\ tokens' = [tokens EXCEPT ![t].expired = TRUE]
        /\ UNCHANGED <<account, sessions, resetCodes, handlers, ended>>
    BY <1>2, ResetRows DEF Sessions!AgeToken
  <2>1. /\ new \in TokenRows /\ new.code = tokens[t].code
        /\ tokens' = [tokens EXCEPT ![t] = new] /\ new.used = tokens[t].used
    BY <2>0 DEF TokenRows
  <2> HIDE DEF new
  <2>2. /\ tokens' \in Seq(TokenRows) /\ Len(tokens') = Len(tokens)
        /\ \A u \in 1 .. Len(tokens) : tokens'[u] = IF u = t THEN new ELSE tokens[u]
    BY <2>1, ResetRows, Replaced
  <2> QED
    BY <2>0, <2>1, <2>2, ResetRows DEF ResetGrows, UsesStay
<1>3. ASSUME NEW status \in Statuses, Sessions!SetStatus(status)
      PROVE  ResetGrows /\ UsesStay /\ handlers' = handlers
  <2>1. /\ account' = [account EXCEPT !.status = status]
        /\ UNCHANGED <<sessions, resetCodes, tokens, handlers, ended>>
    BY <1>3 DEF Sessions!SetStatus
  <2>2. account' \in Accounts
    BY <2>1, ResetRows DEF Accounts
  <2> QED
    BY <2>1, <2>2, ResetRows DEF ResetGrows, UsesStay
<1> QED
  BY <1>1, <1>2, <1>3, ResetRestKeeps

\* The invariant of AuthSessions holds at first and is kept by every step.
LEMMA SessionsInductive ==
    ASSUME Sessions!SessionsAssumption
    PROVE  /\ Sessions!Init => Sessions!IInv
           /\ Sessions!IInv /\ [Sessions!Next]_sessionVars => Sessions!IInv'
<1>1. ASSUME Sessions!Init PROVE Sessions!IInv
  <2>1. /\ account = [status |-> "ACTIVE", password |-> First]
        /\ sessions = <<>> /\ resetCodes = <<>> /\ tokens = <<>> /\ ended = <<>>
        /\ handlers = [p \in Proc |-> Sessions!Idle]
        /\ First \in Password /\ "ACTIVE" \in Statuses
    BY <1>1 DEF Sessions!Init, Sessions!SessionsAssumption
  <2>2. /\ sessions \in Seq(SessionRows) /\ resetCodes \in Seq(ResetCodeRows)
        /\ tokens \in Seq(TokenRows) /\ ended \in Seq(Ends)
        /\ Len(ended) = Len(tokens) /\ DOMAIN tokens = {}
    BY <2>1, EmptySeq, LenProperties
  <2>3. Sessions!Shape
    BY <2>1, <2>2 DEF Sessions!Shape, SessionRows, ResetCodeRows, TokenRows, Sessions!Idle,
       Sessions!Pcs, Ends
  <2> QED
    BY <2>1, <2>2, <2>3 DEF Sessions!IInv, Sessions!Knows, Sessions!Idle,
       Sessions!CodeYieldsOneToken
<1>2. ASSUME Sessions!IInv, Sessions!Next PROVE Sessions!IInv'
  BY <1>2, RequestKeeps, IssueSessionKeeps, InvalidateCodesKeeps, InsertResetCodeKeeps,
     CountResetAttemptKeeps, ClaimCodeKeeps, InsertTokenKeeps, RecheckTokenKeeps,
     ApplyResetKeeps, ResetTimeKeeps
     DEF Sessions!Next, Sessions!Step
<1>3. ASSUME Sessions!IInv, UNCHANGED sessionVars PROVE Sessions!IInv'
  <2>1. UNCHANGED <<account, sessions, resetCodes, tokens, ended, handlers>>
    BY <1>3 DEF sessionVars
  <2> QED
    BY <1>3, <2>1, ResetRowsSame, ResetRestKeeps
<1> QED
  BY <1>1, <1>2, <1>3

\* What is counted says how often the password has changed with a token.
LEMMA TokensAreUsedUp ==
    ASSUME Sessions!SessionsAssumption, Sessions!IInv
    PROVE  Sessions!TokenChangesOnce /\ Sessions!UsedUp
<1> SUFFICES ASSUME NEW t \in DOMAIN tokens
             PROVE  /\ ended[t].resets <= 1 /\ ended[t].changes <= ended[t].resets + ended[t].late
                    /\ ended[t].changes > 0 => tokens[t].used
                    /\ resetCodes[tokens[t].code].consumed
  BY DEF Sessions!TokenChangesOnce, Sessions!UsedUp
<1> DEFINE n == Cardinality(Sessions!Applying(t))
<1>1. /\ Sessions!Accounted(t) /\ resetCodes[tokens[t].code].consumed
      /\ ended[t] \in Ends /\ n \in Nat
  BY ResetRows, ApplyingCounted DEF Sessions!IInv
<1>2. CASE tokens[t].used
  <2>1. ended[t].resets <= 1 /\ ended[t].changes + n <= ended[t].resets + ended[t].late
    BY SessionCounts, <1>1, <1>2 DEF Sessions!Accounted
  <2>2. ended[t].changes \in Nat /\ ended[t].resets \in Nat /\ ended[t].late \in Nat
    BY <1>1 DEF Ends
  <2> HIDE DEF n
  <2> QED
    BY <1>1, <1>2, <2>1, <2>2
<1>3. CASE ~tokens[t].used
  BY <1>1, <1>3 DEF Sessions!Accounted, Sessions!Unused
<1> QED
  BY <1>2, <1>3

\* The invariant contains the type invariant that the run checks.
LEMMA SessionsTypeOK ==
    ASSUME Sessions!IInv
    PROVE  Sessions!TypeOK
<1>1. \A i \in DOMAIN resetCodes : resetCodes[i].attempts \in 0 .. ResetAttempts
  BY ResetRows DEF ResetCodeRows
<1>2. \A p \in Proc : handlers[p].password \in Password
  BY ResetRows DEF ResetHandlers
<1> QED
  BY <1>1, <1>2, ResetRows DEF Sessions!TypeOK, Accounts, SessionRows

-----------------------------------------------------------------------------
(* GoogleLogin.                                                            *)

\* What a handler of a login may hold.
GoogleHandlers ==
    [pc : Google!Pcs, sub : Subject \cup {None}, email : Email \cup {None},
     user : Email \cup {None}]

\* What Google!Knows says of handler p, when it holds h.
GoogleKnows(h) ==
    /\ h.pc # "idle" => h.sub \in Subject /\ h.email \in Email
    /\ h.pc \in {"issue", "link", "verify", "racedLink"} =>
          h.user \in Email /\ users[h.user].exists
    /\ h.pc = "verify" => users[h.email].exists
    /\ h.pc = "raced" => linked[h.sub] # None
    /\ h.pc = "issue" => linked[h.sub] = h.user

\* Users come and stay, and an account once linked stays linked.
GoogleGrows ==
    /\ users' \in [Email -> [exists : BOOLEAN, verified : BOOLEAN, active : BOOLEAN]]
    /\ \A e \in Email : users[e].exists => users'[e].exists
    /\ \A e \in Email : ~users'[e].exists => users'[e] = Google!Nobody
    /\ linked' \in [Subject -> Email \cup {None}]
    /\ \A s \in Subject : linked[s] # None => linked'[s] = linked[s]
    /\ \A s \in Subject : linked'[s] # None => users'[linked'[s]].exists

\* Rows that grow leave what the other handlers know true, and the sessions there are.
LEMMA GoogleWrites ==
    ASSUME Google!GoogleAssumption, Google!IInv, GoogleGrows, NEW p \in Proc,
           logins' \in [Proc -> GoogleHandlers],
           \A q \in Proc \ {p} : logins'[q] = logins[q], Google!Knows(p)',
           opened' = opened
    PROVE  Google!IInv'
<1> USE DEF Google!IInv, Google!Shape, GoogleHandlers, GoogleGrows, Google!GoogleAssumption
<1>1. Google!Shape'
  OBVIOUS
<1>2. ASSUME NEW q \in Proc, q # p
      PROVE  Google!Knows(q)'
  <2>1. logins'[q] = logins[q] /\ logins[q] \in GoogleHandlers /\ Google!Knows(q)
    BY <1>2
  <2>2. logins'[q].pc # "idle" => logins'[q].sub \in Subject /\ logins'[q].email \in Email
    BY <2>1 DEF Google!Knows
  <2>3. logins'[q].pc \in {"issue", "link", "verify", "racedLink"} =>
           logins'[q].user \in Email /\ users'[logins'[q].user].exists
    BY <2>1 DEF Google!Knows
  <2>4. logins'[q].pc = "verify" => users'[logins'[q].email].exists
    BY <2>1, <2>2 DEF Google!Knows
  <2>5. logins'[q].pc = "raced" => linked'[logins'[q].sub] # None
    BY <2>1, <2>2 DEF Google!Knows
  <2>6. logins'[q].pc = "issue" => linked'[logins'[q].sub] = logins'[q].user
    BY <2>1, <2>2, <2>3 DEF Google!Knows
  <2> QED
    BY <2>2, <2>3, <2>4, <2>5, <2>6 DEF Google!Knows
<1>3. \A q \in Proc : Google!Knows(q)'
  BY <1>2
<1>4. Google!LinkedExist'
  BY DEF Google!LinkedExist
<1>5. Google!OneUserPerAccount'
  BY DEF Google!OneUserPerAccount
<1> QED
  BY <1>1, <1>3, <1>4, <1>5

\* A handler that moves, where nothing else does.
LEMMA GoogleMoves ==
    ASSUME Google!GoogleAssumption, Google!IInv, NEW p \in Proc,
           logins' \in [Proc -> GoogleHandlers],
           \A q \in Proc \ {p} : logins'[q] = logins[q], Google!Knows(p)',
           UNCHANGED <<users, linked, opened>>
    PROVE  Google!IInv'
<1>1. GoogleGrows
  BY DEF GoogleGrows, Google!IInv, Google!Shape, Google!LinkedExist
<1> QED
  BY <1>1, GoogleWrites

\* A handler that answers leaves the rows and the sessions as they are.
LEMMA GoogleAnswers ==
    ASSUME Google!GoogleAssumption, Google!IInv, NEW p \in Proc,
           Google!Answer(p), UNCHANGED <<users, linked, opened>>
    PROVE  Google!IInv'
<1>1. Google!Idle \in GoogleHandlers
  BY DEF Google!Idle, GoogleHandlers, Google!Pcs
<1>2. logins'[p] = Google!Idle
  BY DEF Google!Answer, Google!IInv, Google!Shape
<1>3. Google!Knows(p)'
  BY <1>2 DEF Google!Knows, Google!Idle
<1>4. logins' \in [Proc -> GoogleHandlers] /\ \A q \in Proc \ {p} : logins'[q] = logins[q]
  BY <1>1 DEF Google!Answer, Google!IInv, Google!Shape, GoogleHandlers
<1> QED
  BY <1>3, <1>4, GoogleMoves

\* A handler that goes on with the same account, address and user.
LEMMA GoogleGoes ==
    ASSUME Google!IInv, NEW p \in Proc, NEW to \in Google!Pcs, Google!Goto(p, to)
    PROVE  /\ logins' \in [Proc -> GoogleHandlers]
           /\ \A q \in Proc \ {p} : logins'[q] = logins[q]
           /\ logins'[p].pc = to /\ logins'[p].sub = logins[p].sub
           /\ logins'[p].email = logins[p].email /\ logins'[p].user = logins[p].user
  BY DEF Google!IInv, Google!Shape, GoogleHandlers, Google!Goto

\* Admit: to pc with a user, or to an answer.
LEMMA GoogleAdmits ==
    ASSUME Google!GoogleAssumption, Google!IInv, NEW p \in Proc, logins[p].pc # "idle",
           NEW to \in {"issue", "link", "verify", "racedLink"},
           NEW found \in Email, users[found].exists, Google!Admit(p, found, to),
           to = "verify" => found = logins[p].email,
           to = "issue" => linked[logins[p].sub] = found,
           UNCHANGED <<users, linked, opened>>
    PROVE  Google!IInv'
<1>1. CASE Google!Answer(p)
  BY <1>1, GoogleAnswers
<1>2. CASE logins' = [logins EXCEPT ![p].pc = to, ![p].user = found]
  <2> DEFINE h == [pc |-> to, sub |-> logins[p].sub, email |-> logins[p].email, user |-> found]
  <2>1. logins[p] \in GoogleHandlers /\ Google!Knows(p)
    BY DEF Google!IInv, Google!Shape, GoogleHandlers
  <2>2. h \in GoogleHandlers
    BY <2>1 DEF GoogleHandlers, Google!Pcs
  <2> DEFINE moved == [logins EXCEPT ![p].pc = to]
  <2>3. /\ moved \in [Proc -> GoogleHandlers]
        /\ \A q \in Proc \ {p} : moved[q] = logins[q]
        /\ moved[p].pc = to /\ moved[p].sub = logins[p].sub /\ moved[p].email = logins[p].email
    BY <2>1, <2>2 DEF GoogleHandlers, Google!IInv, Google!Shape
  <2>m. logins' = [moved EXCEPT ![p].user = found]
    BY <1>2
  <2> HIDE DEF moved
  <2>4. /\ logins'[p] = h /\ logins' \in [Proc -> GoogleHandlers]
        /\ \A q \in Proc \ {p} : logins'[q] = logins[q]
    BY <2>2, <2>3, <2>m DEF GoogleHandlers
  <2>5. Google!Knows(p)'
    BY <2>1, <2>4 DEF Google!Knows
  <2> HIDE DEF h
  <2> QED
    BY <2>4, <2>5, GoogleMoves
<1> QED
  BY <1>1, <1>2 DEF Google!Admit

\* What is written in a user's row: a new row, or a change of one there is.
LEMMA UserChanges ==
    ASSUME Google!IInv, NEW e \in Email,
           NEW new \in [exists : BOOLEAN, verified : BOOLEAN, active : BOOLEAN], new.exists,
           \/ users' = [users EXCEPT ![e] = new]
           \/ users[e].exists /\ users' = [users EXCEPT ![e].verified = TRUE]
           \/ users[e].exists /\ users' = [users EXCEPT ![e].active = FALSE]
    PROVE  /\ users' \in [Email -> [exists : BOOLEAN, verified : BOOLEAN, active : BOOLEAN]]
           /\ \A f \in Email : users[f].exists => users'[f].exists
           /\ \A f \in Email : ~users'[f].exists => users'[f] = Google!Nobody
<1>1. /\ users \in [Email -> [exists : BOOLEAN, verified : BOOLEAN, active : BOOLEAN]]
      /\ \A f \in Email : ~users[f].exists => users[f] = Google!Nobody
  BY DEF Google!IInv, Google!Shape
<1>2. /\ users' \in [Email -> [exists : BOOLEAN, verified : BOOLEAN, active : BOOLEAN]]
      /\ users'[e].exists /\ \A f \in Email \ {e} : users'[f] = users[f]
  <2>1. CASE users' = [users EXCEPT ![e] = new]
    BY <1>1, <2>1
  <2>2. CASE users[e].exists /\ users' = [users EXCEPT ![e].verified = TRUE]
    BY <1>1, <2>2
  <2>3. CASE users[e].exists /\ users' = [users EXCEPT ![e].active = FALSE]
    BY <1>1, <2>3
  <2> QED
    BY <2>1, <2>2, <2>3
<1> QED
  BY <1>1, <1>2

\* Each step of a handler keeps the invariant.
LEMMA GoogleStepKeeps ==
    ASSUME Google!GoogleAssumption, Google!IInv, NEW p \in Proc, Google!Step(p)
    PROVE  Google!IInv'
<1> USE DEF GoogleHandlers
<1>0. logins[p] \in GoogleHandlers /\ Google!Knows(p)
  BY DEF Google!IInv, Google!Shape
<1>1. CASE Google!FindOAuthAccount(p)
  <2>1. CASE linked[logins[p].sub] = None
    <3>1. Google!Goto(p, "findUser") /\ {"findUser"} \subseteq Google!Pcs
      BY <1>1, <2>1 DEF Google!FindOAuthAccount, Google!Pcs
    <3>2. Google!Knows(p)'
      BY <3>1, <1>0, <1>1, GoogleGoes DEF Google!Knows, Google!FindOAuthAccount
    <3> QED
      BY <3>1, <3>2, <1>1, GoogleGoes, GoogleMoves DEF Google!FindOAuthAccount
  <2>2. CASE linked[logins[p].sub] # None
    <3> DEFINE found == linked[logins[p].sub]
    <3>1. logins[p].pc = "find" /\ Google!Admit(p, found, "issue")
      BY <1>1, <2>2 DEF Google!FindOAuthAccount
    <3>2. logins[p].sub \in Subject
      BY <3>1, <1>0 DEF Google!Knows
    <3>3. found \in Email /\ users[found].exists
      BY <3>2, <2>2 DEF Google!IInv, Google!Shape, Google!LinkedExist
    <3> QED
      BY <3>1, <3>3, <1>1, GoogleAdmits DEF Google!FindOAuthAccount
  <2> QED
    BY <2>1, <2>2
<1>2. CASE Google!FindUser(p)
  <2>1. logins[p].pc = "findUser" /\ logins[p].email \in Email
    BY <1>2, <1>0 DEF Google!FindUser, Google!Knows
  <2>2. CASE users[logins[p].email].exists
    <3>1. Google!Admit(p, logins[p].email, "link") \/ Google!Admit(p, logins[p].email, "verify")
      BY <1>2, <2>2 DEF Google!FindUser
    <3> QED
      BY <3>1, <2>1, <2>2, <1>2, GoogleAdmits DEF Google!FindUser
  <2>3. CASE ~users[logins[p].email].exists
    <3>1. Google!Goto(p, "create") /\ {"create"} \subseteq Google!Pcs
      BY <1>2, <2>3 DEF Google!FindUser, Google!Pcs
    <3>2. Google!Knows(p)'
      BY <3>1, <1>0, <1>2, GoogleGoes DEF Google!Knows, Google!FindUser
    <3> QED
      BY <3>1, <3>2, <1>2, GoogleGoes, GoogleMoves DEF Google!FindUser
  <2> QED
    BY <2>2, <2>3
<1>3. CASE Google!MarkVerified(p)
  <2>1. /\ Google!Goto(p, "link") /\ {"link"} \subseteq Google!Pcs /\ logins[p].pc = "verify"
        /\ logins[p].email \in Email /\ users[logins[p].email].exists
    BY <1>3, <1>0 DEF Google!MarkVerified, Google!Pcs, Google!Knows
  <2>2. GoogleGrows
    BY <1>3, <2>1, UserChanges DEF Google!MarkVerified, GoogleGrows, Google!IInv, Google!Shape,
          Google!LinkedExist
  <2>3. Google!Knows(p)'
    BY <2>1, <2>2, <1>0, GoogleGoes DEF Google!Knows, GoogleGrows
  <2> QED
    BY <2>1, <2>2, <2>3, <1>3, GoogleGoes, GoogleWrites DEF Google!MarkVerified
<1>4. CASE Google!LinkAccount(p)
  <2>0. /\ {"issue", "raced"} \subseteq Google!Pcs /\ logins[p].pc = "link"
        /\ logins[p].sub \in Subject /\ logins[p].email \in Email
        /\ logins[p].user \in Email /\ users[logins[p].user].exists
    BY <1>4, <1>0 DEF Google!LinkAccount, Google!Pcs, Google!Knows
  <2>1. CASE linked[logins[p].sub] = None
    <3>1. /\ linked' = [linked EXCEPT ![logins[p].sub] = logins[p].user]
          /\ Google!Goto(p, "issue") /\ UNCHANGED <<users, opened>>
      BY <1>4, <2>1 DEF Google!LinkAccount
    <3>2. GoogleGrows
      BY <3>1, <2>0, <2>1 DEF GoogleGrows, Google!IInv, Google!Shape, Google!LinkedExist
    <3>3. linked'[logins[p].sub] = logins[p].user
      BY <3>1, <2>0 DEF Google!IInv, Google!Shape
    <3>4. Google!Knows(p)'
      BY <3>1, <3>3, <2>0, GoogleGoes DEF Google!Knows
    <3> QED
      BY <3>1, <3>2, <3>4, <2>0, GoogleGoes, GoogleWrites
  <2>2. CASE linked[logins[p].sub] # None
    <3>1. Google!Goto(p, "raced") /\ UNCHANGED <<users, linked, opened>>
      BY <1>4, <2>2 DEF Google!LinkAccount
    <3>2. Google!Knows(p)'
      BY <3>1, <2>0, <2>2, GoogleGoes DEF Google!Knows
    <3> QED
      BY <3>1, <3>2, <2>0, GoogleGoes, GoogleMoves
  <2> QED
    BY <2>1, <2>2
<1>5. CASE Google!Raced(p)
  <2> DEFINE found == linked[logins[p].sub]
  <2>1. /\ logins[p].pc = "raced" /\ Google!Admit(p, found, "issue") /\ found # None
        /\ logins[p].sub \in Subject
    BY <1>5, <1>0 DEF Google!Raced, Google!Knows
  <2>2. found \in Email /\ users[found].exists
    BY <2>1 DEF Google!IInv, Google!Shape, Google!LinkedExist
  <2> QED
    BY <2>1, <2>2, <1>5, GoogleAdmits DEF Google!Raced
<1>6. CASE Google!CreateUser(p)
  <2> DEFINE s == logins[p].sub  e == logins[p].email
             new == [exists |-> TRUE, verified |-> TRUE, active |-> TRUE]
  <2>0. /\ {"issue", "racedAccount"} \subseteq Google!Pcs /\ logins[p].pc = "create"
        /\ s \in Subject /\ e \in Email
    BY <1>6, <1>0 DEF Google!CreateUser, Google!Pcs, Google!Knows
  <2>1. CASE ~users[e].exists /\ linked[s] = None
    <3> DEFINE moved == [logins EXCEPT ![p].pc = "issue"]
    <3>1. /\ users' = [users EXCEPT ![e] = new] /\ linked' = [linked EXCEPT ![s] = e]
          /\ logins' = [moved EXCEPT ![p].user = e] /\ opened' = opened
      BY <1>6, <2>1 DEF Google!CreateUser
    <3>2. /\ moved \in [Proc -> GoogleHandlers]
          /\ \A q \in Proc \ {p} : moved[q] = logins[q]
          /\ moved[p].pc = "issue" /\ moved[p].sub = s /\ moved[p].email = e
      BY <2>0 DEF Google!IInv, Google!Shape
    <3> HIDE DEF moved
    <3>3. /\ logins' \in [Proc -> GoogleHandlers]
          /\ \A q \in Proc \ {p} : logins'[q] = logins[q]
          /\ logins'[p].pc = "issue" /\ logins'[p].sub = s /\ logins'[p].email = e
          /\ logins'[p].user = e
      BY <3>1, <3>2, <2>0
    <3>4. GoogleGrows
      BY <3>1, <2>0, <2>1 DEF GoogleGrows, Google!IInv, Google!Shape, Google!LinkedExist
    <3>5. linked'[s] = e /\ users'[e].exists
      BY <3>1, <2>0 DEF Google!IInv, Google!Shape
    <3>6. Google!Knows(p)'
      BY <3>3, <3>5, <2>0 DEF Google!Knows
    <3> QED
      BY <3>1, <3>3, <3>4, <3>6, GoogleWrites
  <2>2. CASE ~(~users[e].exists /\ linked[s] = None)
    <3>1. Google!Goto(p, "racedAccount") /\ UNCHANGED <<users, linked, opened>>
      BY <1>6, <2>2 DEF Google!CreateUser
    <3>2. Google!Knows(p)'
      BY <3>1, <2>0, GoogleGoes DEF Google!Knows
    <3> QED
      BY <3>1, <3>2, <2>0, GoogleGoes, GoogleMoves
  <2> QED
    BY <2>1, <2>2
<1>7. CASE Google!RacedAccount(p)
  <2> DEFINE found == linked[logins[p].sub]
  <2>0. /\ {"racedUser"} \subseteq Google!Pcs /\ logins[p].pc = "racedAccount"
        /\ logins[p].sub \in Subject /\ logins[p].email \in Email
        /\ UNCHANGED <<users, linked, opened>>
    BY <1>7, <1>0 DEF Google!RacedAccount, Google!Pcs, Google!Knows
  <2>1. CASE found = None
    <3>1. Google!Goto(p, "racedUser")
      BY <1>7, <2>1 DEF Google!RacedAccount
    <3>2. Google!Knows(p)'
      BY <3>1, <2>0, GoogleGoes DEF Google!Knows
    <3> QED
      BY <3>1, <3>2, <2>0, GoogleGoes, GoogleMoves
  <2>2. CASE found # None
    <3>1. Google!Admit(p, found, "issue")
      BY <1>7, <2>2 DEF Google!RacedAccount
    <3>2. found \in Email /\ users[found].exists
      BY <2>0, <2>2 DEF Google!IInv, Google!Shape, Google!LinkedExist
    <3> QED
      BY <3>1, <3>2, <2>0, GoogleAdmits
  <2> QED
    BY <2>1, <2>2
<1>8. CASE Google!RacedUser(p)
  <2>1. /\ logins[p].pc = "racedUser" /\ logins[p].email \in Email
        /\ UNCHANGED <<users, linked, opened>>
    BY <1>8, <1>0 DEF Google!RacedUser, Google!Knows
  <2>2. CASE users[logins[p].email].exists
    <3>1. Google!Admit(p, logins[p].email, "racedLink")
      BY <1>8, <2>2 DEF Google!RacedUser
    <3> QED
      BY <3>1, <2>1, <2>2, GoogleAdmits
  <2>3. CASE ~users[logins[p].email].exists
    BY <1>8, <2>1, <2>3, GoogleAnswers DEF Google!RacedUser
  <2> QED
    BY <2>2, <2>3
<1>9. CASE Google!RacedLink(p)
  <2>0. /\ {"issue"} \subseteq Google!Pcs /\ logins[p].pc = "racedLink"
        /\ logins[p].sub \in Subject /\ logins[p].email \in Email
        /\ logins[p].user \in Email /\ users[logins[p].user].exists
    BY <1>9, <1>0 DEF Google!RacedLink, Google!Pcs, Google!Knows
  <2>1. CASE linked[logins[p].sub] = None
    <3>1. /\ linked' = [linked EXCEPT ![logins[p].sub] = logins[p].user]
          /\ Google!Goto(p, "issue") /\ UNCHANGED <<users, opened>>
      BY <1>9, <2>1 DEF Google!RacedLink
    <3>2. GoogleGrows
      BY <3>1, <2>0, <2>1 DEF GoogleGrows, Google!IInv, Google!Shape, Google!LinkedExist
    <3>3. linked'[logins[p].sub] = logins[p].user
      BY <3>1, <2>0 DEF Google!IInv, Google!Shape
    <3>4. Google!Knows(p)'
      BY <3>1, <3>3, <2>0, GoogleGoes DEF Google!Knows
    <3> QED
      BY <3>1, <3>2, <3>4, <2>0, GoogleGoes, GoogleWrites
  <2>2. CASE linked[logins[p].sub] # None
    BY <1>9, <2>2, GoogleAnswers DEF Google!RacedLink
  <2> QED
    BY <2>1, <2>2
<1>10. CASE Google!IssueSession(p)
  <2> DEFINE new == [sub |-> logins[p].sub, user |-> logins[p].user]
  <2>1. /\ logins[p].sub \in Subject /\ logins[p].user \in Email
        /\ linked[logins[p].sub] = logins[p].user
        /\ opened' = opened \cup {new} /\ Google!Answer(p) /\ UNCHANGED <<users, linked>>
    BY <1>10, <1>0 DEF Google!IssueSession, Google!Knows
  <2>2. Google!Idle \in GoogleHandlers
    BY DEF Google!Idle, Google!Pcs
  <2>3. Google!Shape'
    BY <2>1, <2>2 DEF Google!IInv, Google!Shape, Google!Answer
  <2>4. \A q \in Proc : Google!Knows(q)'
    BY <2>1 DEF Google!IInv, Google!Shape, Google!Knows, Google!Answer, Google!Idle
  <2>5. Google!LinkedExist' /\ Google!OneUserPerAccount'
    BY <2>1 DEF Google!IInv, Google!LinkedExist, Google!OneUserPerAccount
  <2> QED
    BY <2>3, <2>4, <2>5 DEF Google!IInv
<1> QED
  BY <1>1, <1>2, <1>3, <1>4, <1>5, <1>6, <1>7, <1>8, <1>9, <1>10 DEF Google!Step

\* A token that is verified starts a handler.
LEMMA GoogleTokenKeeps ==
    ASSUME Google!GoogleAssumption, Google!IInv, NEW p \in Proc, NEW payload \in Payload,
           Google!VerifyIdToken(p, payload)
    PROVE  Google!IInv'
<1> DEFINE h == [pc |-> "find", sub |-> payload.sub, email |-> payload.email, user |-> None]
<1>1. payload.sub \in Subject /\ payload.email \in Email
  BY DEF Google!GoogleAssumption, Google!VerifyIdToken, Google!Accepted
<1>2. h \in GoogleHandlers
  BY <1>1 DEF GoogleHandlers, Google!Pcs
<1>3. logins' = [logins EXCEPT ![p] = h] /\ UNCHANGED <<users, linked, opened>>
  BY DEF Google!VerifyIdToken
<1>4. /\ logins' \in [Proc -> GoogleHandlers] /\ logins'[p] = h
      /\ \A q \in Proc \ {p} : logins'[q] = logins[q]
  BY <1>2, <1>3 DEF Google!IInv, Google!Shape, GoogleHandlers
<1>5. Google!Knows(p)'
  BY <1>1, <1>4 DEF Google!Knows
<1> QED
  BY <1>3, <1>4, <1>5, GoogleMoves

\* Signups, confirmed addresses and suspensions beside the logins.
LEMMA GoogleRestKeeps ==
    ASSUME Google!GoogleAssumption, Google!IInv, NEW e \in Email,
           Google!Signup(e) \/ Google!VerifyEmail(e) \/ Google!Suspend(e)
    PROVE  Google!IInv'
<1>1. UNCHANGED <<linked, logins, opened>>
  BY DEF Google!Signup, Google!VerifyEmail, Google!Suspend
<1>2. /\ users' \in [Email -> [exists : BOOLEAN, verified : BOOLEAN, active : BOOLEAN]]
      /\ \A f \in Email : users[f].exists => users'[f].exists
      /\ \A f \in Email : ~users'[f].exists => users'[f] = Google!Nobody
  <2> DEFINE new == [exists |-> TRUE, verified |-> FALSE, active |-> TRUE]
  <2>1. \/ users' = [users EXCEPT ![e] = new]
        \/ users[e].exists /\ users' = [users EXCEPT ![e].verified = TRUE]
        \/ users[e].exists /\ users' = [users EXCEPT ![e].active = FALSE]
    <3>1. CASE Google!Signup(e)
      BY <3>1 DEF Google!Signup
    <3>2. CASE Google!VerifyEmail(e)
      BY <3>2 DEF Google!VerifyEmail
    <3>3. CASE Google!Suspend(e)
      <4>1. users[e] # Google!Nobody
        BY <3>3 DEF Google!Suspend, Google!Nobody
      <4> QED
        BY <3>3, <4>1 DEF Google!Suspend, Google!IInv, Google!Shape
    <3> QED
      BY <3>1, <3>2, <3>3
  <2>2. new \in [exists : BOOLEAN, verified : BOOLEAN, active : BOOLEAN] /\ new.exists
    OBVIOUS
  <2> HIDE DEF new
  <2> QED
    BY <2>1, <2>2, UserChanges
<1>3. Google!Shape'
  BY <1>1, <1>2 DEF Google!IInv, Google!Shape
<1>4. \A q \in Proc : Google!Knows(q)'
  BY <1>1, <1>2 DEF Google!IInv, Google!Shape, Google!Knows
<1>5. Google!LinkedExist' /\ Google!OneUserPerAccount'
  BY <1>1, <1>2 DEF Google!IInv, Google!Shape, Google!LinkedExist, Google!OneUserPerAccount,
         Google!GoogleAssumption
<1> QED
  BY <1>3, <1>4, <1>5 DEF Google!IInv

\* The invariant of GoogleLogin holds at first and is kept by every step.
LEMMA GoogleInductive ==
    ASSUME Google!GoogleAssumption
    PROVE  /\ Google!Init => Google!IInv
           /\ Google!IInv /\ [Google!Next]_googleVars => Google!IInv'
<1>1. Google!Init => Google!IInv
  BY DEF Google!Init, Google!IInv, Google!Shape, Google!Knows, Google!LinkedExist, Google!Pcs,
         Google!OneUserPerAccount, Google!Idle, Google!Nobody
<1>2. ASSUME Google!IInv, Google!Next PROVE Google!IInv'
  BY <1>2, GoogleStepKeeps, GoogleTokenKeeps, GoogleRestKeeps DEF Google!Next
<1>3. ASSUME Google!IInv, UNCHANGED googleVars PROVE Google!IInv'
  BY <1>3 DEF googleVars, Google!IInv, Google!Shape, Google!Knows, Google!LinkedExist,
         Google!OneUserPerAccount
<1> QED
  BY <1>1, <1>2, <1>3

-----------------------------------------------------------------------------
(* The rate limiter.                                                       *)

\* The instance's sums are those of Money.
LEMMA LimiterSums == \A a, S : Limiter!SumOf(a, S) = SumOf(a, S)
<1>1. \A S : Limiter!Cardinality(S) = Cardinality(S)
  BY DEF Limiter!Cardinality, Cardinality
<1>2. \A a, S : Limiter!Units(a, S) = Units(a, S)
  BY DEF Limiter!Units, Units
<1> QED
  BY <1>1, <1>2 DEF Limiter!SumOf, SumOf

Times == 1 .. MaxTime
From(b) == {u \in Times : u >= b}
Ahead(b, length) == {u \in Times : u < b /\ u + length > b}
Stretch(s, length) == {u \in Times : u >= s /\ u < s + length}

\* What CountersAreTrue says of one key: a what was let through, count and end its window's
\* counter and end, t the time.
Counted(a, count, end, t, length, max) ==
    /\ count \in Nat /\ end \in Nat
    /\ a \in [Times -> 0 .. max]
    /\ \A u \in Times : a[u] > 0 => u <= t /\ u < end
    /\ end = 0 => count = 0
    /\ end # 0 => end - length \in 1 .. t
    /\ SumOf(a, From(end - length)) = Limiter!AtMost(count, max)
    /\ SumOf(a, Ahead(end - length, length)) <= max

\* The sets of times are finite, and their sums natural numbers.
LEMMA TimesAreFinite ==
    ASSUME MaxTime \in Nat
    PROVE  \A S : S \subseteq Times => IsFiniteSet(S)
<1>1. IsFiniteSet(Times)
  BY FS_Interval DEF Times
<1> QED
  BY <1>1, FS_Subset

\* What is let through in a set of times is a number.
LEMMA SumsOfTimes ==
    ASSUME MaxTime \in Nat, NEW M \in Nat, NEW a \in [Times -> 0 .. M], NEW S \in SUBSET Times
    PROVE  SumOf(a, S) \in Nat /\ IsFiniteSet(S) /\ \A u \in S : a[u] \in 0 .. M
<1>1. IsFiniteSet(S)
  BY TimesAreFinite
<1>2. \A u \in S : a[u] \in 0 .. M
  OBVIOUS
<1> QED
  BY <1>1, <1>2, SumOfType

\* One request more is let through at the time t.
Admit(a, t) == [a EXCEPT ![t] = @ + 1]

\* A window that has ended is renewed: nothing was let through at this moment yet, and what
\* the ended window let through is all that is left of the stretch before.
LEMMA WindowRenewed ==
    ASSUME MaxTime \in Nat, NEW length \in Nat \ {0}, NEW max \in Nat \ {0},
           NEW a, NEW count, NEW end, NEW t \in Times, t >= end,
           Counted(a, count, end, t, length, max)
    PROVE  Counted(Admit(a, t), 1, t + length, t, length, max)
<1> DEFINE new == Admit(a, t)
<1>a. /\ a \in [Times -> 0 .. max] /\ \A u \in Times : a[u] \in 0 .. max
      /\ end \in Nat /\ t \in Nat /\ t >= 1
  BY DEF Counted, Times
<1>1. \A u \in Times : u >= t => a[u] = 0
  BY <1>a DEF Counted, Times
<1>2. new \in [Times -> 0 .. max] /\ new[t] = 1 /\ \A u \in Times \ {t} : new[u] = a[u]
  <2>1. a[t] = 0
    BY <1>1, <1>a
  <2> QED
    BY <2>1, <1>a DEF Admit
<1> HIDE DEF new
<1>3. \A u \in Times : new[u] > 0 => u <= t /\ u < t + length
  <2> TAKE u \in Times
  <2>1. CASE u = t
    BY <2>1, <1>a
  <2>2. CASE u # t
    <3>1. u \in Nat
      BY DEF Times
    <3>2. new[u] = a[u]
      BY <2>2, <1>2
    <3>3. a[u] > 0 => u <= t
      BY DEF Counted
    <3> QED
      BY <3>1, <3>2, <3>3, <1>a
  <2> QED
    BY <2>1, <2>2
<1>4. SumOf(new, From(t)) = 1
  <2>1. From(t) \subseteq Times /\ t \in From(t)
    BY <1>a DEF From
  <2>2. SumOf(a, From(t)) = 0
    <3>1. \A u \in From(t) : a[u] = 0
      BY <1>1 DEF From
    <3> QED
      BY <3>1, SumOfNothing
  <2>3. IsFiniteSet(From(t)) /\ \A u \in From(t) : a[u] \in 0 .. max
    BY <1>a, <2>1, SumsOfTimes
  <2>4. \A u \in From(t) \ {t} : new[u] = a[u]
    BY <1>2, <2>1
  <2>5. new[t] = a[t] + 1
    BY <1>1, <1>2, <1>a
  <2>6. SumOf(new, From(t)) = SumOf(a, From(t)) + 1
    BY <2>1, <2>3, <2>4, <2>5, SumOfIncrement
  <2> QED
    BY <2>2, <2>6
<1>5. SumOf(new, Ahead(t, length)) <= max
  <2>1. Ahead(t, length) \subseteq Times /\ t \notin Ahead(t, length)
    BY <1>a DEF Ahead
  <2>2. SumOf(new, Ahead(t, length)) = SumOf(a, Ahead(t, length))
    <3>1. \A u \in Ahead(t, length) : new[u] = a[u]
      BY <2>1, <1>2
    <3> QED
      BY <3>1, SumOfExtensional
  <2>3. From(end - length) \subseteq Times
    BY DEF From
  <2>4. \A u \in Ahead(t, length) : a[u] > 0 => u \in From(end - length)
    <3> SUFFICES ASSUME NEW u \in Ahead(t, length) PROVE u \in From(end - length)
      OBVIOUS
    <3>1. u \in Times /\ u \in Nat /\ u + length > t
      BY DEF Ahead, Times
    <3> QED
      BY <3>1, <1>a DEF From
  <2>5. IsFiniteSet(From(end - length)) /\ \A u \in From(end - length) : a[u] \in 0 .. max
    BY <1>a, <2>3, SumsOfTimes
  <2>6. \A u \in Ahead(t, length) : a[u] \in 0 .. max
    BY <1>a, <2>1
  <2>7. SumOf(a, Ahead(t, length)) <= SumOf(a, From(end - length))
    BY <2>4, <2>5, <2>6, SumOfCovers
  <2>8. SumOf(a, From(end - length)) <= max
    BY DEF Counted, Limiter!AtMost
  <2>9. SumOf(a, Ahead(t, length)) \in Nat /\ SumOf(a, From(end - length)) \in Nat
    BY <1>a, <2>1, <2>3, SumsOfTimes
  <2> QED
    BY <2>2, <2>7, <2>8, <2>9
<1>6. (t + length) - length = t /\ t + length \in Nat /\ t + length # 0
  BY <1>a
<1>7. Limiter!AtMost(1, max) = 1
  BY DEF Limiter!AtMost
<1> QED
  BY <1>a, <1>2, <1>3, <1>4, <1>5, <1>6, <1>7 DEF Counted, new

\* A window lets one more through below its limit, and at its limit only counts.
LEMMA WindowCounts ==
    ASSUME MaxTime \in Nat, NEW length \in Nat \ {0}, NEW max \in Nat \ {0},
           NEW a, NEW count, NEW end, NEW t \in Times, t < end,
           Counted(a, count, end, t, length, max)
    PROVE  /\ count < max => Counted(Admit(a, t), count + 1, end, t, length, max)
           /\ count >= max => Counted(a, count + 1, end, t, length, max)
<1> DEFINE new == Admit(a, t)
           current == From(end - length)
<1>a. /\ a \in [Times -> 0 .. max] /\ \A u \in Times : a[u] \in 0 .. max
      /\ count \in Nat /\ end \in Nat /\ t \in Nat /\ t >= 1 /\ end # 0
      /\ SumOf(a, current) = Limiter!AtMost(count, max)
      /\ end - length \in 1 .. t
  BY DEF Counted, Times
<1>b. current \subseteq Times /\ t \in current
  BY <1>a DEF From
<1>c. IsFiniteSet(current) /\ (\A u \in current : a[u] \in 0 .. max) /\ SumOf(a, current) \in Nat
  BY <1>a, <1>b, SumsOfTimes
<1>1. ASSUME count < max PROVE Counted(Admit(a, t), count + 1, end, t, length, max)
  <2>1. SumOf(a, current) = count
    BY <1>a, <1>1 DEF Limiter!AtMost
  <2>2. a[t] <= count
    <3>1. /\ SumOf(a, current) = SumOf(a, current \ {t}) + a[t]
          /\ SumOf(a, current \ {t}) \in Nat
      BY <1>b, <1>c, SumOfElement
    <3>2. a[t] \in Nat
      BY <1>a
    <3> HIDE DEF current
    <3> QED
      BY <2>1, <3>1, <3>2, <1>a
  <2>3. new \in [Times -> 0 .. max] /\ new[t] = a[t] + 1 /\ \A u \in Times \ {t} : new[u] = a[u]
    BY <2>2, <1>1, <1>a DEF Admit
  <2> HIDE DEF new, current
  <2>4. \A u \in Times : new[u] > 0 => u <= t /\ u < end
    <3> TAKE u \in Times
    <3>1. CASE u = t
      BY <3>1, <1>a
    <3>2. CASE u # t
      BY <3>2, <2>3 DEF Counted
    <3> QED
      BY <3>1, <3>2
  <2>5. SumOf(new, current) = count + 1
    <3>1. \A u \in current \ {t} : new[u] = a[u]
      BY <1>b, <2>3
    <3>2. SumOf(new, current) = SumOf(a, current) + 1
      BY <1>b, <1>c, <2>3, <3>1, SumOfIncrement
    <3> QED
      BY <3>2, <2>1
  <2>6. Limiter!AtMost(count + 1, max) = count + 1
    BY <1>1, <1>a DEF Limiter!AtMost
  <2>7. SumOf(new, Ahead(end - length, length)) = SumOf(a, Ahead(end - length, length))
    <3>1. \A u \in Ahead(end - length, length) : new[u] = a[u]
      BY <1>a, <2>3 DEF Ahead
    <3> QED
      BY <3>1, SumOfExtensional
  <2> QED
    BY <1>a, <2>3, <2>4, <2>5, <2>6, <2>7 DEF Counted, new, current
<1>2. ASSUME count >= max PROVE Counted(a, count + 1, end, t, length, max)
  <2>1. Limiter!AtMost(count + 1, max) = Limiter!AtMost(count, max)
    BY <1>2, <1>a DEF Limiter!AtMost
  <2> QED
    BY <2>1, <1>a DEF Counted
<1> QED
  BY <1>1, <1>2

\* A tick changes nothing, and a restart begins from nothing.
LEMMA WindowTicks ==
    ASSUME NEW length \in Nat \ {0}, NEW max \in Nat \ {0},
           NEW a, NEW count, NEW end, NEW t \in Nat, NEW s \in Nat, t <= s,
           Counted(a, count, end, t, length, max)
    PROVE  Counted(a, count, end, s, length, max)
<1>1. \A u \in Times : u <= t => u <= s
  BY DEF Times
<1> QED
  BY <1>1 DEF Counted

\* Before the first request nothing was let through.
LEMMA NothingCounted ==
    ASSUME MaxTime \in Nat, NEW length \in Nat \ {0}, NEW max \in Nat \ {0}, NEW t
    PROVE  /\ Counted([u \in Times |-> 0], 0, 0, t, length, max)
           /\ \A S \in SUBSET Times : SumOf([u \in Times |-> 0], S) = 0
<1> DEFINE zero == [u \in Times |-> 0]
<1>1. zero \in [Times -> 0 .. max] /\ \A u \in Times : zero[u] = 0
  OBVIOUS
<1> HIDE DEF zero
<1>2. \A S \in SUBSET Times : SumOf(zero, S) = 0
  BY <1>1, SumOfNothing
<1>3. From(0 - length) \in SUBSET Times /\ Ahead(0 - length, length) \in SUBSET Times
  BY DEF From, Ahead
<1>4. Limiter!AtMost(0, max) = 0
  BY DEF Limiter!AtMost
<1>5. Counted(zero, 0, 0, t, length, max)
  BY <1>1, <1>2, <1>3, <1>4 DEF Counted
<1> QED
  BY <1>2, <1>5 DEF zero

\* A stretch as long as the window that contains this moment lies in the current window and
\* the stretch ahead of it, and so has no more than twice the limit; one that does not is as
\* it was.
LEMMA TwiceAtMost ==
    ASSUME MaxTime \in Nat, NEW length \in Nat \ {0}, NEW max \in Nat \ {0},
           NEW a \in [Times -> 0 .. max], NEW new, NEW count, NEW end,
           NEW t \in Times, NEW s \in Times, t < end,
           Counted(new, count, end, t, length, max),
           \A u \in Times \ {t} : new[u] = a[u],
           SumOf(a, Stretch(s, length)) <= 2 * max
    PROVE  SumOf(new, Stretch(s, length)) <= 2 * max
<1> DEFINE current == From(end - length)
           ahead == Ahead(end - length, length)
           stretch == Stretch(s, length)
<1>a. /\ new \in [Times -> 0 .. max] /\ end \in Nat /\ end - length \in 1 .. t
      /\ SumOf(new, current) = Limiter!AtMost(count, max) /\ SumOf(new, ahead) <= max
      /\ count \in Nat /\ t \in Nat /\ s \in Nat
      /\ \A u \in Times : new[u] > 0 => u <= t
  BY DEF Counted, Times
<1>1. CASE t \in stretch
  <2>1. current \subseteq Times /\ ahead \subseteq Times /\ stretch \subseteq Times
    BY DEF From, Ahead, Stretch
  <2>2. \A u \in stretch : new[u] > 0 => u \in current \cup ahead
    <3> SUFFICES ASSUME NEW u \in stretch, new[u] > 0, u < end - length
                 PROVE  u + length > end - length
      BY <1>a, <2>1 DEF From, Ahead, Times
    <3>1. u \in Nat /\ u >= s /\ t < s + length
      BY <1>1 DEF Stretch, Times
    <3> QED
      BY <3>1, <1>a
  <2>3. /\ IsFiniteSet(current) /\ IsFiniteSet(ahead) /\ IsFiniteSet(stretch)
        /\ SumOf(new, current) \in Nat /\ SumOf(new, ahead) \in Nat /\ SumOf(new, stretch) \in Nat
    BY <1>a, <2>1, SumsOfTimes
  <2>4. \A u \in current \cup ahead \cup stretch : new[u] \in 0 .. max
    BY <1>a, <2>1
  <2>5. SumOf(new, stretch) <= SumOf(new, current) + SumOf(new, ahead)
    <3> HIDE DEF current, ahead, stretch
    <3> QED
      BY <2>2, <2>3, <2>4, SumOfSplit
  <2>6. SumOf(new, current) <= max
    BY <1>a DEF Limiter!AtMost
  <2> HIDE DEF current, ahead, stretch
  <2>7. SumOf(new, stretch) <= 2 * max
    BY <2>3, <2>5, <2>6, <1>a
  <2> QED
    BY <2>7 DEF stretch
<1>2. CASE t \notin stretch
  <2>1. \A u \in stretch : new[u] = a[u]
    BY <1>2 DEF Stretch
  <2>2. SumOf(new, stretch) = SumOf(a, stretch)
    BY <2>1, SumOfExtensional
  <2> QED
    BY <2>2
<1> QED
  BY <1>1, <1>2

\* Rounding up: whoever waits the seconds of Retry-After waits until the window has ended.
LEMMA WaitsLongEnough ==
    ASSUME NEW s \in Nat \ {0}, NEW left \in Int
    PROVE  s * (IF left <= s THEN 1 ELSE (left + s - 1) \div s) >= left
           /\ (IF left <= s THEN 1 ELSE (left + s - 1) \div s) \in Int
<1>1. CASE left <= s
  BY <1>1
<1>2. CASE ~(left <= s)
  <2> DEFINE x == left + s - 1
  <2>1. x \in Int
    OBVIOUS
  <2>2. x = left + s - 1
    OBVIOUS
  <2> HIDE DEF x
  <2>3. \A y \in Int, b \in Nat \ {0} : y = b * (y \div b) + (y % b) /\ y % b \in 0 .. b - 1 /\ y \div b \in Int
    BY SMT
  <2>4. x = s * (x \div s) + (x % s) /\ x % s \in 0 .. s - 1 /\ x \div s \in Int
    BY <2>1, <2>3
  <2>5. s * (x \div s) \in Int
    BY <2>4
  <2>6. s * (x \div s) >= left
    BY <2>2, <2>4, <2>5
  <2> QED
    BY <2>6, <2>4, <1>2 DEF x
<1> QED
  BY <1>1, <1>2

\* The invariant of one key, whose counter is e and whose last refusal is f.
KeyOk(a, e, f, t, length, max) ==
    /\ e \in [count : 0 .. max + 1, resetAt : 0 .. MaxTime + length]
    /\ Counted(a, e.count, e.resetAt, t, length, max)
    /\ \A s \in Times : SumOf(a, Stretch(s, length)) <= 2 * max
    /\ f.retryAt >= f.until

\* A window that refuses let its limit through.
LEMMA RefusesAtLimit ==
    ASSUME MaxTime \in Nat, NEW length \in Nat \ {0}, NEW max \in Nat \ {0},
           NEW a, NEW count, NEW end, NEW t, count > max,
           Counted(a, count, end, t, length, max)
    PROVE  SumOf(a, {u \in Times : u + length >= end}) = max
<1>1. end \in Nat /\ count \in Nat
  BY DEF Counted
<1>2. {u \in Times : u + length >= end} = From(end - length)
  BY <1>1 DEF From, Times
<1>3. SumOf(a, From(end - length)) = max
  BY <1>1 DEF Counted, Limiter!AtMost
<1> QED
  BY <1>2, <1>3

\* The invariant of the limiter is that of each of its keys.
LEMMA KeysOk ==
    ASSUME Limiter!RateLimitAssumption
    PROVE  /\ Limiter!IInv => /\ now \in Times
                              /\ \A k \in Key : KeyOk(admitted[k], entries[k], refused[k], now,
                                                      Window[k].length, Window[k].max)
           /\ (now \in Times /\ \A k \in Key : KeyOk(admitted[k], entries[k], refused[k], now,
                                                     Window[k].length, Window[k].max))
                  => Limiter!IInv
           /\ (now' \in Times /\ \A k \in Key : KeyOk(admitted'[k], entries'[k], refused'[k], now',
                                                      Window[k].length, Window[k].max))
                  => Limiter!IInv'
<1>a. MaxTime \in Nat \ {0} /\ \A k \in Key : Window[k].length \in Nat \ {0}
                                              /\ Window[k].max \in Nat \ {0}
  BY DEF Limiter!RateLimitAssumption
<1>1. \A k \in Key :
        /\ Limiter!Current(k) = From(entries[k].resetAt - Window[k].length)
        /\ Limiter!Before(k) = Ahead(entries[k].resetAt - Window[k].length, Window[k].length)
        /\ Limiter!Current(k)' = From(entries'[k].resetAt - Window[k].length)
        /\ Limiter!Before(k)' = Ahead(entries'[k].resetAt - Window[k].length, Window[k].length)
  BY DEF Limiter!Current, Limiter!Before, Limiter!Began, From, Ahead, Times
<1>2. \A a, e, f, t, length, max : e.count > max =>
        (\A w \in Nat \ {0}, m \in Nat \ {0} : w = length /\ m = max =>
          (KeyOk(a, e, f, t, length, max) => SumOf(a, {u \in Times : u + length >= e.resetAt}) = max))
  BY <1>a, RefusesAtLimit DEF KeyOk
<1>3. ASSUME Limiter!IInv
      PROVE  now \in Times
             /\ \A k \in Key : KeyOk(admitted[k], entries[k], refused[k], now,
                                     Window[k].length, Window[k].max)
  <2>1. now \in Times
    BY <1>3 DEF Limiter!IInv, Limiter!TypeOK, Times
  <2>2. ASSUME NEW k \in Key
        PROVE  KeyOk(admitted[k], entries[k], refused[k], now, Window[k].length, Window[k].max)
    <3>1. entries[k] \in [count : 0 .. Window[k].max + 1, resetAt : 0 .. MaxTime + Window[k].length]
      <4>1. entries[k] \in [count : Nat, resetAt : Nat]
        BY <1>3 DEF Limiter!IInv, Limiter!CountersAreTrue
      <4>2. entries[k].count \in 0 .. Window[k].max + 1
            /\ entries[k].resetAt \in 0 .. MaxTime + Window[k].length
        BY <1>3 DEF Limiter!IInv, Limiter!TypeOK
      <4> QED
        BY <4>1, <4>2
    <3>2. Counted(admitted[k], entries[k].count, entries[k].resetAt, now,
                  Window[k].length, Window[k].max)
      <4>1. /\ entries[k] \in [count : Nat, resetAt : Nat]
            /\ admitted[k] \in [Times -> 0 .. Window[k].max]
            /\ \A u \in Times : admitted[k][u] > 0 => u <= now /\ u < entries[k].resetAt
            /\ entries[k].resetAt = 0 => entries[k].count = 0
            /\ entries[k].resetAt # 0 => entries[k].resetAt - Window[k].length \in 1 .. now
            /\ SumOf(admitted[k], Limiter!Current(k))
                  = Limiter!AtMost(entries[k].count, Window[k].max)
            /\ SumOf(admitted[k], Limiter!Before(k)) <= Window[k].max
        BY <1>3, LimiterSums DEF Limiter!IInv, Limiter!CountersAreTrue, Limiter!Began, Times
      <4> QED
        BY <4>1, <1>1 DEF Counted
    <3>3. \A s \in Times : SumOf(admitted[k], Stretch(s, Window[k].length)) <= 2 * Window[k].max
      BY <1>3, LimiterSums DEF Limiter!IInv, Limiter!TwiceTheLimitAtMost, Stretch, Times
    <3>4. refused[k].retryAt >= refused[k].until
      BY <1>3 DEF Limiter!IInv, Limiter!RetryAfterIsEnough
    <3> QED
      BY <3>1, <3>2, <3>3, <3>4 DEF KeyOk
  <2> QED
    BY <2>1, <2>2
<1>4. ASSUME now \in Times, \A k \in Key : KeyOk(admitted[k], entries[k], refused[k], now,
                                                 Window[k].length, Window[k].max)
      PROVE  Limiter!IInv
  <2>1. Limiter!TypeOK
    BY <1>4 DEF Limiter!TypeOK, KeyOk, Times
  <2>2. Limiter!CountersAreTrue
    <3> SUFFICES ASSUME NEW k \in Key
                 PROVE  /\ entries[k] \in [count : Nat, resetAt : Nat]
                        /\ admitted[k] \in [Times -> 0 .. Window[k].max]
                        /\ \A u \in Times : admitted[k][u] > 0 => u <= now /\ u < entries[k].resetAt
                        /\ entries[k].resetAt = 0 => entries[k].count = 0
                        /\ entries[k].resetAt # 0 => Limiter!Began(k) \in 1 .. now
                        /\ SumOf(admitted[k], Limiter!Current(k))
                              = Limiter!AtMost(entries[k].count, Window[k].max)
                        /\ SumOf(admitted[k], Limiter!Before(k)) <= Window[k].max
      BY LimiterSums DEF Limiter!CountersAreTrue, Times
    <3>1. KeyOk(admitted[k], entries[k], refused[k], now, Window[k].length, Window[k].max)
      BY <1>4
    <3>2. entries[k] \in [count : Nat, resetAt : Nat]
      BY <3>1, <1>a DEF KeyOk
    <3>3. Counted(admitted[k], entries[k].count, entries[k].resetAt, now,
                  Window[k].length, Window[k].max)
      BY <3>1 DEF KeyOk
    <3> QED
      BY <3>2, <3>3, <1>1 DEF Counted, Limiter!Began
  <2>3. Limiter!TwiceTheLimitAtMost
    BY <1>4, LimiterSums DEF Limiter!TwiceTheLimitAtMost, KeyOk, Stretch, Times
  <2>4. Limiter!RefusesOnlyAtLimit
    BY <1>4, <1>a, <1>2, LimiterSums DEF Limiter!RefusesOnlyAtLimit, Times
  <2>5. Limiter!RetryAfterIsEnough
    BY <1>4 DEF Limiter!RetryAfterIsEnough, KeyOk
  <2> QED
    BY <2>1, <2>2, <2>3, <2>4, <2>5 DEF Limiter!IInv
<1>5. ASSUME now' \in Times, \A k \in Key : KeyOk(admitted'[k], entries'[k], refused'[k], now',
                                                  Window[k].length, Window[k].max)
      PROVE  Limiter!IInv'
  <2>1. Limiter!TypeOK'
    BY <1>5 DEF Limiter!TypeOK, KeyOk, Times
  <2>2. Limiter!CountersAreTrue'
    <3> SUFFICES ASSUME NEW k \in Key
                 PROVE  /\ entries'[k] \in [count : Nat, resetAt : Nat]
                        /\ admitted'[k] \in [Times -> 0 .. Window[k].max]
                        /\ \A u \in Times : admitted'[k][u] > 0 => u <= now' /\ u < entries'[k].resetAt
                        /\ entries'[k].resetAt = 0 => entries'[k].count = 0
                        /\ entries'[k].resetAt # 0 => Limiter!Began(k)' \in 1 .. now'
                        /\ SumOf(admitted'[k], Limiter!Current(k)')
                              = Limiter!AtMost(entries'[k].count, Window[k].max)
                        /\ SumOf(admitted'[k], Limiter!Before(k)') <= Window[k].max
      BY LimiterSums DEF Limiter!CountersAreTrue, Limiter!AtMost, Times
    <3>1. KeyOk(admitted'[k], entries'[k], refused'[k], now', Window[k].length, Window[k].max)
      BY <1>5
    <3>2. entries'[k] \in [count : Nat, resetAt : Nat]
      BY <3>1, <1>a DEF KeyOk
    <3>3. Counted(admitted'[k], entries'[k].count, entries'[k].resetAt, now',
                  Window[k].length, Window[k].max)
      BY <3>1 DEF KeyOk
    <3> QED
      BY <3>2, <3>3, <1>1 DEF Counted, Limiter!Began
  <2>3. Limiter!TwiceTheLimitAtMost'
    BY <1>5, LimiterSums DEF Limiter!TwiceTheLimitAtMost, KeyOk, Stretch, Times
  <2>4. Limiter!RefusesOnlyAtLimit'
    BY <1>5, <1>a, <1>2, LimiterSums DEF Limiter!RefusesOnlyAtLimit, Times
  <2>5. Limiter!RetryAfterIsEnough'
    BY <1>5 DEF Limiter!RetryAfterIsEnough, KeyOk
  <2> QED
    BY <2>1, <2>2, <2>3, <2>4, <2>5 DEF Limiter!IInv
<1> QED
  BY <1>3, <1>4, <1>5

\* A request at one of its keys: let through, or refused.
LEMMA KeyReceives ==
    ASSUME Limiter!RateLimitAssumption, NEW k \in Key, now \in Times,
           Limiter!Consume(k).count <= Window[k].max + 1,
           KeyOk(admitted[k], entries[k], refused[k], now, Window[k].length, Window[k].max)
    PROVE  /\ Limiter!Allowed(k) =>
                KeyOk(Admit(admitted[k], now), Limiter!Consume(k), refused[k], now,
                      Window[k].length, Window[k].max)
           /\ ~Limiter!Allowed(k) =>
                KeyOk(admitted[k], Limiter!Consume(k),
                      [until |-> Limiter!Consume(k).resetAt,
                       retryAt |-> now + Second * Limiter!RetryAfter(k)], now,
                      Window[k].length, Window[k].max)
<1> DEFINE L == Window[k].length
           M == Window[k].max
           a == admitted[k]
           e == entries[k]
           next == Limiter!Consume(k)
<1>a. L \in Nat \ {0} /\ M \in Nat \ {0} /\ MaxTime \in Nat /\ Second \in Nat \ {0}
  BY DEF Limiter!RateLimitAssumption
<1>b. /\ e \in [count : 0 .. M + 1, resetAt : 0 .. MaxTime + L]
      /\ Counted(a, e.count, e.resetAt, now, L, M)
      /\ \A s \in Times : SumOf(a, Stretch(s, L)) <= 2 * M
      /\ refused[k].retryAt >= refused[k].until
  BY DEF KeyOk
<1>c. /\ e.count \in Nat /\ e.resetAt \in Nat /\ now \in Nat /\ now >= 1 /\ now <= MaxTime
      /\ a \in [Times -> 0 .. M]
  BY <1>b DEF Counted, Times
<1>1. /\ now >= e.resetAt => next = [count |-> 1, resetAt |-> now + L]
      /\ now < e.resetAt => next = [count |-> e.count + 1, resetAt |-> e.resetAt]
  <2>1. CASE now >= e.resetAt
    BY <2>1, <1>c DEF Limiter!Consume
  <2>2. CASE now < e.resetAt
    BY <2>2, <1>b, <1>c DEF Limiter!Consume
  <2> QED
    BY <2>1, <2>2, <1>c
<1>2. /\ next \in [count : 0 .. M + 1, resetAt : 0 .. MaxTime + L]
      /\ next.count \in Nat /\ next.resetAt \in Nat /\ now < next.resetAt
  <2>1. CASE now >= e.resetAt
    BY <2>1, <1>1, <1>a, <1>c
  <2>2. CASE now < e.resetAt
    <3>1. next = [count |-> e.count + 1, resetAt |-> e.resetAt]
      BY <2>2, <1>1
    <3>2. e.count + 1 \in 0 .. M + 1
      BY <3>1, <1>a, <1>c
    <3> HIDE DEF next
    <3> QED
      BY <2>2, <3>1, <3>2, <1>b, <1>c
  <2> QED
    BY <2>1, <2>2, <1>c
<1>3. Limiter!Allowed(k) <=> next.count <= M
  BY DEF Limiter!Allowed
<1>4. ASSUME next.count <= M PROVE Counted(Admit(a, now), next.count, next.resetAt, now, L, M)
  <2>1. CASE now >= e.resetAt
    <3>1. Counted(Admit(a, now), 1, now + L, now, L, M)
      <4> HIDE DEF L, M, a, e
      <4> QED
        BY <2>1, <1>a, <1>b, WindowRenewed
    <3> QED
      BY <3>1, <2>1, <1>1
  <2>2. CASE now < e.resetAt
    <3>1. next.count = e.count + 1 /\ next.resetAt = e.resetAt
      BY <2>2, <1>1
    <3>2. e.count < M
      BY <3>1, <1>4, <1>a, <1>c
    <3>3. Counted(Admit(a, now), e.count + 1, e.resetAt, now, L, M)
      <4> HIDE DEF L, M, a, e
      <4> QED
        BY <2>2, <3>2, <1>a, <1>b, WindowCounts
    <3> QED
      BY <3>1, <3>3
  <2> QED
    BY <2>1, <2>2, <1>c
<1>5. ASSUME ~(next.count <= M) PROVE Counted(a, next.count, next.resetAt, now, L, M)
  <2>1. now < e.resetAt
    BY <1>1, <1>5, <1>a, <1>c
  <2>2. next.count = e.count + 1 /\ next.resetAt = e.resetAt
    BY <2>1, <1>1
  <2>3. e.count >= M
    BY <2>2, <1>5, <1>a, <1>c
  <2>4. Counted(a, e.count + 1, e.resetAt, now, L, M)
    <3> HIDE DEF L, M, a, e
    <3> QED
      BY <2>1, <2>3, <1>a, <1>b, WindowCounts
  <2> QED
    BY <2>2, <2>4
<1>6. ASSUME next.count <= M, NEW s \in Times
      PROVE  SumOf(Admit(a, now), Stretch(s, L)) <= 2 * M
  <2>1. \A u \in Times \ {now} : Admit(a, now)[u] = a[u]
    BY <1>c DEF Admit
  <2>2. Counted(Admit(a, now), next.count, next.resetAt, now, L, M)
    BY <1>4, <1>6
  <2>3. SumOf(a, Stretch(s, L)) <= 2 * M
    BY <1>b
  <2> DEFINE new == Admit(a, now)
  <2> HIDE DEF L, M, a, e, next, new
  <2>4. SumOf(new, Stretch(s, L)) <= 2 * M
    BY <2>1, <2>2, <2>3, <1>a, <1>c, <1>2, TwiceAtMost DEF new
  <2> QED
    BY <2>4 DEF new
<1>7. ASSUME Limiter!Allowed(k)
      PROVE  KeyOk(Admit(a, now), next, refused[k], now, L, M)
  <2>1. next.count <= M
    BY <1>7, <1>3
  <2>2. Counted(Admit(a, now), next.count, next.resetAt, now, L, M)
    BY <2>1, <1>4
  <2>3. \A s \in Times : SumOf(Admit(a, now), Stretch(s, L)) <= 2 * M
    BY <2>1, <1>6
  <2> HIDE DEF L, M, a, e, next
  <2> QED
    BY <2>2, <2>3, <1>2, <1>b DEF KeyOk
<1>8. ASSUME ~Limiter!Allowed(k)
      PROVE  KeyOk(a, next, [until |-> next.resetAt, retryAt |-> now + Second * Limiter!RetryAfter(k)],
                   now, L, M)
  <2>1. Counted(a, next.count, next.resetAt, now, L, M)
    BY <1>8, <1>3, <1>5
  <2>2. now + Second * Limiter!RetryAfter(k) >= next.resetAt
    <3> DEFINE left == next.resetAt - now
    <3>1. left \in Int
      BY <1>2, <1>c
    <3>2. Limiter!RetryAfter(k) = IF left <= Second THEN 1 ELSE (left + Second - 1) \div Second
      BY DEF Limiter!RetryAfter
    <3>3. left = next.resetAt - now
      OBVIOUS
    <3> HIDE DEF left, next
    <3>4. Second * Limiter!RetryAfter(k) >= left /\ Limiter!RetryAfter(k) \in Int
      BY <3>1, <3>2, <1>a, WaitsLongEnough
    <3>5. Second * Limiter!RetryAfter(k) \in Int
      BY <3>4, <1>a
    <3> QED
      BY <3>1, <3>3, <3>4, <3>5, <1>2, <1>c
  <2> HIDE DEF L, M, a, e, next
  <2> QED
    BY <2>1, <2>2, <1>2, <1>b DEF KeyOk
<1> QED
  BY <1>7, <1>8

\* The invariant of the limiter holds at first and is kept by every step.
THEOREM LimiterInductive ==
    ASSUME Limiter!RateLimitAssumption
    PROVE  /\ Limiter!Init => Limiter!IInv
           /\ Limiter!IInv /\ [Limiter!Next]_limiterVars => Limiter!IInv'
<1>a. /\ MaxTime \in Nat \ {0}
      /\ \A k \in Key : Window[k].length \in Nat \ {0} /\ Window[k].max \in Nat \ {0}
  BY DEF Limiter!RateLimitAssumption
<1>b. ASSUME NEW k \in Key, NEW f, NEW t, f.retryAt >= f.until
      PROVE  KeyOk([u \in Times |-> 0], [count |-> 0, resetAt |-> 0], f, t,
                   Window[k].length, Window[k].max)
  <2> DEFINE zero == [u \in Times |-> 0]
             e == [count |-> 0, resetAt |-> 0]
  <2>1. /\ Counted(zero, 0, 0, t, Window[k].length, Window[k].max)
        /\ \A S \in SUBSET Times : SumOf(zero, S) = 0
    BY <1>a, NothingCounted
  <2>2. \A s : Stretch(s, Window[k].length) \in SUBSET Times
    BY DEF Stretch
  <2>3. 0 \in 0 .. Window[k].max + 1 /\ 0 \in 0 .. MaxTime + Window[k].length
        /\ 0 <= 2 * Window[k].max
    BY <1>a
  <2>4. e \in [count : 0 .. Window[k].max + 1, resetAt : 0 .. MaxTime + Window[k].length]
        /\ e.count = 0 /\ e.resetAt = 0
    BY <2>3
  <2> HIDE DEF zero, e
  <2>5. KeyOk(zero, e, f, t, Window[k].length, Window[k].max)
    BY <1>b, <2>1, <2>2, <2>3, <2>4 DEF KeyOk
  <2> QED
    BY <2>5 DEF zero, e
<1>1. ASSUME Limiter!Init PROVE Limiter!IInv
  <2>1. now \in Times
    BY <1>1, <1>a DEF Limiter!Init, Times
  <2>2. ASSUME NEW k \in Key
        PROVE  KeyOk(admitted[k], entries[k], refused[k], now, Window[k].length, Window[k].max)
    <3>1. /\ admitted[k] = [u \in Times |-> 0] /\ entries[k] = [count |-> 0, resetAt |-> 0]
          /\ refused[k].retryAt >= refused[k].until
      BY <1>1 DEF Limiter!Init, Times
    <3> QED
      BY <3>1, <1>b
  <2> QED
    BY <2>1, <2>2, KeysOk
<1>2. ASSUME Limiter!IInv, [Limiter!Next]_limiterVars PROVE Limiter!IInv'
  <2>a. /\ now \in Times
        /\ \A k \in Key : KeyOk(admitted[k], entries[k], refused[k], now,
                                Window[k].length, Window[k].max)
    BY <1>2, KeysOk
  <2> SUFFICES /\ now' \in Times
               /\ \A k \in Key : KeyOk(admitted'[k], entries'[k], refused'[k], now',
                                       Window[k].length, Window[k].max)
    BY KeysOk
  <2>1. CASE Limiter!Tick
    <3>1. /\ now' = now + 1 /\ now < MaxTime
          /\ entries' = entries /\ admitted' = admitted /\ refused' = refused
      BY <2>1 DEF Limiter!Tick
    <3>2. now \in Nat /\ now' \in Nat /\ now <= now' /\ now' \in Times
      BY <2>a, <3>1, <1>a DEF Times
    <3>3. ASSUME NEW k \in Key
          PROVE  KeyOk(admitted[k], entries[k], refused[k], now', Window[k].length, Window[k].max)
      <4>1. KeyOk(admitted[k], entries[k], refused[k], now, Window[k].length, Window[k].max)
        BY <2>a
      <4>2. Counted(admitted[k], entries[k].count, entries[k].resetAt, now,
                    Window[k].length, Window[k].max)
        BY <4>1 DEF KeyOk
      <4>3. Counted(admitted[k], entries[k].count, entries[k].resetAt, now',
                    Window[k].length, Window[k].max)
        BY <4>2, <3>2, <1>a, WindowTicks
      <4> QED
        BY <4>1, <4>3 DEF KeyOk
    <3> QED
      BY <3>1, <3>2, <3>3
  <2>2. CASE Limiter!Restart
    <3>1. /\ now' = now /\ refused' = refused
          /\ \A k \in Key : /\ entries'[k] = [count |-> 0, resetAt |-> 0]
                            /\ admitted'[k] = [u \in Times |-> 0]
      BY <2>2 DEF Limiter!Restart, Times
    <3>2. \A k \in Key : refused[k].retryAt >= refused[k].until
      BY <2>a DEF KeyOk
    <3> QED
      BY <2>a, <3>1, <3>2, <1>b
  <2>3. ASSUME NEW r \in Requests, Limiter!Receive(r)
        PROVE  /\ now' \in Times
               /\ \A k \in Key : KeyOk(admitted'[k], entries'[k], refused'[k], now',
                                       Window[k].length, Window[k].max)
    <3>1. now' = now
      BY <2>3 DEF Limiter!Receive
    <3>2. ASSUME NEW k \in Key, k \notin Limiter!Reached(r)
          PROVE  entries'[k] = entries[k] /\ admitted'[k] = admitted[k] /\ refused'[k] = refused[k]
      BY <2>3, <3>2 DEF Limiter!Receive
    <3>3. ASSUME NEW k \in Key, k \in Limiter!Reached(r)
          PROVE  KeyOk(admitted'[k], entries'[k], refused'[k], now, Window[k].length, Window[k].max)
      <4>1. Limiter!Consume(k).count <= Window[k].max + 1
        BY <2>3, <3>3 DEF Limiter!Receive
      <4>2. entries'[k] = Limiter!Consume(k)
        BY <2>3, <3>3 DEF Limiter!Receive
      <4>3. KeyOk(admitted[k], entries[k], refused[k], now, Window[k].length, Window[k].max)
        BY <2>a
      <4>4. CASE Limiter!Allowed(k)
        <5>1. admitted'[k] = Admit(admitted[k], now) /\ refused'[k] = refused[k]
          BY <2>3, <3>3, <4>4 DEF Limiter!Receive, Admit
        <5> QED
          BY <4>1, <4>2, <4>3, <4>4, <5>1, <2>a, KeyReceives
      <4>5. CASE ~Limiter!Allowed(k)
        <5>1. /\ admitted'[k] = admitted[k]
              /\ refused'[k] = [until |-> Limiter!Consume(k).resetAt,
                                retryAt |-> now + Second * Limiter!RetryAfter(k)]
          BY <2>3, <3>3, <4>5 DEF Limiter!Receive
        <5> QED
          BY <4>1, <4>2, <4>3, <4>5, <5>1, <2>a, KeyReceives
      <4> QED
        BY <4>4, <4>5
    <3> QED
      BY <2>a, <3>1, <3>2, <3>3
  <2>4. CASE UNCHANGED limiterVars
    <3>1. now' = now /\ entries' = entries /\ admitted' = admitted /\ refused' = refused
      BY <2>4 DEF limiterVars
    <3> QED
      BY <2>a, <3>1
  <2> QED
    BY <1>2, <2>1, <2>2, <2>3, <2>4 DEF Limiter!Next
<1> QED
  BY <1>1, <1>2

-----------------------------------------------------------------------------
(* RuntimeSettings.                                                        *)

\* The settings a page or a request has seen.
Seen == [Keys -> Settings!State]

\* The types of the rows, the pages and the requests.
LEMMA SettingsTypes ==
    ASSUME Settings!SettingsAssumption, Settings!IInv
    PROVE  /\ row \in Seen /\ up \in BOOLEAN /\ lock \in [Keys -> Proc \cup {None}]
           /\ log \in [Keys -> Seq(Settings!Change)]
           /\ pc \in [Proc -> Settings!Pcs] /\ page \in [Proc -> Seen]
           /\ ask \in [Proc -> [Keys -> Settings!Ask]] /\ cur \in [Proc -> Seen]
           /\ todo \in [Proc -> SUBSET Keys]
           /\ Keys \subseteq Nat /\ EnvDefault \in [Keys -> Int] /\ Booking \subseteq Keys
           /\ Values \subseteq Valid /\ Valid \subseteq Int /\ None \notin Proc
           /\ Stored \in Seen
  BY DEF Settings!IInv, Settings!TypeOK, Settings!SettingsAssumption, Seen, Settings!State

\* What is read of a setting is right.
LEMMA ResolvedIsRight ==
    ASSUME Settings!SettingsAssumption, Settings!IInv, NEW k \in Keys
    PROVE  /\ Settings!resolveFieldState(k) \in Settings!State
           /\ Settings!ReadIsRight(Settings!resolveFieldState(k), k)
           /\ up => Settings!resolveFieldState(k).value = Settings!InEffect(k)
<1>1. row[k] \in Settings!State /\ EnvDefault[k] \in Int /\ Valid \subseteq Int
  BY SettingsTypes DEF Seen
<1> QED
  BY <1>1 DEF Settings!resolveFieldState, Settings!ReadIsRight, Settings!InEffect, Settings!State

\* And so is the default that stands for what has not been read.
LEMMA UnreadIsRight ==
    ASSUME Settings!SettingsAssumption, Settings!IInv
    PROVE  /\ Settings!Unread \in Seen
           /\ \A k \in Keys : Settings!ReadIsRight(Settings!Unread[k], k)
<1>1. \A k \in Keys : row[k] \in Settings!State /\ EnvDefault[k] \in Int
  BY SettingsTypes DEF Seen
<1> QED
  BY <1>1 DEF Settings!Unread, Seen, Settings!State, Settings!ReadIsRight, Settings!InEffect

\* A page that is read anew shows what is right.
LEMMA RefreshIsRight ==
    ASSUME Settings!SettingsAssumption, Settings!IInv, NEW S \in SUBSET Keys, NEW seen \in Seen,
           \A k \in Keys : Settings!ReadIsRight(seen[k], k)
    PROVE  /\ Settings!Refresh(S, seen) \in Seen
           /\ \A k \in Keys : Settings!ReadIsRight(Settings!Refresh(S, seen)[k], k)
  BY ResolvedIsRight DEF Settings!Refresh, Seen

\* What was right stays right while a row changes only with its version.
LEMMA RightStays ==
    ASSUME NEW k \in Keys, NEW seen \in Settings!State, Settings!ReadIsRight(seen, k),
           row[k] \in Settings!State, row'[k] \in Settings!State,
           row'[k] = row[k] \/ row'[k].version > row[k].version
    PROVE  Settings!ReadIsRight(seen, k)'
  BY DEF Settings!ReadIsRight, Settings!InEffect, Settings!State

\* No two transactions wait for each other: each waits for a row after those it has written.
LEMMA OrderPreventsCycles ==
    ASSUME Settings!TypeOK', Keys \subseteq Nat, \A a \in Proc : Settings!Writes(a)'
    PROVE  Settings!NoWaitCycle'
<1> SUFFICES ASSUME NEW a \in Proc, NEW k \in todo'[a], Settings!Turn(a, k)',
                    lock'[k] \notin {None, a}, NEW j \in todo'[lock'[k]], lock'[j] = a
             PROVE  FALSE
  BY DEF Settings!NoWaitCycle
<1>1. k \in Keys /\ lock'[k] \in Proc
  BY DEF Settings!TypeOK
<1>2. j \in Keys
  BY <1>1 DEF Settings!TypeOK
<1>3. k < j
  BY <1>1 DEF Settings!Writes
<1>4. j < k
  BY <1>2 DEF Settings!Writes
<1>5. k \in Nat /\ j \in Nat
  BY <1>1, <1>2
<1> QED
  BY <1>3, <1>4, <1>5

\* An admin moves, the rows and the audit stand: what it has seen is right, and what it
\* writes is in order.
LEMMA SettingsQuiet ==
    ASSUME Settings!SettingsAssumption, Settings!IInv, NEW a \in Proc, UNCHANGED <<row, log>>,
           Settings!TypeOK', Settings!Writes(a)',
           \A q \in Proc \ {a} : /\ pc'[q] = pc[q] /\ page'[q] = page[q] /\ ask'[q] = ask[q]
                                 /\ cur'[q] = cur[q] /\ todo'[q] = todo[q]
                                 /\ \A k \in Keys : lock'[k] = q <=> lock[k] = q,
           \A k \in Keys : /\ Settings!ReadIsRight(page'[a][k], k)
                           /\ Settings!ReadIsRight(cur'[a][k], k)
    PROVE  Settings!IInv'
<1>1. \A q \in Proc \ {a} : Settings!Writes(q)'
  BY DEF Settings!IInv, Settings!Writes
<1>2. \A q \in Proc : Settings!Writes(q)'
  BY <1>1
<1>3. Settings!NoWaitCycle'
  BY <1>2, SettingsTypes, OrderPreventsCycles
<1>4. ASSUME NEW q \in Proc, NEW k \in Keys
      PROVE  Settings!ReadIsRight(page[q][k], k)' /\ Settings!ReadIsRight(cur[q][k], k)'
  BY DEF Settings!IInv, Settings!ReadIsRight, Settings!InEffect
<1>5. Settings!AuditIsHistory' /\ Settings!AuditIsTrue' /\ Settings!SetIsValid'
  BY DEF Settings!IInv, Settings!AuditIsHistory, Settings!AuditIsTrue, Settings!SetIsValid
<1> QED
  BY <1>2, <1>3, <1>4, <1>5 DEF Settings!IInv

\* The admin that moves keeps no row, or has none yet.
LEMMA SettingsReads ==
    ASSUME Settings!SettingsAssumption, Settings!IInv, NEW a \in Proc, NEW to \in Settings!Pcs,
           to # "tx", pc[a] # "tx", UNCHANGED <<row, log, up, lock, todo>>,
           pc' = [pc EXCEPT ![a] = to],
           NEW seen \in Seen, \A k \in Keys : Settings!ReadIsRight(seen[k], k),
           \/ page' = [page EXCEPT ![a] = seen] /\ UNCHANGED cur
           \/ cur' = [cur EXCEPT ![a] = seen] /\ UNCHANGED page
           \/ UNCHANGED <<page, cur>>,
           \/ UNCHANGED ask
           \/ \E b \in [Keys -> Settings!Ask] : ask' = [ask EXCEPT ![a] = b]
    PROVE  Settings!IInv'
<1>1. Settings!TypeOK'
  <2>1. pc' \in [Proc -> Settings!Pcs]
    BY SettingsTypes
  <2>2. page' \in [Proc -> Seen]
    BY SettingsTypes
  <2>3. cur' \in [Proc -> Seen]
    BY SettingsTypes
  <2>4. ask' \in [Proc -> [Keys -> Settings!Ask]]
    BY SettingsTypes
  <2> QED
    BY <2>1, <2>2, <2>3, <2>4, SettingsTypes DEF Settings!TypeOK, Seen
<1>2. todo'[a] = {} /\ pc'[a] # "tx" /\ \A k \in Keys : lock'[k] # a
  BY SettingsTypes DEF Settings!IInv, Settings!Writes
<1>3. Settings!Writes(a)'
  BY <1>2 DEF Settings!Writes
<1>4. \A q \in Proc \ {a} : /\ pc'[q] = pc[q] /\ page'[q] = page[q] /\ ask'[q] = ask[q]
                            /\ cur'[q] = cur[q] /\ todo'[q] = todo[q]
                            /\ \A k \in Keys : lock'[k] = q <=> lock[k] = q
  BY SettingsTypes
<1>5. \A k \in Keys : /\ Settings!ReadIsRight(page'[a][k], k)
                      /\ Settings!ReadIsRight(cur'[a][k], k)
  BY SettingsTypes DEF Settings!IInv
<1> QED
  BY <1>1, <1>3, <1>4, <1>5, SettingsQuiet

\* The page, the request, and the first reads.
LEMMA PageKeeps ==
    ASSUME Settings!SettingsAssumption, Settings!IInv, NEW a \in Proc,
           \/ Settings!LoadBooking(a) \/ Settings!LoadPricing(a)
           \/ Settings!Send(a) \/ Settings!ReadBooking(a)
    PROVE  Settings!IInv'
<1>0. /\ {"half", "page", "sent", "read"} \subseteq Settings!Pcs
      /\ Booking \in SUBSET Keys /\ Keys \ Booking \in SUBSET Keys
      /\ page[a] \in Seen /\ cur[a] \in Seen
      /\ \A k \in Keys : Settings!ReadIsRight(page[a][k], k) /\ Settings!ReadIsRight(cur[a][k], k)
  BY SettingsTypes DEF Settings!Pcs, Settings!IInv
<1>1. CASE Settings!LoadBooking(a)
  BY <1>0, <1>1, RefreshIsRight, SettingsReads DEF Settings!LoadBooking
<1>2. CASE Settings!LoadPricing(a)
  BY <1>0, <1>2, RefreshIsRight, SettingsReads DEF Settings!LoadPricing
<1>3. CASE Settings!Send(a)
  BY <1>0, <1>3, SettingsReads DEF Settings!Send
<1>4. CASE Settings!ReadBooking(a)
  BY <1>0, <1>4, RefreshIsRight, SettingsReads DEF Settings!ReadBooking
<1> QED
  BY <1>1, <1>2, <1>3, <1>4

\* What an answer leaves of a request.
LEMMA SettingsAnswer ==
    ASSUME Settings!SettingsAssumption, Settings!IInv, NEW a \in Proc, Settings!Answer(a)
    PROVE  /\ pc' \in [Proc -> Settings!Pcs] /\ page' \in [Proc -> Seen] /\ cur' \in [Proc -> Seen]
           /\ ask' \in [Proc -> [Keys -> Settings!Ask]] /\ todo' \in [Proc -> SUBSET Keys]
           /\ pc'[a] = "idle" /\ todo'[a] = {}
           /\ page'[a] = Settings!Unread /\ cur'[a] = Settings!Unread
           /\ \A q \in Proc \ {a} : /\ pc'[q] = pc[q] /\ page'[q] = page[q] /\ ask'[q] = ask[q]
                                    /\ cur'[q] = cur[q] /\ todo'[q] = todo[q]
<1>1. /\ Settings!Unread \in Seen /\ Settings!NoFields \in [Keys -> Settings!Ask]
      /\ {"idle"} \subseteq Settings!Pcs
  BY UnreadIsRight DEF Settings!NoFields, Settings!Ask, Settings!Pcs
<1> QED
  BY <1>1, SettingsTypes DEF Settings!Answer

\* The comparison with the page: a plan, or an answer.
LEMMA ReadPricingKeeps ==
    ASSUME Settings!SettingsAssumption, Settings!IInv, NEW a \in Proc, Settings!ReadPricing(a)
    PROVE  Settings!IInv'
<1> DEFINE seen == Settings!Refresh(Keys \ Booking, cur[a])
           planned == {k \in Settings!Asked(a) : ask[a][k] # seen[k].value}
<1>0. /\ pc[a] = "read" /\ UNCHANGED <<row, log, up, lock>>
      /\ page[a] \in Seen /\ cur[a] \in Seen /\ Keys \ Booking \in SUBSET Keys
      /\ \A k \in Keys : lock[k] # a
      /\ \A k \in Keys : Settings!ReadIsRight(page[a][k], k) /\ Settings!ReadIsRight(cur[a][k], k)
  BY SettingsTypes DEF Settings!ReadPricing, Settings!IInv, Settings!Writes
<1>1. seen \in Seen /\ \A k \in Keys : Settings!ReadIsRight(seen[k], k)
  BY <1>0, RefreshIsRight
<1>2. CASE Settings!Answer(a)
  <2>1. Settings!TypeOK'
    BY <1>0, <1>2, SettingsAnswer, SettingsTypes DEF Settings!TypeOK, Seen
  <2>2. Settings!Writes(a)'
    BY <1>0, <1>2, SettingsAnswer DEF Settings!Writes
  <2>3. \A k \in Keys : /\ Settings!ReadIsRight(page'[a][k], k)
                        /\ Settings!ReadIsRight(cur'[a][k], k)
    BY <1>2, SettingsAnswer, UnreadIsRight
  <2> QED
    BY <1>0, <1>2, <2>1, <2>2, <2>3, SettingsAnswer, SettingsQuiet
<1>3. CASE /\ \A k \in Settings!Asked(a) : page[a][k].version = seen[k].version
           /\ cur' = [cur EXCEPT ![a] = seen] /\ pc' = [pc EXCEPT ![a] = "tx"]
           /\ todo' = [todo EXCEPT ![a] = planned] /\ UNCHANGED <<page, ask>>
  <2> HIDE DEF seen
  <2>1. planned \in SUBSET Keys /\ {"tx"} \subseteq Settings!Pcs
    BY DEF Settings!Asked, Settings!Pcs
  <2>2. \A k \in planned : ask[a][k] \in Values /\ page[a][k].version = seen[k].version
    BY <1>3, SettingsTypes DEF Settings!Asked, Settings!Ask
  <2> HIDE DEF planned
  <2>3. /\ pc' \in [Proc -> Settings!Pcs] /\ cur' \in [Proc -> Seen]
        /\ todo' \in [Proc -> SUBSET Keys]
        /\ pc'[a] = "tx" /\ cur'[a] = seen /\ todo'[a] = planned
        /\ \A q \in Proc \ {a} : pc'[q] = pc[q] /\ cur'[q] = cur[q] /\ todo'[q] = todo[q]
    BY <1>1, <1>3, <2>1, SettingsTypes
  <2>4. Settings!TypeOK'
    BY <1>0, <1>3, <2>3, SettingsTypes DEF Settings!TypeOK, Seen
  <2>5. Settings!Writes(a)'
    BY <1>0, <1>3, <2>2, <2>3 DEF Settings!Writes
  <2>6. \A k \in Keys : /\ Settings!ReadIsRight(page'[a][k], k)
                        /\ Settings!ReadIsRight(cur'[a][k], k)
    BY <1>0, <1>1, <1>3, <2>3
  <2> QED
    BY <1>0, <1>3, <2>3, <2>4, <2>5, <2>6, SettingsQuiet
<1> QED
  BY <1>2, <1>3 DEF Settings!ReadPricing

\* A row is written: the first that is left, at the version that was read.
LEMMA WriteItemKeeps ==
    ASSUME Settings!SettingsAssumption, Settings!IInv, NEW a \in Proc, Settings!WriteItem(a)
    PROVE  Settings!IInv'
<1>1. PICK k \in todo[a] :
         /\ Settings!Turn(a, k) /\ lock[k] \in {None, a}
         /\ row[k].version = cur[a][k].version
         /\ lock' = [lock EXCEPT ![k] = a] /\ todo' = [todo EXCEPT ![a] = @ \ {k}]
  BY DEF Settings!WriteItem, Settings!Free
<1>2. /\ pc[a] = "tx" /\ UNCHANGED <<row, log, up, pc, page, ask, cur>>
      /\ k \in Keys /\ todo[a] \in SUBSET Keys /\ Keys \subseteq Nat /\ None \notin Proc
  BY SettingsTypes DEF Settings!WriteItem
<1>3. /\ lock' \in [Keys -> Proc \cup {None}] /\ todo' \in [Proc -> SUBSET Keys]
      /\ lock'[k] = a /\ \A j \in Keys \ {k} : lock'[j] = lock[j]
      /\ todo'[a] = todo[a] \ {k} /\ \A q \in Proc \ {a} : todo'[q] = todo[q]
  BY <1>1, <1>2, SettingsTypes
<1>4. Settings!TypeOK'
  BY <1>2, <1>3 DEF Settings!IInv, Settings!TypeOK
<1>5. Settings!Writes(a)'
  <2>1. Settings!Writes(a)
    BY DEF Settings!IInv
  <2>2. \A j \in todo'[a] : k < j
    BY <1>1, <1>2, <1>3 DEF Settings!Turn
  <2>3. \A h \in Keys : lock'[h] = a =>
           row[h].version = cur[a][h].version /\ \A j \in todo'[a] : h < j
    BY <1>1, <1>3, <2>1, <2>2 DEF Settings!Writes
  <2>4. \A h \in Keys : h \in todo'[a] \/ lock'[h] = a =>
           ask[a][h] \in Values /\ page[a][h].version = cur[a][h].version
    BY <1>1, <1>2, <1>3, <2>1 DEF Settings!Writes
  <2> QED
    BY <1>2, <2>3, <2>4 DEF Settings!Writes
<1>6. \A q \in Proc \ {a} : \A j \in Keys : lock'[j] = q <=> lock[j] = q
  BY <1>1, <1>2, <1>3
<1>7. \A j \in Keys : Settings!ReadIsRight(page'[a][j], j) /\ Settings!ReadIsRight(cur'[a][j], j)
  BY <1>2 DEF Settings!IInv
<1> QED
  BY <1>2, <1>3, <1>4, <1>5, <1>6, <1>7, SettingsQuiet

\* A transaction that fails releases its locks and changes nothing.
LEMMA AbortKeeps ==
    ASSUME Settings!SettingsAssumption, Settings!IInv, NEW a \in Proc, Settings!Abort(a)
    PROVE  Settings!IInv'
<1>1. Settings!Answer(a) /\ lock' = Settings!Released(a) /\ UNCHANGED <<row, log, up>>
  BY DEF Settings!Abort
<1>2. /\ lock' \in [Keys -> Proc \cup {None}] /\ \A k \in Keys : lock'[k] # a
      /\ \A q \in Proc \ {a} : \A k \in Keys : lock'[k] = q <=> lock[k] = q
  BY <1>1, SettingsTypes DEF Settings!Released
<1>3. Settings!TypeOK'
  BY <1>1, <1>2, SettingsAnswer, SettingsTypes DEF Settings!TypeOK, Seen
<1>4. Settings!Writes(a)'
  BY <1>1, <1>2, SettingsAnswer DEF Settings!Writes
<1>5. \A k \in Keys : Settings!ReadIsRight(page'[a][k], k) /\ Settings!ReadIsRight(cur'[a][k], k)
  BY <1>1, SettingsAnswer, UnreadIsRight
<1> QED
  BY <1>1, <1>2, <1>3, <1>4, <1>5, SettingsAnswer, SettingsQuiet

\* A commit: each row that was written gets its value and the next version, and the audit
\* an entry that begins with what was in effect.
LEMMA CommitKeeps ==
    ASSUME Settings!SettingsAssumption, Settings!IInv, NEW a \in Proc, Settings!Commit(a)
    PROVE  Settings!IInv'
<1> DEFINE mine == Settings!Mine(a)
<1>0. /\ pc[a] = "tx" /\ todo[a] = {} /\ up /\ up' = up
      /\ Settings!Answer(a) /\ lock' = Settings!Released(a) /\ Settings!Writes(a)
      /\ row' = [k \in Keys |-> IF k \in mine
                                THEN [value |-> ask[a][k], version |-> row[k].version + 1]
                                ELSE row[k]]
      /\ log' = [k \in Keys |-> IF k \in mine THEN Append(log[k], Settings!Changed(a, k))
                                ELSE log[k]]
  BY DEF Settings!Commit, Settings!IInv
<1>1. ASSUME NEW k \in mine
      PROVE  /\ k \in Keys /\ lock[k] = a /\ row[k] \in Settings!State
             /\ row[k].version \in Nat /\ ask[a][k] \in Values /\ ask[a][k] \in Int
             /\ ask[a][k] \in Valid
             /\ cur[a][k] \in Settings!State /\ cur[a][k].version = row[k].version
             /\ cur[a][k].value = Settings!InEffect(k)
             /\ Settings!Changed(a, k) \in Settings!Change
             /\ Settings!Changed(a, k).previousVersion = row[k].version
             /\ Settings!Changed(a, k).newVersion = row[k].version + 1
             /\ Settings!Changed(a, k).previousValue = Settings!InEffect(k)
             /\ Settings!Changed(a, k).newValue = ask[a][k]
             /\ row'[k] = [value |-> ask[a][k], version |-> row[k].version + 1]
             /\ log'[k] = Append(log[k], Settings!Changed(a, k))
  <2>1. k \in Keys /\ lock[k] = a
    BY DEF Settings!Mine
  <2>2. row[k] \in Settings!State /\ cur[a][k] \in Settings!State
    BY <2>1, SettingsTypes DEF Seen
  <2>3. ask[a][k] \in Values /\ cur[a][k].version = row[k].version
    BY <1>0, <2>1 DEF Settings!Writes
  <2>4. ask[a][k] \in Int /\ ask[a][k] \in Valid
    BY <2>3, SettingsTypes
  <2>5. cur[a][k].value = Settings!InEffect(k)
    BY <2>1, <2>3 DEF Settings!IInv, Settings!ReadIsRight
  <2>6. row[k].version \in Nat /\ cur[a][k].value \in Int
    BY <2>2 DEF Settings!State
  <2>7. /\ Settings!Changed(a, k) \in Settings!Change
        /\ Settings!Changed(a, k).previousVersion = row[k].version
        /\ Settings!Changed(a, k).newVersion = row[k].version + 1
        /\ Settings!Changed(a, k).previousValue = Settings!InEffect(k)
        /\ Settings!Changed(a, k).newValue = ask[a][k]
    BY <2>3, <2>4, <2>5, <2>6 DEF Settings!Changed, Settings!Change
  <2> QED
    BY <1>0, <2>1, <2>2, <2>3, <2>4, <2>5, <2>6, <2>7
<1>2. ASSUME NEW k \in Keys, k \notin mine PROVE row'[k] = row[k] /\ log'[k] = log[k]
  BY <1>0, <1>2
<1>3. ASSUME NEW k \in Keys
      PROVE  /\ row[k] \in Settings!State /\ row'[k] \in Settings!State
             /\ row'[k] = row[k] \/ row'[k].version > row[k].version
             /\ log[k] \in Seq(Settings!Change) /\ log'[k] \in Seq(Settings!Change)
  <2>0. row[k] \in Settings!State /\ log[k] \in Seq(Settings!Change)
    BY SettingsTypes DEF Seen
  <2>1. CASE k \in mine
    <3>1. /\ ask[a][k] \in Int /\ row[k].version \in Nat
          /\ row'[k] = [value |-> ask[a][k], version |-> row[k].version + 1]
      BY <1>1, <2>1
    <3>2. /\ Settings!Changed(a, k) \in Settings!Change
          /\ log'[k] = Append(log[k], Settings!Changed(a, k))
      BY <1>1, <2>1
    <3>3. row'[k] \in Settings!State /\ row'[k].version > row[k].version
      BY <3>1 DEF Settings!State
    <3>4. log'[k] \in Seq(Settings!Change)
      BY <2>0, <3>2, Appended
    <3> QED
      BY <2>0, <3>3, <3>4
  <2>2. CASE k \notin mine
    BY <1>2, <2>0, <2>2
  <2> QED
    BY <2>1, <2>2
<1> HIDE DEF mine
<1>4. /\ lock' \in [Keys -> Proc \cup {None}] /\ \A k \in Keys : lock'[k] # a
      /\ \A q \in Proc \ {a} : \A k \in Keys : lock'[k] = q <=> lock[k] = q
  BY <1>0, SettingsTypes DEF Settings!Released
<1>5. Settings!TypeOK'
  <2>1. row' \in [Keys -> Settings!State] /\ log' \in [Keys -> Seq(Settings!Change)]
    BY <1>0, <1>3
  <2> QED
    BY <1>0, <1>4, <2>1, SettingsAnswer, SettingsTypes DEF Settings!TypeOK, Seen
<1>6. ASSUME NEW q \in Proc \ {a} PROVE Settings!Writes(q)'
  <2>1. /\ pc'[q] = pc[q] /\ page'[q] = page[q] /\ ask'[q] = ask[q]
        /\ cur'[q] = cur[q] /\ todo'[q] = todo[q] /\ Settings!Writes(q)
        /\ \A k \in Keys : lock'[k] = q <=> lock[k] = q
    BY <1>0, <1>4, SettingsAnswer DEF Settings!IInv
  <2>2. \A k \in Keys : lock[k] = q => row'[k] = row[k]
    BY <1>2 DEF mine, Settings!Mine
  <2> QED
    BY <2>1, <2>2 DEF Settings!Writes
<1>7. \A q \in Proc : Settings!Writes(q)'
  <2>1. Settings!Writes(a)'
    BY <1>0, <1>4, SettingsAnswer DEF Settings!Writes
  <2> QED
    BY <1>6, <2>1
<1>8. Settings!NoWaitCycle'
  BY <1>5, <1>7, SettingsTypes, OrderPreventsCycles
<1>9. ASSUME NEW q \in Proc, NEW k \in Keys
      PROVE  Settings!ReadIsRight(page[q][k], k)' /\ Settings!ReadIsRight(cur[q][k], k)'
  <2>1. /\ page'[q] \in Seen /\ cur'[q] \in Seen
        /\ page'[q] \in {page[q], Settings!Unread} /\ cur'[q] \in {cur[q], Settings!Unread}
    BY <1>0, SettingsAnswer
  <2>2. Settings!ReadIsRight(page'[q][k], k) /\ Settings!ReadIsRight(cur'[q][k], k)
    BY <2>1, UnreadIsRight DEF Settings!IInv
  <2>3. page'[q][k] \in Settings!State /\ cur'[q][k] \in Settings!State
    BY <2>1 DEF Seen
  <2>4. row[k] \in Settings!State /\ (row'[k] = row[k] \/ row'[k].version > row[k].version)
        /\ row'[k] \in Settings!State
    BY <1>3
  <2>5. CASE row'[k] = row[k]
    BY <2>2, <2>5 DEF Settings!ReadIsRight, Settings!InEffect
  <2>6. CASE row'[k].version > row[k].version
    <3>1. /\ row[k].version \in Nat /\ row'[k].version \in Nat
          /\ page'[q][k].version \in Nat /\ cur'[q][k].version \in Nat
      BY <2>3, <2>4 DEF Settings!State
    <3>2. page'[q][k].version <= row[k].version /\ cur'[q][k].version <= row[k].version
      BY <2>2 DEF Settings!ReadIsRight
    <3>3. /\ page'[q][k].version < row'[k].version /\ cur'[q][k].version < row'[k].version
      BY <2>6, <3>1, <3>2
    <3> QED
      BY <3>1, <3>3 DEF Settings!ReadIsRight
  <2> QED
    BY <2>4, <2>5, <2>6
<1>10. ASSUME NEW k \in Keys
       PROVE  /\ row'[k].version = Stored[k].version + Len(log'[k])
              /\ \A i \in DOMAIN log'[k] :
                    /\ log'[k][i].previousVersion = Stored[k].version + i - 1
                    /\ log'[k][i].newVersion = Stored[k].version + i
                    /\ log'[k][i].previousValue =
                          IF i > 1 THEN log'[k][i - 1].newValue
                          ELSE IF Stored[k].version # 0 /\ Stored[k].value \in Valid
                               THEN Stored[k].value
                          ELSE EnvDefault[k]
              /\ log'[k] # <<>> => /\ row'[k].value = log'[k][Len(log'[k])].newValue
                                   /\ row'[k].value \in Valid
              /\ log'[k] = <<>> => row'[k] = Stored[k]
  <2>1. /\ row[k].version = Stored[k].version + Len(log[k])
        /\ \A i \in DOMAIN log[k] :
              /\ log[k][i].previousVersion = Stored[k].version + i - 1
              /\ log[k][i].newVersion = Stored[k].version + i
              /\ log[k][i].previousValue =
                    IF i > 1 THEN log[k][i - 1].newValue
                    ELSE IF Stored[k].version # 0 /\ Stored[k].value \in Valid
                         THEN Stored[k].value
                    ELSE EnvDefault[k]
        /\ log[k] # <<>> => /\ row[k].value = log[k][Len(log[k])].newValue
                            /\ row[k].value \in Valid
        /\ log[k] = <<>> => row[k] = Stored[k]
    BY DEF Settings!IInv, Settings!AuditIsHistory, Settings!AuditIsTrue, Settings!SetIsValid
  <2>2. CASE k \notin mine
    BY <1>2, <2>1, <2>2
  <2>3. CASE k \in mine
    <3> DEFINE n == Len(log[k])
               entry == Settings!Changed(a, k)
    <3>1. /\ n \in Nat /\ DOMAIN log[k] = 1 .. n /\ Len(log'[k]) = n + 1
          /\ DOMAIN log'[k] = 1 .. n + 1 /\ log'[k][n + 1] = entry
          /\ \A i \in 1 .. n : log'[k][i] = log[k][i]
      <4>1. /\ entry \in Settings!Change /\ log'[k] = Append(log[k], entry)
            /\ log[k] \in Seq(Settings!Change)
        BY <1>1, <1>3, <2>3
      <4> HIDE DEF entry
      <4> QED
        BY <4>1, Appended
    <3>2. /\ entry.previousVersion = row[k].version
          /\ entry.newVersion = row[k].version + 1
          /\ entry.previousValue = Settings!InEffect(k)
          /\ entry.newValue = ask[a][k] /\ ask[a][k] \in Valid
          /\ row'[k].value = ask[a][k] /\ row'[k].version = row[k].version + 1
          /\ row[k].version \in Nat
      <4>1. row'[k] = [value |-> ask[a][k], version |-> row[k].version + 1]
        BY <1>1, <2>3
      <4>2. row'[k].value = ask[a][k] /\ row'[k].version = row[k].version + 1
        BY <4>1
      <4> QED
        BY <1>1, <2>3, <4>2
    <3>3. Stored[k].version \in Nat
      BY SettingsTypes DEF Seen, Settings!State
    <3> HIDE DEF entry
    <3>4. log'[k] # <<>> /\ (n = 0 => log[k] = <<>>) /\ (n > 0 => log[k] # <<>>)
      BY <3>1, <1>3, EmptySeq
    <3>5. entry.previousValue =
             IF n + 1 > 1 THEN log'[k][n + 1 - 1].newValue
             ELSE IF Stored[k].version # 0 /\ Stored[k].value \in Valid THEN Stored[k].value
             ELSE EnvDefault[k]
      <4>1. CASE n = 0
        <5>1. row[k] = Stored[k]
          BY <2>1, <3>4, <4>1
        <5> QED
          BY <3>2, <4>1, <5>1 DEF Settings!InEffect
      <4>2. CASE n > 0
        <5>1. /\ row[k].value \in Valid /\ row[k].value = log[k][n].newValue
              /\ row[k].version # 0
          BY <2>1, <3>1, <3>3, <3>4, <4>2
        <5>2. log'[k][n + 1 - 1] = log[k][n] /\ n + 1 > 1
          BY <3>1, <4>2
        <5> QED
          BY <3>2, <5>1, <5>2 DEF Settings!InEffect
      <4> QED
        BY <3>1, <4>1, <4>2
    <3>6. ASSUME NEW i \in 1 .. n + 1
          PROVE  /\ log'[k][i].previousVersion = Stored[k].version + i - 1
                 /\ log'[k][i].newVersion = Stored[k].version + i
                 /\ log'[k][i].previousValue =
                       IF i > 1 THEN log'[k][i - 1].newValue
                       ELSE IF Stored[k].version # 0 /\ Stored[k].value \in Valid
                            THEN Stored[k].value
                       ELSE EnvDefault[k]
      <4>1. CASE i = n + 1
        <5>1. /\ log'[k][i].previousVersion = Stored[k].version + i - 1
              /\ log'[k][i].newVersion = Stored[k].version + i
          <6>1. row[k].version = Stored[k].version + n
            BY <2>1
          <6>2. /\ log'[k][i].previousVersion = row[k].version
                /\ log'[k][i].newVersion = row[k].version + 1
            BY <3>1, <3>2, <4>1
          <6>3. n \in Nat
            BY <3>1
          <6> HIDE DEF n
          <6>4. row[k].version = Stored[k].version + i - 1
            BY <3>3, <4>1, <6>1, <6>3
          <6>5. row[k].version + 1 = Stored[k].version + i
            BY <3>3, <4>1, <6>1, <6>3
          <6> QED
            BY <6>2, <6>4, <6>5
        <5> QED
          BY <3>1, <3>5, <4>1, <5>1
      <4>2. CASE i \in 1 .. n
        <5>1. i > 1 => log'[k][i - 1] = log[k][i - 1]
          BY <3>1, <4>2
        <5> QED
          BY <2>1, <3>1, <4>2, <5>1
      <4> QED
        BY <3>1, <4>1, <4>2
    <3>7. row'[k].version = Stored[k].version + Len(log'[k])
      BY <2>1, <3>1, <3>2, <3>3
    <3>8. row'[k].value = log'[k][Len(log'[k])].newValue /\ row'[k].value \in Valid
      BY <3>1, <3>2
    <3> QED
      BY <3>1, <3>4, <3>6, <3>7, <3>8
  <2> QED
    BY <2>2, <2>3
<1>11. Settings!AuditIsHistory' /\ Settings!AuditIsTrue' /\ Settings!SetIsValid'
  BY <1>10 DEF Settings!AuditIsHistory, Settings!AuditIsTrue, Settings!SetIsValid
<1> QED
  BY <1>5, <1>7, <1>8, <1>9, <1>11 DEF Settings!IInv

\* The database goes away and comes back.
LEMMA ToggleKeeps ==
    ASSUME Settings!SettingsAssumption, Settings!IInv,
           UNCHANGED <<row, log, lock, pc, page, ask, cur, todo>>, up' \in BOOLEAN
    PROVE  Settings!IInv'
<1>1. Settings!TypeOK'
  BY DEF Settings!IInv, Settings!TypeOK
<1>2. \A q \in Proc : Settings!Writes(q)'
  BY DEF Settings!IInv, Settings!Writes
<1>3. Settings!NoWaitCycle'
  BY <1>1, <1>2, SettingsTypes, OrderPreventsCycles
<1>4. Settings!AuditIsHistory' /\ Settings!AuditIsTrue' /\ Settings!SetIsValid'
  BY DEF Settings!IInv, Settings!AuditIsHistory, Settings!AuditIsTrue, Settings!SetIsValid
<1>5. \A q \in Proc, k \in Keys :
         Settings!ReadIsRight(page[q][k], k)' /\ Settings!ReadIsRight(cur[q][k], k)'
  BY DEF Settings!IInv, Settings!ReadIsRight, Settings!InEffect
<1> QED
  BY <1>1, <1>2, <1>3, <1>4, <1>5 DEF Settings!IInv

\* The invariant holds at first.
LEMMA SettingsInit ==
    ASSUME Settings!SettingsAssumption, Settings!Init
    PROVE  Settings!IInv
<1>0. /\ row = Stored /\ log = [k \in Keys |-> <<>>] /\ up = TRUE
      /\ lock = [k \in Keys |-> None] /\ pc = [a \in Proc |-> "idle"]
      /\ page = [a \in Proc |-> Settings!Unread] /\ ask = [a \in Proc |-> Settings!NoFields]
      /\ cur = [a \in Proc |-> Settings!Unread] /\ todo = [a \in Proc |-> {}]
      /\ Stored \in [Keys -> Settings!State] /\ EnvDefault \in [Keys -> Int] /\ None \notin Proc
  BY DEF Settings!Init, Settings!SettingsAssumption, Settings!State
<1>1. /\ Settings!Unread \in [Keys -> Settings!State]
      /\ Settings!NoFields \in [Keys -> Settings!Ask]
  BY <1>0 DEF Settings!Unread, Settings!State, Settings!NoFields, Settings!Ask
<1>2. log \in [Keys -> Seq(Settings!Change)]
  BY <1>0, EmptySeq
<1>3. Settings!TypeOK
  BY <1>0, <1>1, <1>2 DEF Settings!TypeOK, Settings!Pcs
<1>4. \A a \in Proc, k \in Keys : /\ Settings!ReadIsRight(page[a][k], k)
                                  /\ Settings!ReadIsRight(cur[a][k], k)
  BY <1>0 DEF Settings!ReadIsRight, Settings!InEffect, Settings!Unread, Settings!State
<1>5. \A a \in Proc : Settings!Writes(a)
  BY <1>0 DEF Settings!Writes
<1>6. Settings!NoWaitCycle
  BY <1>0 DEF Settings!NoWaitCycle
<1>7. \A k \in Keys : log[k] = <<>> /\ Len(log[k]) = 0 /\ DOMAIN log[k] = {}
                      /\ row[k].version \in Nat
  BY <1>0, EmptySeq DEF Settings!State
<1>8. Settings!AuditIsHistory /\ Settings!AuditIsTrue /\ Settings!SetIsValid
  BY <1>0, <1>7 DEF Settings!AuditIsHistory, Settings!AuditIsTrue, Settings!SetIsValid
<1> QED
  BY <1>3, <1>4, <1>5, <1>6, <1>8 DEF Settings!IInv

\* The invariant of RuntimeSettings holds at first and is kept by every step.
LEMMA SettingsInductive ==
    ASSUME Settings!SettingsAssumption
    PROVE  /\ Settings!Init => Settings!IInv
           /\ Settings!IInv /\ [Settings!Next]_settingsVars => Settings!IInv'
<1>1. ASSUME Settings!IInv, Settings!Next PROVE Settings!IInv'
  <2>1. CASE Settings!Toggle
    <3>1. up' \in BOOLEAN /\ UNCHANGED <<row, log, lock, pc, page, ask, cur, todo>>
      BY <2>1, <1>1, SettingsTypes DEF Settings!Toggle
    <3> QED
      BY <3>1, <1>1, ToggleKeeps
  <2>2. CASE \E a \in Proc : Settings!Step(a)
    BY <2>2, <1>1, PageKeeps, ReadPricingKeeps, WriteItemKeeps, AbortKeeps, CommitKeeps
       DEF Settings!Step, Settings!Serve
  <2> QED
    BY <1>1, <2>1, <2>2 DEF Settings!Next
<1>2. ASSUME Settings!IInv, UNCHANGED settingsVars PROVE Settings!IInv'
  <2>1. up' \in BOOLEAN /\ UNCHANGED <<row, log, lock, pc, page, ask, cur, todo>>
    BY <1>2, SettingsTypes DEF settingsVars
  <2> QED
    BY <1>2, <2>1, ToggleKeeps
<1> QED
  BY <1>1, <1>2, SettingsInit

\* Only a commit changes a setting, from the value and the version that its page showed.
LEMMA NothingLost ==
    ASSUME Settings!SettingsAssumption, Settings!IInv, Settings!Next,
           NEW k \in Keys, row'[k] # row[k]
    PROVE  \E a \in Proc : /\ pc[a] = "tx" /\ pc'[a] = "idle"
                           /\ row'[k].value = ask[a][k]
                           /\ page[a][k].version = row[k].version
                           /\ page[a][k].value = Settings!resolveFieldState(k).value
<1>1. PICK a \in Proc : Settings!Commit(a)
  BY DEF Settings!Next, Settings!Step, Settings!Serve, Settings!LoadBooking,
     Settings!LoadPricing, Settings!Send, Settings!ReadBooking, Settings!ReadPricing,
     Settings!WriteItem, Settings!Abort, Settings!Toggle
<1>2. pc[a] = "tx" /\ up /\ pc'[a] = "idle"
  BY <1>1, SettingsAnswer DEF Settings!Commit
<1>3. lock[k] = a /\ row'[k].value = ask[a][k]
  BY <1>1 DEF Settings!Commit, Settings!Mine
<1>4. page[a][k].version = cur[a][k].version /\ row[k].version = cur[a][k].version
  BY <1>2, <1>3 DEF Settings!IInv, Settings!Writes
<1>5. page[a][k].value = Settings!InEffect(k)
  BY <1>4 DEF Settings!IInv, Settings!ReadIsRight
<1> QED
  BY <1>2, <1>3, <1>4, <1>5, ResolvedIsRight

-----------------------------------------------------------------------------
(* All parts.                                                              *)

\* The invariants of all parts; those at rest are in their initial state.
AllInvariants ==
    /\ Verification!IInv /\ Sessions!IInv /\ Google!IInv /\ Limiter!IInv /\ Settings!IInv

\* Every part keeps its invariant, by its own steps and those of the others.
LEMMA AccountsInductive ==
    /\ Init => AllInvariants
    /\ AllInvariants /\ [Next]_all => AllInvariants'
<1>a. /\ Verification!VerificationAssumption /\ Sessions!SessionsAssumption
      /\ Google!GoogleAssumption /\ Limiter!RateLimitAssumption /\ Settings!SettingsAssumption
  BY AccountsAssumption
<1>1. Init => AllInvariants
  BY <1>a, EmailInductive, SessionsInductive, GoogleInductive, LimiterInductive,
     SettingsInductive DEF Init, AllInvariants
<1>2. ASSUME AllInvariants, [Next]_all PROVE AllInvariants'
  <2>1. /\ [Verification!Next]_emailVars /\ [Sessions!Next]_sessionVars
        /\ [Google!Next]_googleVars /\ [Limiter!Next]_limiterVars
        /\ [Settings!Next]_settingsVars
    BY <1>2 DEF Next, all
  <2> QED
    BY <1>a, <1>2, <2>1, EmailInductive, SessionsInductive, GoogleInductive, LimiterInductive,
       SettingsInductive DEF AllInvariants
<1> QED
  BY <1>1, <1>2

\* In every behaviour, of the code of any part, its invariant holds.
THEOREM AccountsInvariant == Spec => []AllInvariants
<1>1. Init => AllInvariants
  BY AccountsInductive
<1>2. AllInvariants /\ [Next]_all => AllInvariants'
  BY AccountsInductive
<1> QED
  BY <1>1, <1>2, PTL DEF Spec

\* However many handlers send, guess and reset at a time and whatever the limits are: an
\* address is verified with an open code of its own only, a code of a reset is exchanged for
\* one token, a token is answered with success once, and the password changes with it once
\* more only for each other request that had looked at it by then (AuthService: signup,
\* verifyEmail, resendOtp, forgotPassword, verifyPasswordResetOtp, resetPassword).
THEOREM CodesAreSingleUseAlways == Spec => []CodesAreSingleUse
<1>1. ASSUME AllInvariants PROVE CodesAreSingleUse
  <2>1. Verification!TypeOK /\ Sessions!TypeOK
    BY <1>1, AccountsAssumption, EmailTypeOK, SessionsTypeOK DEF AllInvariants
  <2>2. Sessions!TokenChangesOnce /\ Sessions!UsedUp
    BY <1>1, AccountsAssumption, TokensAreUsedUp DEF AllInvariants
  <2> QED
    BY <1>1, <2>1, <2>2 DEF AllInvariants, CodesAreSingleUse, Verification!IInv, Sessions!IInv
<1>2. AllInvariants => CodesAreSingleUse
  BY <1>1
<1> QED
  BY <1>2, AccountsInvariant, PTL

\* A Google account opens the sessions of one user only, however many of its logins race
\* each other, signups, verifications and suspensions (loginWithGoogle).
THEOREM OneUserPerAccountAlways == Spec => []OneUserPerAccount
<1>1. ASSUME AllInvariants PROVE OneUserPerAccount
  <2>1. Google!TypeOK
    BY <1>1 DEF AllInvariants, Google!IInv, Google!TypeOK, Google!Shape, Google!Knows
  <2> QED
    BY <1>1, <2>1 DEF AllInvariants, OneUserPerAccount, Google!IInv
<1>2. AllInvariants => OneUserPerAccount
  BY <1>1
<1> QED
  BY <1>2, AccountsInvariant, PTL

\* A limiter keeps its word for windows of every length and every limit, in whatever order
\* requests of any number of keys come (createRateLimiter and its memory store).
THEOREM LimitIsExactAlways == Spec => []LimitIsExact
<1>1. AllInvariants => LimitIsExact
  BY DEF AllInvariants, LimitIsExact, Limiter!IInv
<1> QED
  BY <1>1, AccountsInvariant, PTL

\* Of the settings nothing is lost, nothing is invented and nobody waits in a circle, for
\* every set of settings and any number of administrators, also while the database comes and
\* goes (RuntimeSettingsService).
THEOREM ChangesAreAccountedForAlways == Spec => ChangesAreAccountedFor
<1> DEFINE Accounted == part = "settings" =>
                         /\ Settings!TypeOK
                         /\ Settings!AuditIsHistory
                         /\ Settings!AuditIsTrue
                         /\ Settings!NoWaitCycle
           Change == \A k \in Keys : row'[k] # row[k] =>
                         \E a \in Proc : /\ pc[a] = "tx" /\ pc'[a] = "idle"
                                         /\ row'[k].value = ask[a][k]
                                         /\ page[a][k].version = row[k].version
                                         /\ page[a][k].value = Settings!resolveFieldState(k).value
<1>1. AllInvariants => Accounted
  BY DEF AllInvariants, Settings!IInv
<1>2. AllInvariants /\ [Next]_all => [Change]_(Settings!vars)
  <2> SUFFICES ASSUME AllInvariants, [Next]_all, Settings!vars' # Settings!vars,
                      NEW k \in Keys, row'[k] # row[k]
               PROVE  \E a \in Proc : /\ pc[a] = "tx" /\ pc'[a] = "idle"
                                      /\ row'[k].value = ask[a][k]
                                      /\ page[a][k].version = row[k].version
                                      /\ page[a][k].value = Settings!resolveFieldState(k).value
    OBVIOUS
  <2>1. Settings!Next
    BY DEF Next, all, settingsVars
  <2> QED
    BY <2>1, AccountsAssumption, NothingLost DEF AllInvariants
<1>3. Spec => []Accounted
  BY <1>1, AccountsInvariant, PTL
<1>4. Spec => [][Change]_(Settings!vars)
  BY <1>2, AccountsInvariant, PTL DEF Spec
<1> QED
  BY <1>3, <1>4 DEF ChangesAreAccountedFor, Settings!NoLostUpdate
=============================================================================
