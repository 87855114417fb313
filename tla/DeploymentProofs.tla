-------------------------- MODULE DeploymentProofs --------------------------
(***************************************************************************)
(* Proofs about an installation: the identity of the servers, for which    *)
(* nothing is assumed of the documents; types, with the number of          *)
(* identities that may ever be made; the way of the answers from the       *)
(* dialogue through the document to the server.                            *)
(***************************************************************************)
EXTENDS Deployment, FiniteSetTheorems, TLAPS

Up == {"serve"} \cup Running

\* The part of the types that the argument needs.
IdType ==
  /\ pc \in [Procs -> {"off", "prepare", "find", "serve"} \cup Creating \cup Running]
  /\ id \in [Procs -> Nat]
  /\ idFile \in {None, Torn} \cup Nat
  /\ count \in Nat
  /\ raced \in BOOLEAN /\ spoilt \in BOOLEAN

\* As long as no two servers were creating the identity at once, and none took a
\* whole one for unreadable: one server creates it, from a file that holds none,
\* and every server that is past that has what the file holds.
Alone ==
  /\ \A p, q \in Procs : pc[p] \in Creating /\ pc[q] \in Creating => p = q
  /\ \A p \in Procs : pc[p] \in Creating => idFile \in {None, Torn}
  /\ \A p \in Procs : pc[p] \in Up => idFile = id[p]

IdInv == IdType /\ (~raced /\ ~spoilt => Alone)

LEMMA IdInvInit == Init => IdInv
  <1> SUFFICES ASSUME Init PROVE IdInv
    OBVIOUS
  <1>1. IdType
    BY DEF Init, IdType
  <1>2. \A p \in Procs : pc[p] \notin Creating \cup Up
    BY DEF Init, Creating, Up, Running
  <1> QED
    BY <1>1, <1>2 DEF IdInv, Alone

\* A step that leaves the file alone, and starts nothing, keeps the invariant:
\* every server stays where it is or leaves for a place of which nothing is asked.
LEMMA Retreat ==
  ASSUME IdInv, NEW p \in Procs, NEW s \in {"off", "prepare", "find"}, Go(p, s),
         id' \in [Procs -> Nat], \A q \in Procs \ {p} : id'[q] = id[q],
         idFile' = idFile, count' \in Nat, raced' = raced, spoilt' = spoilt
  PROVE  IdInv'
  <1>1. pc \in [Procs -> {"off", "prepare", "find", "serve"} \cup Creating \cup Running]
    BY DEF IdInv, IdType
  <1>2. pc'[p] = s /\ \A q \in Procs \ {p} : pc'[q] = pc[q]
    BY <1>1 DEF Go
  <1>3. s \notin Creating \cup Up
    BY DEF Creating, Up, Running
  <1>4. IdType'
    BY <1>1 DEF IdInv, IdType, Go
  <1>5. ASSUME Alone PROVE Alone'
    BY <1>2, <1>3, <1>5 DEF Alone
  <1> QED
    BY <1>4, <1>5 DEF IdInv

LEMMA IdInvFrame ==
  ASSUME IdInv, UNCHANGED <<pc, id, idFile, count, raced, spoilt>>
  PROVE  IdInv'
  BY DEF IdInv, IdType, Alone

LEMMA ExitKeeps ==
  ASSUME IdInv, NEW p \in Procs, Exit(p), idFile' = idFile, count' = count, raced' = raced, spoilt' = spoilt
  PROVE  IdInv'
  <1>1. id \in [Procs -> Nat] /\ count \in Nat
    BY DEF IdInv, IdType
  <1>2. id' \in [Procs -> Nat] /\ \A q \in Procs \ {p} : id'[q] = id[q]
    BY <1>1 DEF Exit
  <1>3. Go(p, "off") /\ count' \in Nat
    BY <1>1 DEF Exit
  <1> QED
    BY <1>2, <1>3, Retreat

LEMMA FindKeeps ==
  ASSUME IdInv, NEW p \in Procs, Find(p)
  PROVE  IdInv'
  <1>1. /\ pc \in [Procs -> {"off", "prepare", "find", "serve"} \cup Creating \cup Running]
        /\ id \in [Procs -> Nat]
        /\ idFile \in {None, Torn} \cup Nat
        /\ raced \in BOOLEAN /\ spoilt \in BOOLEAN
    BY DEF IdInv, IdType
  <1>2. idFile' = idFile /\ count' = count /\ pc[p] = "find"
    BY DEF Find
  <1>3. CASE idFile \notin {None, Torn} /\ id' = [id EXCEPT ![p] = idFile] /\ Go(p, "serve")
             /\ UNCHANGED <<raced, spoilt>>
    <2>1. IdType'
      BY <1>1, <1>2, <1>3 DEF IdInv, IdType, Go
    <2>2. ASSUME Alone PROVE Alone'
      <3>1. pc'[p] = "serve" /\ id'[p] = idFile
        BY <1>1, <1>3 DEF Go
      <3>2. \A q \in Procs \ {p} : pc'[q] = pc[q] /\ id'[q] = id[q]
        BY <1>1, <1>3 DEF Go
      <3>3. "serve" \notin Creating
        BY DEF Creating
      <3> QED
        BY <1>2, <2>2, <3>1, <3>2, <3>3 DEF Alone
    <2> QED
      BY <1>3, <2>1, <2>2 DEF IdInv
  <1>4. CASE /\ Go(p, "generate") /\ UNCHANGED id
             /\ raced' = (raced \/ \E q \in Procs : pc[q] \in Creating)
             /\ spoilt' = (spoilt \/ idFile \notin {None, Torn})
    <2>1. IdType'
      BY <1>1, <1>2, <1>4 DEF IdInv, IdType, Go, Creating
    <2>2. ASSUME ~raced', ~spoilt' PROVE Alone'
      <3>1. Alone /\ (\A q \in Procs : pc[q] \notin Creating) /\ idFile \in {None, Torn}
        BY <1>4, <2>2 DEF IdInv
      <3>2. pc'[p] = "generate" /\ \A q \in Procs \ {p} : pc'[q] = pc[q]
        BY <1>1, <1>4 DEF Go
      <3>3. "generate" \notin Up
        BY DEF Up, Running
      <3> QED
        BY <1>2, <1>4, <3>1, <3>2, <3>3 DEF Alone
    <2> QED
      BY <2>1, <2>2 DEF IdInv
  <1> QED
    BY <1>3, <1>4 DEF Find

LEMMA GenerateKeeps ==
  ASSUME IdInv, NEW p \in Procs, Generate(p)
  PROVE  IdInv'
  <1>1. /\ pc \in [Procs -> {"off", "prepare", "find", "serve"} \cup Creating \cup Running]
        /\ id \in [Procs -> Nat] /\ count \in Nat
    BY DEF IdInv, IdType
  <1>2. idFile' = idFile /\ raced' = raced /\ spoilt' = spoilt /\ pc[p] = "generate"
    BY DEF Generate
  <1>3. CASE Exit(p) /\ UNCHANGED count
    BY <1>2, <1>3, ExitKeeps
  <1>4. CASE Go(p, "open") /\ count' = count + 1 /\ id' = [id EXCEPT ![p] = count']
    <2>1. IdType'
      BY <1>1, <1>2, <1>4 DEF IdInv, IdType, Go, Creating
    <2>2. ASSUME Alone PROVE Alone'
      <3>1. pc'[p] = "open" /\ \A q \in Procs \ {p} : pc'[q] = pc[q] /\ id'[q] = id[q]
        BY <1>1, <1>4 DEF Go
      <3>2. pc[p] \in Creating /\ "open" \in Creating /\ "open" \notin Up
        BY <1>2 DEF Creating, Up, Running
      <3> QED
        BY <1>2, <2>2, <3>1, <3>2 DEF Alone
    <2> QED
      BY <1>2, <2>1, <2>2 DEF IdInv
  <1> QED
    BY <1>3, <1>4 DEF Generate

LEMMA OpenKeeps ==
  ASSUME IdInv, NEW p \in Procs, OpenIdentity(p)
  PROVE  IdInv'
  <1>1. /\ pc \in [Procs -> {"off", "prepare", "find", "serve"} \cup Creating \cup Running]
        /\ id \in [Procs -> Nat]
    BY DEF IdInv, IdType
  <1>2. count' = count /\ raced' = raced /\ spoilt' = spoilt /\ pc[p] = "open"
    BY DEF OpenIdentity
  <1>3. CASE Exit(p) /\ UNCHANGED idFile
    BY <1>2, <1>3, ExitKeeps
  <1>4. CASE Go(p, "write") /\ idFile' = Torn /\ UNCHANGED id
    <2>1. IdType'
      BY <1>1, <1>2, <1>4 DEF IdInv, IdType, Go, Creating
    <2>2. ASSUME Alone PROVE Alone'
      <3>1. pc'[p] = "write" /\ \A q \in Procs \ {p} : pc'[q] = pc[q]
        BY <1>1, <1>4 DEF Go
      <3>2. pc[p] \in Creating /\ "write" \in Creating /\ "write" \notin Up
        BY <1>2 DEF Creating, Up, Running
      <3>3. \A q \in Procs : pc[q] \notin Up
        BY <1>1, <2>2, <3>2, DeploymentAssumption DEF Alone
      <3> QED
        BY <1>4, <2>2, <3>1, <3>2, <3>3 DEF Alone
    <2> QED
      BY <1>2, <2>1, <2>2 DEF IdInv
  <1> QED
    BY <1>3, <1>4 DEF OpenIdentity

LEMMA WriteKeeps ==
  ASSUME IdInv, NEW p \in Procs, WriteIdentity(p)
  PROVE  IdInv'
  <1>1. /\ pc \in [Procs -> {"off", "prepare", "find", "serve"} \cup Creating \cup Running]
        /\ id \in [Procs -> Nat]
    BY DEF IdInv, IdType
  <1>2. count' = count /\ raced' = raced /\ spoilt' = spoilt /\ pc[p] = "write"
    BY DEF WriteIdentity
  <1>3. CASE Exit(p) /\ UNCHANGED idFile
    BY <1>2, <1>3, ExitKeeps
  <1>4. CASE Go(p, "serve") /\ idFile' = id[p] /\ UNCHANGED id
    <2>1. IdType'
      BY <1>1, <1>2, <1>4 DEF IdInv, IdType, Go
    <2>2. ASSUME Alone PROVE Alone'
      <3>1. pc'[p] = "serve" /\ \A q \in Procs \ {p} : pc'[q] = pc[q]
        BY <1>1, <1>4 DEF Go
      <3>2. pc[p] \in Creating /\ "serve" \notin Creating
        BY <1>2 DEF Creating
      <3>3. \A q \in Procs : pc[q] \notin Up
        BY <1>1, <2>2, <3>2, DeploymentAssumption DEF Alone
      <3> QED
        BY <1>4, <2>2, <3>1, <3>2, <3>3 DEF Alone
    <2> QED
      BY <1>2, <2>1, <2>2 DEF IdInv
  <1> QED
    BY <1>3, <1>4 DEF WriteIdentity

LEMMA ServeKeeps ==
  ASSUME IdInv, NEW p \in Procs, Serve(p)
  PROVE  IdInv'
  <1>1. /\ pc \in [Procs -> {"off", "prepare", "find", "serve"} \cup Creating \cup Running]
        /\ id \in [Procs -> Nat]
    BY DEF IdInv, IdType
  <1>2. UNCHANGED <<idFile, count, raced, spoilt>> /\ pc[p] = "serve"
    BY DEF Serve
  <1>3. CASE Exit(p)
    BY <1>2, <1>3, ExitKeeps
  <1>4. ASSUME NEW s \in Running, Go(p, s), UNCHANGED id
        PROVE  IdInv'
    <2>1. s \in Up /\ s \notin Creating /\ pc[p] \in Up
      BY <1>2 DEF Up, Running, Creating
    <2>2. IdType'
      BY <1>1, <1>2, <1>4 DEF IdInv, IdType, Go
    <2>3. ASSUME Alone PROVE Alone'
      <3>1. pc'[p] = s /\ \A q \in Procs \ {p} : pc'[q] = pc[q]
        BY <1>1, <1>4 DEF Go
      <3> QED
        BY <1>2, <1>4, <2>1, <2>3, <3>1 DEF Alone
    <2> QED
      BY <1>2, <2>2, <2>3 DEF IdInv
  <1>5. Listens(conf[p]) \in Running /\ "deaf" \in Running
    BY DEF Listens, Running
  <1>6. Exit(p) \/ (UNCHANGED id /\ \E s \in {"deaf", Listens(conf[p])} : Go(p, s))
    BY DEF Serve
  <1> QED
    BY <1>3, <1>4, <1>5, <1>6

LEMMA IdInvNext == IdInv /\ [Next]_vars => IdInv'
  <1> SUFFICES ASSUME IdInv, [Next]_vars PROVE IdInv'
    OBVIOUS
  <1>1. CASE Wizard
    BY <1>1, IdInvFrame
    DEF Wizard, Setup, Reply, EndOfInput, Stat, Overwrite, Truncate, Fill, KillSetup, Others, server
  <1>2. ASSUME NEW p \in Procs, Server(p) PROVE IdInv'
    <2>0. id \in [Procs -> Nat] /\ count \in Nat
      BY DEF IdInv, IdType
    <2>1. CASE LoadConfig(p)
      BY <2>0, <2>1, Retreat DEF LoadConfig
    <2>2. CASE Prepare(p)
      <3>1. CASE Go(p, "find") /\ UNCHANGED id
        BY <2>0, <2>2, <3>1, Retreat DEF Prepare
      <3>2. CASE Exit(p)
        BY <2>2, <3>2, ExitKeeps DEF Prepare
      <3> QED
        BY <2>2, <3>1, <3>2 DEF Prepare
    <2>3. CASE End(p)
      BY <2>3, ExitKeeps DEF End
    <2> QED
      BY <1>2, <2>1, <2>2, <2>3, FindKeeps, GenerateKeeps, OpenKeeps, WriteKeeps, ServeKeeps DEF Server
  <1>3. CASE UNCHANGED vars
    BY <1>3, IdInvFrame DEF vars, server
  <1> QED
    BY <1>1, <1>2, <1>3 DEF Next

\* Whatever fails or is killed on the way, and however often: every server that is
\* up has the identity of the file, if none raced another to create it and none
\* took a whole file for unreadable.
THEOREM OneIdentity == Spec => []IdentityReused
  <1>1. IdInv => IdentityReused
    BY DEF IdInv, Alone, IdentityReused, Up
  <1> QED
    BY <1>1, IdInvInit, IdInvNext, PTL DEF Spec
-----------------------------------------------------------------------------
\* Sets of numbers: one that has with each all smaller ones is an interval, so one
\* that is not empty has a least element.
LEMMA Interval ==
  ASSUME NEW n \in Nat, NEW D \in SUBSET (1..n), \A i \in D : \A j \in 1..i : j \in D
  PROVE  \E d \in 0..n : D = 1..d
  <1>1. IsFiniteSet(1..n) /\ Cardinality(1..n) = n
    BY FS_Interval
  <1>2. IsFiniteSet(D) /\ Cardinality(D) <= n
    BY <1>1, FS_Subset
  <1>3. PICK d \in 0..n : d = Cardinality(D)
    BY <1>2, FS_CardinalityType
  <1>4. IsFiniteSet(1..d) /\ Cardinality(1..d) = d /\ Cardinality(1..(d + 1)) = d + 1
    BY FS_Interval
  <1>5. d + 1 \notin D
    <2> SUFFICES ASSUME d + 1 \in D PROVE FALSE
      OBVIOUS
    <2>1. 1..(d + 1) \in SUBSET D
      OBVIOUS
    <2>2. Cardinality(1..(d + 1)) <= Cardinality(D)
      BY <1>2, <2>1, FS_Subset
    <2> QED
      BY <1>3, <1>4, <2>2
  <1>6. D \in SUBSET (1..d)
    <2> SUFFICES ASSUME NEW i \in D, i > d PROVE FALSE
      OBVIOUS
    <2>1. d + 1 \in 1..i
      OBVIOUS
    <2> QED
      BY <1>5, <2>1
  <1>7. D = 1..d
    BY <1>3, <1>4, <1>6, FS_Subset
  <1> QED
    BY <1>7, Zenon

LEMMA Least ==
  ASSUME NEW n \in Nat, NEW S \in SUBSET (1..n), S # {}
  PROVE  \E i \in S : \A j \in S : i <= j
  <1> DEFINE D == {i \in 1..n : \A j \in 1..i : j \notin S}
  <1>1. D \in SUBSET (1..n) /\ \A i \in D : \A j \in 1..i : j \in D
    OBVIOUS
  <1>2. PICK d \in 0..n : D = 1..d
    <2> HIDE DEF D
    <2> QED
      BY <1>1, Interval
  <1>3. \A j \in S : j > d
    BY <1>2
  <1>4. d < n
    <2>1. PICK j \in S : TRUE
      OBVIOUS
    <2> QED
      BY <1>3, <2>1
  <1>5. d + 1 \notin D
    BY <1>2
  <1>6. d + 1 \in S
    <2>1. PICK j \in 1..d + 1 : j \in S
      BY <1>4, <1>5
    <2> QED
      BY <1>3, <2>1
  <1> QED
    BY <1>3, <1>6

LEMMA QuestionsTyped == DOMAIN Questions = 1..25 /\ DOMAIN Blank = {Questions[j] : j \in 1..25}
  BY DEF Questions, Blank

\* The first open question after the one that was answered, or the end.
LEMMA NextIs ==
  ASSUME NEW a
  PROVE  LET open == {i \in 1..25 : Asked(Questions[i], a) /\ \E j \in 1..i - 1 : Questions[j] = step} IN
         \/ open = {} /\ NextQuestion(a) = "stat"
         \/ \E i \in open : NextQuestion(a) = Questions[i] /\ \A j \in open : i <= j
  <1> DEFINE open == {i \in 1..25 : Asked(Questions[i], a) /\ \E j \in 1..i - 1 : Questions[j] = step}
             first == CHOOSE i \in open : \A j \in open : i <= j
  <1>1. NextQuestion(a) = IF open = {} THEN "stat" ELSE Questions[first]
    BY QuestionsTyped DEF NextQuestion
  <1>2. open \in SUBSET (1..25)
    OBVIOUS
  <1> HIDE DEF open
  <1>3. open # {} => first \in open /\ \A j \in open : first <= j
    BY <1>2, Least
  <1> HIDE DEF first
  <1>4. \/ open = {} /\ NextQuestion(a) = "stat"
        \/ \E i \in open : NextQuestion(a) = Questions[i] /\ \A j \in open : i <= j
    BY <1>1, <1>3
  <1> QED
    BY <1>4 DEF open

LEMMA NextTyped ==
  ASSUME NEW a
  PROVE  NextQuestion(a) \in {"stat"} \cup DOMAIN Blank
  <1>1. NextQuestion(a) = "stat" \/ \E i \in 1..25 : NextQuestion(a) = Questions[i]
    BY NextIs
  <1> QED
    BY <1>1, QuestionsTyped

\* The servers that may yet come to create an identity.  Each start makes at most
\* one, whatever fails.
Early == {p \in Procs : pc[p] \in {"prepare", "find", "generate"}}
Places == {"off", "prepare", "find", "serve"} \cup Creating \cup Running
Named == {"open", "write", "serve"} \cup Running

TypeInv ==
  /\ TypeOK
  /\ DOMAIN conf = Procs
  /\ id \in [Procs -> Nat]
  /\ Cardinality(Early) + count <= starts

LEMMA EarlyFinite == IsFiniteSet(Early) /\ Cardinality(Early) \in Nat
  <1>1. Early \subseteq Procs
    BY DEF Early
  <1>2. IsFiniteSet(Procs)
    BY DeploymentAssumption
  <1> QED
    BY <1>1, <1>2, FS_Subset, FS_CardinalityType

\* What a move of one server does to their number.
LEMMA EarlyMove ==
  ASSUME pc \in [Procs -> Places], NEW p \in Procs, NEW s, Go(p, s)
  PROVE  /\ Cardinality(Early') \in Nat
         /\ s \notin {"prepare", "find", "generate"} => Cardinality(Early') <= Cardinality(Early)
         /\ p \in Early /\ s \in {"prepare", "find", "generate"} => Cardinality(Early') = Cardinality(Early)
         /\ p \in Early /\ s \notin {"prepare", "find", "generate"} => Cardinality(Early') = Cardinality(Early) - 1
         /\ Cardinality(Early') <= Cardinality(Early) + 1
  <1>1. pc'[p] = s /\ DOMAIN pc' = Procs /\ \A q \in Procs \ {p} : pc'[q] = pc[q]
    BY DEF Go
  <1>2. IsFiniteSet(Early) /\ Cardinality(Early) \in Nat
    BY EarlyFinite
  <1>3. CASE s \in {"prepare", "find", "generate"}
    <2>1. Early' = Early \cup {p}
      BY <1>1, <1>3 DEF Early
    <2>2. Cardinality(Early \cup {p}) = IF p \in Early THEN Cardinality(Early) ELSE Cardinality(Early) + 1
      BY <1>2, FS_AddElement
    <2> QED
      BY <1>2, <1>3, <2>1, <2>2
  <1>4. CASE s \notin {"prepare", "find", "generate"}
    <2>1. Early' = Early \ {p}
      BY <1>1, <1>4 DEF Early
    <2>2. Cardinality(Early \ {p}) = IF p \in Early THEN Cardinality(Early) - 1 ELSE Cardinality(Early)
      BY <1>2, FS_RemoveElement
    <2>3. Cardinality(Early') \in Nat
      <3>1. IsFiniteSet(Early \ {p})
        BY <1>2, FS_RemoveElement
      <3> QED
        BY <2>1, <3>1, FS_CardinalityType
    <2> QED
      BY <1>2, <1>4, <2>1, <2>2, <2>3
  <1> QED
    BY <1>3, <1>4

LEMMA TypeInvInit == Init => TypeInv
  <1> SUFFICES ASSUME Init PROVE TypeInv
    OBVIOUS
  <1>1. /\ DOMAIN conf = Procs /\ id \in [Procs -> Nat] /\ pc = [p \in Procs |-> "off"]
        /\ count = 0 /\ starts = 0
    BY DEF Init
  <1>2. Early = {}
    BY <1>1 DEF Early
  <1>3. Cardinality(Early) = 0
    BY <1>2, FS_EmptySet
  <1>4. file = None \/ DOMAIN file \subseteq Keys
    BY DeploymentAssumption DEF Init
  <1>5. 0 \in 0..MaxSetups /\ 0 \in 0..MaxStarts /\ 0 \in 0..MaxFaults
    BY DeploymentAssumption
  <1>6. /\ pc \in [Procs -> Places]
        /\ \A p \in Procs : pc[p] = "off"
    BY <1>1 DEF Places
  <1>7. "off" \notin Named
    BY DEF Named, Running
  <1>8. TypeOK
    BY <1>4, <1>5, <1>6, <1>7 DEF Init, TypeOK, Places, Named
  <1> QED
    BY <1>1, <1>3, <1>8 DEF TypeInv

\* The wizard's steps leave the servers alone.
LEMMA TypeWizard ==
  ASSUME TypeInv, UNCHANGED <<server, idFile, count, starts, raced, spoilt>>,
         step' \in {"idle", "stat", "overwrite", "truncate", "fill"} \cup DOMAIN Blank,
         DOMAIN answers' = DOMAIN Blank,
         eof' \in BOOLEAN, setups' \in 0..MaxSetups, faults' \in 0..MaxFaults,
         file' = None \/ DOMAIN file' \subseteq Keys,
         written' # None => file' = Document(written')
  PROVE  TypeInv'
  <1>1. Early' = Early
    BY DEF Early, server
  <1>2. TypeOK'
    BY DEF TypeInv, TypeOK, server
  <1> QED
    BY <1>1, <1>2 DEF TypeInv, server

\* What is written is a document, and so is what is left of one.
LEMMA DocumentTyped == ASSUME NEW a PROVE DOMAIN Document(a) \subseteq Keys
  BY DEF Document

LEMMA RuinsTyped ==
  ASSUME NEW d, NEW doc \in Ruins(d)
  PROVE  DOMAIN doc \subseteq DOMAIN d
  <1> DEFINE before(i) == {Lines[j] : j \in 1..i - 1} \cap DOMAIN d
             parts(i) ==
               {[key \in before(i) |-> d[key]]}
                 \cup {[key \in before(i) \cup {Lines[i]} |-> IF key = Lines[i] THEN t ELSE d[key]] : t \in {Cut, Broken}}
  <1>1. Ruins(d) = UNION {parts(i) : i \in {k \in DOMAIN Lines : Lines[k] \in DOMAIN d}}
    BY DEF Ruins
  <1>2. ASSUME NEW i, Lines[i] \in DOMAIN d, NEW part \in parts(i) PROVE DOMAIN part \subseteq DOMAIN d
    BY <1>2
  <1> HIDE DEF parts
  <1> QED
    BY <1>1, <1>2

LEMMA WizardTyped ==
  ASSUME TypeInv, Wizard
  PROVE  TypeInv'
  <1>1. /\ step \in {"idle", "stat", "overwrite", "truncate", "fill"} \cup DOMAIN Blank
        /\ DOMAIN answers = DOMAIN Blank /\ eof \in BOOLEAN /\ setups \in 0..MaxSetups
        /\ faults \in 0..MaxFaults
        /\ file = None \/ DOMAIN file \subseteq Keys
        /\ written # None => file = Document(written)
    BY DEF TypeInv, TypeOK
  <1>2. /\ MaxSetups \in Nat /\ MaxFaults \in Nat
        /\ Questions[1] \in DOMAIN Blank
        /\ DOMAIN Empty = {}
    BY DeploymentAssumption, QuestionsTyped DEF Empty
  <1>3. Leave => step' = "idle" /\ DOMAIN answers' = DOMAIN Blank /\ eof' \in BOOLEAN
    BY DEF Leave
  <1>4. Fault => faults' \in 0..MaxFaults
    BY <1>1, <1>2 DEF Fault
  <1>5. CASE Setup
    <2>1. step' \in DOMAIN Blank /\ answers' = Blank /\ eof' = FALSE /\ setups' \in 0..MaxSetups
      BY <1>1, <1>2, <1>5 DEF Setup
    <2>2. UNCHANGED <<server, idFile, count, starts, faults, raced, spoilt, file, written>>
      BY <1>5 DEF Setup, Others, config, bounds
    <2> QED
      BY <1>1, <2>1, <2>2, TypeWizard
  <1>6. CASE Reply
    <2>1. DOMAIN answers' = DOMAIN answers
      BY <1>6 DEF Reply
    <2>2. step' \in {"stat"} \cup DOMAIN Blank
      BY <1>6, NextTyped DEF Reply
    <2> QED
      BY <1>1, <1>6, <2>1, <2>2, TypeWizard DEF Reply, Others, config, bounds
  <1>7. CASE EndOfInput \/ Stat \/ Overwrite \/ KillSetup
    BY <1>1, <1>3, <1>7, TypeWizard DEF EndOfInput, Stat, Overwrite, KillSetup, Others, config, bounds
  <1>8. CASE Truncate
    BY <1>1, <1>2, <1>3, <1>4, <1>8, TypeWizard DEF Truncate, config
  <1>9. CASE Fill
    <2>1. file' = None \/ DOMAIN file' \subseteq Keys
      BY <1>9, DocumentTyped, RuinsTyped DEF Fill
    <2> QED
      BY <1>1, <1>3, <1>4, <1>9, <2>1, TypeWizard DEF Fill
  <1> QED
    BY <1>5, <1>6, <1>7, <1>8, <1>9 DEF Wizard

\* A configuration that Load does not refuse is whole and valid.
LEMMA LoadTyped ==
  ASSUME NEW doc, Load(doc) # Refused
  PROVE  DOMAIN Load(doc) = Keys /\ Valid(Load(doc))
  <1> DEFINE c == [key \in Keys |-> WithDefault(key, Field(doc, key))]
  <1>1. Load(doc) = IF Unreadable(doc) \/ ~Valid(c) THEN Refused ELSE c
    BY DEF Load
  <1>2. DOMAIN c = Keys
    OBVIOUS
  <1> HIDE DEF c
  <1> QED
    BY <1>1, <1>2

\* One server moves; files and numbers stay in their ranges.
LEMMA TypeServer ==
  ASSUME TypeInv, NEW p \in Procs, NEW s \in Places, Go(p, s), UNCHANGED <<wizard, config>>,
         DOMAIN conf' = Procs, \A q \in Procs \ {p} : conf'[q] = conf[q],
         s # "off" => DOMAIN conf'[p] = Keys /\ Valid(conf'[p]),
         id' \in [Procs -> Nat], \A q \in Procs \ {p} : id'[q] = id[q],
         s \in Named => id'[p] \in 1..count',
         count' \in Nat, count' >= count, idFile' \in {None, Torn} \cup 1..count',
         starts' \in 0..MaxStarts, faults' \in 0..MaxFaults, raced' \in BOOLEAN, spoilt' \in BOOLEAN,
         Cardinality(Early') + count' <= starts'
  PROVE  TypeInv'
  <1>1. pc \in [Procs -> Places] /\ count \in Nat
    BY DEF TypeInv, TypeOK, Places
  <1>2. pc' \in [Procs -> Places] /\ pc'[p] = s /\ \A q \in Procs \ {p} : pc'[q] = pc[q]
    BY <1>1 DEF Go
  <1>3. \A q \in Procs : pc'[q] # "off" => DOMAIN conf'[q] = Keys /\ Valid(conf'[q])
    BY <1>2 DEF TypeInv, TypeOK
  <1>4. \A q \in Procs : pc'[q] \in Named => id'[q] \in 1..count'
    <2>1. \A q \in Procs \ {p} : pc[q] \in Named => id[q] \in 1..count
      BY DEF TypeInv, TypeOK, Named
    <2> QED
      BY <1>1, <1>2, <2>1
  <1>5. count' \in 0..MaxStarts
    <2>1. Cardinality(Early') \in Nat
      BY <1>1, EarlyMove
    <2> QED
      BY <2>1, DeploymentAssumption
  <1>6. /\ step' \in {"idle", "stat", "overwrite", "truncate", "fill"} \cup DOMAIN Blank
        /\ DOMAIN answers' = DOMAIN Blank /\ eof' \in BOOLEAN /\ setups' \in 0..MaxSetups
        /\ file' = None \/ DOMAIN file' \subseteq Keys
        /\ written' # None => file' = Document(written')
    BY DEF TypeInv, TypeOK, wizard, config
  <1>7. TypeOK'
    BY <1>2, <1>3, <1>4, <1>5, <1>6 DEF TypeOK, Places, Named
  <1> QED
    BY <1>7 DEF TypeInv

\* What a step of a server may use of the types.
LEMMA TypeFacts ==
  ASSUME TypeInv
  PROVE  /\ pc \in [Procs -> Places] /\ id \in [Procs -> Nat] /\ DOMAIN conf = Procs
         /\ count \in Nat /\ starts \in 0..MaxStarts /\ faults \in 0..MaxFaults
         /\ idFile \in {None, Torn} \cup 1..count
         /\ raced \in BOOLEAN /\ spoilt \in BOOLEAN
         /\ \A p \in Procs : pc[p] # "off" => DOMAIN conf[p] = Keys /\ Valid(conf[p])
         /\ \A p \in Procs : pc[p] \in Named => id[p] \in 1..count
         /\ Cardinality(Early) \in Nat /\ Cardinality(Early) + count <= starts
         /\ MaxStarts \in Nat /\ MaxFaults \in Nat
         /\ Fault => faults' \in 0..MaxFaults
  <1>1. MaxStarts \in Nat /\ MaxFaults \in Nat
    BY DeploymentAssumption
  <1>2. Cardinality(Early) \in Nat
    BY EarlyFinite
  <1>3. faults \in 0..MaxFaults
    BY DEF TypeInv, TypeOK
  <1>4. Fault => faults' \in 0..MaxFaults
    BY <1>1, <1>3 DEF Fault
  <1> QED
    BY <1>1, <1>2, <1>3, <1>4 DEF TypeInv, TypeOK, Places, Named

LEMMA TypeExit ==
  ASSUME TypeInv, NEW p \in Procs, Exit(p),
         UNCHANGED <<wizard, config, idFile, count, starts, raced, spoilt>>, faults' \in 0..MaxFaults
  PROVE  TypeInv'
  <1>1. Go(p, "off") /\ DOMAIN conf' = Procs /\ id' \in [Procs -> Nat]
    BY TypeFacts DEF Exit
  <1>2. \A q \in Procs \ {p} : conf'[q] = conf[q] /\ id'[q] = id[q]
    BY TypeFacts DEF Exit
  <1>3. "off" \in Places /\ "off" \notin Named
    BY DEF Places, Named, Running
  <1>4. Cardinality(Early') \in Nat /\ Cardinality(Early') <= Cardinality(Early)
    BY <1>1, TypeFacts, EarlyMove
  <1>5. Cardinality(Early') + count' <= starts'
    BY <1>4, TypeFacts
  <1> QED
    BY <1>1, <1>2, <1>3, <1>5, TypeFacts, TypeServer

\* A server goes on, with its configuration, from one place to another.
LEMMA TypeGo ==
  ASSUME TypeInv, NEW p \in Procs, NEW s \in Places, s # "off", Go(p, s), pc[p] # "off",
         UNCHANGED <<wizard, config, conf, starts>>,
         id' \in [Procs -> Nat], \A q \in Procs \ {p} : id'[q] = id[q],
         s \in Named => id'[p] \in 1..count',
         count' \in Nat, count' >= count, idFile' \in {None, Torn} \cup 1..count',
         faults' \in 0..MaxFaults, raced' \in BOOLEAN, spoilt' \in BOOLEAN,
         Cardinality(Early') + count' <= Cardinality(Early) + count
  PROVE  TypeInv'
  <1>1. DOMAIN conf' = Procs /\ conf' = conf /\ DOMAIN conf'[p] = Keys /\ Valid(conf'[p])
    BY TypeFacts
  <1>2. Cardinality(Early') \in Nat
    BY TypeFacts, EarlyMove
  <1>3. Cardinality(Early') + count' <= starts' /\ starts' \in 0..MaxStarts
    BY <1>2, TypeFacts
  <1> QED
    BY <1>1, <1>3, TypeServer

LEMMA ServerTyped ==
  ASSUME TypeInv, NEW p \in Procs, Server(p)
  PROVE  TypeInv'
  <1>0. /\ {"prepare", "find", "generate", "open", "write", "serve", "deaf"} \subseteq Places
        /\ {"prepare", "find", "generate"} \cap Named = {}
        /\ {"open", "write", "serve"} \cup Running \subseteq Named
        /\ Running \subseteq Places /\ "off" \notin Running
        /\ {"prepare", "find", "generate"} \cap Running = {}
    BY DEF Places, Named, Creating, Running
  <1>1. CASE LoadConfig(p)
    <2>1. Go(p, "prepare") /\ starts' = starts + 1 /\ starts < MaxStarts /\ UNCHANGED <<wizard, config, id, idFile, count, faults, raced, spoilt>>
      BY <1>1 DEF LoadConfig, Rest
    <2>2. PICK c : c = Load(file) /\ c # Refused /\ conf' = [conf EXCEPT ![p] = c]
      BY <1>1 DEF LoadConfig
    <2>3. DOMAIN c = Keys /\ Valid(c)
      BY <2>2, LoadTyped
    <2>4. DOMAIN conf' = Procs /\ conf'[p] = c /\ \A q \in Procs \ {p} : conf'[q] = conf[q]
      BY <2>2, TypeFacts
    <2>5. Cardinality(Early') \in Nat /\ Cardinality(Early') <= Cardinality(Early) + 1
      BY <2>1, TypeFacts, EarlyMove
    <2>6. Cardinality(Early') + count' <= starts' /\ starts' \in 0..MaxStarts /\ count' \in Nat /\ count' >= count
      BY <2>1, <2>5, TypeFacts
    <2> QED
      BY <1>0, <2>1, <2>3, <2>4, <2>6, TypeFacts, TypeServer
  <1>2. CASE Prepare(p)
    <2>1. CASE Exit(p) /\ Fault
      BY <1>2, <2>1, TypeFacts, TypeExit DEF Prepare, Rest
    <2>2. CASE Go(p, "find") /\ UNCHANGED <<conf, heard, id, faults>>
      <3>1. pc[p] = "prepare" /\ UNCHANGED <<wizard, config, idFile, count, starts, raced, spoilt>>
        BY <1>2 DEF Prepare, Rest
      <3>2. p \in Early
        BY <3>1 DEF Early
      <3>3. Cardinality(Early') = Cardinality(Early)
        BY <2>2, <3>2, TypeFacts, EarlyMove
      <3>4. Cardinality(Early') + count' <= Cardinality(Early) + count /\ count' >= count
        BY <3>1, <3>3, TypeFacts
      <3> QED
        BY <1>0, <2>2, <3>1, <3>4, TypeFacts, TypeGo
    <2> QED
      BY <1>2, <2>1, <2>2 DEF Prepare
  <1>3. CASE Find(p)
    <2>0. pc[p] = "find" /\ UNCHANGED <<wizard, config, conf, idFile, count, starts>>
      BY <1>3 DEF Find, Rest
    <2>1. p \in Early
      BY <2>0 DEF Early
    <2>2. CASE idFile \notin {None, Torn} /\ id' = [id EXCEPT ![p] = idFile] /\ Go(p, "serve") /\ UNCHANGED <<faults, raced, spoilt>>
      <3>1. Cardinality(Early') = Cardinality(Early) - 1
        BY <2>1, <2>2, TypeFacts, EarlyMove
      <3>2. Cardinality(Early') + count' <= Cardinality(Early) + count /\ count' >= count
        BY <2>0, <3>1, TypeFacts
      <3>3. idFile \in 1..count /\ idFile \in Nat
        BY <2>2, TypeFacts
      <3>4. id' \in [Procs -> Nat] /\ id'[p] = idFile /\ \A q \in Procs \ {p} : id'[q] = id[q]
        BY <2>2, <3>3, TypeFacts
      <3> QED
        BY <1>0, <2>0, <2>2, <3>2, <3>3, <3>4, TypeFacts, TypeGo
    <2>3. CASE /\ Go(p, "generate") /\ UNCHANGED id
               /\ raced' = (raced \/ \E q \in Procs : pc[q] \in Creating)
               /\ spoilt' = (spoilt \/ idFile \notin {None, Torn})
               /\ IF idFile \notin {None, Torn} THEN Fault ELSE UNCHANGED faults
      <3>1. Cardinality(Early') = Cardinality(Early)
        BY <2>1, <2>3, TypeFacts, EarlyMove
      <3>2. Cardinality(Early') + count' <= Cardinality(Early) + count /\ count' >= count
        BY <2>0, <3>1, TypeFacts
      <3>3. raced' \in BOOLEAN /\ spoilt' \in BOOLEAN /\ faults' \in 0..MaxFaults
        BY <2>3, TypeFacts
      <3> QED
        BY <1>0, <2>0, <2>3, <3>2, <3>3, TypeFacts, TypeGo
    <2> QED
      BY <1>3, <2>2, <2>3 DEF Find
  <1>4. CASE Generate(p)
    <2>1. CASE Exit(p) /\ Fault /\ UNCHANGED count
      BY <1>4, <2>1, TypeFacts, TypeExit DEF Generate, Rest
    <2>2. CASE Go(p, "open") /\ count' = count + 1 /\ id' = [id EXCEPT ![p] = count'] /\ UNCHANGED <<conf, heard, faults>>
      <3>1. pc[p] = "generate" /\ UNCHANGED <<wizard, config, idFile, starts, raced, spoilt>>
        BY <1>4 DEF Generate, Rest
      <3>2. p \in Early
        BY <3>1 DEF Early
      <3>3. Cardinality(Early') = Cardinality(Early) - 1
        BY <2>2, <3>2, TypeFacts, EarlyMove
      <3>4. Cardinality(Early') + count' <= Cardinality(Early) + count /\ count' >= count /\ count' \in Nat /\ count' \in 1..count'
        BY <2>2, <3>3, TypeFacts
      <3>5. id' \in [Procs -> Nat] /\ id'[p] = count' /\ \A q \in Procs \ {p} : id'[q] = id[q]
        BY <2>2, <3>4, TypeFacts
      <3>6. idFile' \in {None, Torn} \cup 1..count'
        BY <2>2, <3>1, TypeFacts
      <3> QED
        BY <1>0, <2>2, <3>1, <3>4, <3>5, <3>6, TypeFacts, TypeGo
    <2> QED
      BY <1>4, <2>1, <2>2 DEF Generate
  <1>5. CASE OpenIdentity(p) \/ WriteIdentity(p)
    <2>1. CASE Exit(p) /\ Fault /\ UNCHANGED idFile
      BY <1>5, <2>1, TypeFacts, TypeExit DEF OpenIdentity, WriteIdentity, Rest
    <2>2. ASSUME NEW s \in {"write", "serve"}, Go(p, s), UNCHANGED <<conf, heard, id, faults>>,
                 idFile' \in {Torn, id[p]}, pc[p] \in {"open", "write"}
          PROVE  TypeInv'
      <3>1. UNCHANGED <<wizard, config, count, starts, raced, spoilt>>
        BY <1>5 DEF OpenIdentity, WriteIdentity, Rest
      <3>2. Cardinality(Early') \in Nat /\ Cardinality(Early') <= Cardinality(Early)
        BY <2>2, TypeFacts, EarlyMove
      <3>3. Cardinality(Early') + count' <= Cardinality(Early) + count /\ count' >= count
        BY <3>1, <3>2, TypeFacts
      <3>4. id[p] \in 1..count
        BY <1>0, <2>2, TypeFacts
      <3>5. idFile' \in {None, Torn} \cup 1..count'
        BY <2>2, <3>1, <3>4
      <3>6. s \in Places /\ s # "off" /\ pc[p] # "off"
        BY <1>0, <2>2
      <3> QED
        BY <2>2, <3>1, <3>3, <3>4, <3>5, <3>6, TypeFacts, TypeGo
    <2> QED
      BY <1>5, <2>1, <2>2 DEF OpenIdentity, WriteIdentity
  <1>6. CASE Serve(p)
    <2>0. pc[p] = "serve" /\ UNCHANGED <<wizard, config, idFile, count, starts, raced, spoilt>>
      BY <1>6 DEF Serve, Rest
    <2>1. CASE Exit(p) /\ UNCHANGED faults
      BY <2>0, <2>1, TypeFacts, TypeExit
    <2>2. ASSUME NEW s \in Running, Go(p, s), UNCHANGED <<conf, id>>, faults' \in 0..MaxFaults
          PROVE  TypeInv'
      <3>1. Cardinality(Early') \in Nat /\ Cardinality(Early') <= Cardinality(Early)
        BY <1>0, <2>2, TypeFacts, EarlyMove
      <3>2. Cardinality(Early') + count' <= Cardinality(Early) + count /\ count' >= count
        BY <2>0, <3>1, TypeFacts
      <3>3. id[p] \in 1..count /\ s \in Places /\ s # "off"
        BY <1>0, <2>0, <2>2, TypeFacts
      <3> QED
        BY <2>0, <2>2, <3>2, <3>3, TypeFacts, TypeGo
    <2>3. Listens(conf[p]) \in Running /\ "deaf" \in Running
      BY DEF Listens, Running
    <2>4. \/ Exit(p) /\ UNCHANGED faults
          \/ /\ \E s \in {"deaf", Listens(conf[p])} : Go(p, s)
             /\ UNCHANGED faults \/ Fault
             /\ UNCHANGED <<conf, id>>
      BY <1>6 DEF Serve
    <2>5. UNCHANGED faults \/ Fault => faults' \in 0..MaxFaults
      BY TypeFacts
    <2> QED
      BY <2>1, <2>2, <2>3, <2>4, <2>5
  <1>7. CASE End(p)
    BY <1>7, TypeFacts, TypeExit DEF End, Rest, bounds
  <1> QED
    BY <1>1, <1>2, <1>3, <1>4, <1>5, <1>6, <1>7 DEF Server

LEMMA TypeInvNext == TypeInv /\ [Next]_vars => TypeInv'
  <1> SUFFICES ASSUME TypeInv, [Next]_vars PROVE TypeInv'
    OBVIOUS
  <1>1. CASE UNCHANGED vars
    <2>1. UNCHANGED <<server, idFile, count, starts, faults, raced, spoilt, step, answers, eof, setups, file, written>>
      BY <1>1 DEF vars, wizard, config, bounds
    <2> QED
      BY <2>1, TypeWizard DEF TypeInv, TypeOK
  <1> QED
    BY <1>1, WizardTyped, ServerTyped DEF Next

LEMMA TypeInvariant == Spec => []TypeInv
  BY TypeInvInit, TypeInvNext, PTL DEF Spec

\* Every server that is on has a whole, valid configuration, and has an identity
\* from the moment one was generated or found; config.yaml has the wizard's keys
\* only; and no start makes more than one identity, whatever fails on the way.
THEOREM DeploymentTypeCorrect == Spec => []TypeOK
  <1>1. TypeInv => TypeOK
    BY DEF TypeInv
  <1> QED
    BY <1>1, TypeInvariant, PTL
-----------------------------------------------------------------------------
LEMMA NotAQuestion == \A k \in 1..25 : Questions[k] \notin {"idle", "stat", "overwrite", "truncate", "fill"}
  BY DEF Questions

LEMMA QuestionsDistinct == \A i, k \in 1..25 : Questions[i] = Questions[k] => i = k
  BY DEF Questions

LEMMA First == Questions[1] = "mode"
  BY DEF Questions

\* The questions that decide whether others are asked come before them.
LEMMA QuestionsOrdered ==
  \A i \in 1..25 :
    /\ Questions[i] = "tls" => i = 10
    /\ Questions[i] = "cert" => i > 10
    /\ Questions[i] \in {"cert", "key", "acmeDomain", "acmeCacheDir", "port"} => i > 10
    /\ Questions[i] = "transport" => i = 9
    /\ Questions[i] = "webhook" => i = 16
    /\ Questions[i] = "secret" => i > 16
    /\ Questions[i] = "siem" => i = 18
    /\ Questions[i] = "siemPath" => i > 18
    /\ Questions[i] = "proxyAddr" => i = 23
    /\ Questions[i] = "upstream" => i > 23
  BY DEF Questions

LEMMA AskedBefore ==
  ASSUME NEW a, NEW b, NEW k \in 1..25, DOMAIN a = DOMAIN Blank,
         \A i \in 1..k - 1 : b[Questions[i]] = a[Questions[i]],
         NEW i \in 1..k
  PROVE  Asked(Questions[i], b) <=> Asked(Questions[i], a)
  <1>1. /\ Questions[9] = "transport" /\ Questions[10] = "tls" /\ Questions[16] = "webhook"
        /\ Questions[18] = "siem" /\ Questions[23] = "proxyAddr"
    BY DEF Questions
  <1>2. /\ i > 9 => b["transport"] = a["transport"]
        /\ i > 10 => b["tls"] = a["tls"]
        /\ i > 16 => b["webhook"] = a["webhook"]
        /\ i > 18 => b["siem"] = a["siem"]
        /\ i > 23 => b["proxyAddr"] = a["proxyAddr"]
    BY <1>1
  <1>3. PICK q : q = Questions[i] /\ i \in 1..25
    OBVIOUS
  <1>4. CASE q = "tls"
    <2>1. b["transport"] = a["transport"]
      <3>1. i = 10
        BY <1>3, <1>4, QuestionsOrdered
      <3> QED
        BY <1>2, <3>1
    <2> QED
      BY <1>3, <1>4, <2>1 DEF Asked
  <1>5. CASE q \in {"cert", "key", "acmeDomain", "acmeCacheDir", "port"}
    <2>1. b["tls"] = a["tls"]
      BY <1>2, <1>3, <1>5, QuestionsOrdered
    <2> QED
      BY <1>3, <1>5, <2>1 DEF Asked
  <1>6. CASE q = "secret"
    <2>1. b["webhook"] = a["webhook"]
      BY <1>2, <1>3, <1>6, QuestionsOrdered
    <2> QED
      BY <1>3, <1>6, <2>1 DEF Asked
  <1>7. CASE q = "siemPath"
    <2>1. b["siem"] = a["siem"]
      BY <1>2, <1>3, <1>7, QuestionsOrdered
    <2> QED
      BY <1>3, <1>7, <2>1 DEF Asked
  <1>8. CASE q = "upstream"
    <2>1. b["proxyAddr"] = a["proxyAddr"]
      BY <1>2, <1>3, <1>8, QuestionsOrdered
    <2> QED
      BY <1>3, <1>8, <2>1 DEF Asked
  <1>9. CASE q \notin {"tls", "cert", "key", "acmeDomain", "acmeCacheDir", "port", "secret", "siemPath", "upstream"}
    BY <1>3, <1>9 DEF Asked
  <1> QED
    BY <1>4, <1>5, <1>6, <1>7, <1>8, <1>9

-----------------------------------------------------------------------------
\* What becomes of an answer: one of the options, or a line that was typed, or the
\* default.
Proper(q, v) ==
  /\ Options(q) # {} => v \in Options(q)
  /\ q \in {"model", "cacheDir", "logDir"} =>
       v # "" /\ v \in Inputs[q] \cup {"gpt-4o", "claude-sonnet-4-6", "./cache", "./sessions"}
  /\ q \in {"cert", "acmeDomain"} => v \in Inputs[q] \cup {""}
  /\ q = "port" => v \in {"443", "8080"} \cup {Numbers[n] : n \in DOMAIN Numbers}

\* The answers of a dialogue that came to its end.
Finished(a) ==
  /\ DOMAIN a = DOMAIN Blank
  /\ \A q \in DOMAIN Blank : Asked(q, a) => Proper(q, a[q])
  /\ \A q \in DOMAIN Blank : ~Asked(q, a) => a[q] = ""

LEMMA KeysAre ==
  /\ Keys = {"mode", "industry", "seed", "provider", "baseURL", "apiKey", "model", "cacheDir", "transport",
             "port", "cert", "key", "acmeDomain", "acmeCacheDir", "stdoutOn", "webhook", "secret", "webhookOn",
             "siem", "siemPath", "siemOn", "domain", "callback", "canaryAddr", "proxyAddr", "upstream", "logDir"}
  /\ DOMAIN Blank = (Keys \ {"stdoutOn", "webhookOn", "siemOn"}) \cup {"tls"}
  <1>1. Keys = {"mode", "industry", "seed", "provider", "baseURL", "apiKey", "model", "cacheDir", "transport",
             "port", "cert", "key", "acmeDomain", "acmeCacheDir", "stdoutOn", "webhook", "secret", "webhookOn",
             "siem", "siemPath", "siemOn", "domain", "callback", "canaryAddr", "proxyAddr", "upstream", "logDir"}
    BY DEF Keys, Lines
  <1>2. DOMAIN Blank = {Questions[j] : j \in DOMAIN Questions}
    BY DEF Blank
  <1>3. {Questions[j] : j \in DOMAIN Questions} =
          {"mode", "industry", "seed", "provider", "baseURL", "apiKey", "model", "cacheDir", "transport",
           "tls", "cert", "key", "acmeDomain", "acmeCacheDir", "port", "webhook", "secret", "siem", "siemPath",
           "domain", "callback", "canaryAddr", "proxyAddr", "upstream", "logDir"}
    BY DEF Questions
  <1> QED
    BY <1>1, <1>2, <1>3

\* What the server has for a key is what the reader makes of its text, or a default.
LEMMA LoadedIs ==
  ASSUME NEW a, Load(Document(a)) # Refused, NEW key \in Keys
  PROVE  Load(Document(a))[key] = WithDefault(key, IF TextOf(key, a) # "" THEN Reads(key, TextOf(key, a)) ELSE "")
  <1> DEFINE c == [k \in Keys |-> WithDefault(k, Field(Document(a), k))]
  <1>1. Load(Document(a)) = IF Unreadable(Document(a)) \/ ~Valid(c) THEN Refused ELSE c
    BY DEF Load
  <1>2. c[key] = WithDefault(key, Field(Document(a), key))
    OBVIOUS
  <1> HIDE DEF c
  <1>3. Load(Document(a)) = c
    BY <1>1
  <1>4. Field(Document(a), key) = IF TextOf(key, a) # "" THEN Reads(key, TextOf(key, a)) ELSE ""
    BY DEF Field, Document
  <1> QED
    BY <1>2, <1>3, <1>4

\* Every answer but those of tls, siem and port arrives as it is read.
LEMMA AnswerRead ==
  ASSUME ReadsBack, NEW a, Finished(a), Load(Document(a)) # Refused,
         NEW q \in DOMAIN a \ {"tls", "siem", "port"}
  PROVE  Load(Document(a))[q] = Reads(q, a[q])
  <1>1. q \in Keys /\ q \in DOMAIN Blank /\ q \notin {"stdoutOn", "webhookOn", "siemOn"}
    BY KeysAre DEF Finished
  <1>2. TextOf(q, a) = a[q]
    BY <1>1 DEF TextOf
  <1>3. Load(Document(a))[q] = WithDefault(q, IF a[q] # "" THEN Reads(q, a[q]) ELSE "")
    BY <1>1, <1>2, LoadedIs
  <1>4. Reads(q, "") = ""
    BY DEF Reads, ReadsBack
  <1>5. Load(Document(a))[q] = WithDefault(q, Reads(q, a[q]))
    BY <1>3, <1>4
  <1>6. CASE q \in {"model", "cacheDir", "logDir"}
    <2>1. Asked(q, a)
      BY <1>6 DEF Asked
    <2>2. Proper(q, a[q])
      BY <1>1, <2>1 DEF Finished
    <2>3. a[q] # "" /\ Bare[a[q]] # ""
      BY <1>6, <2>2 DEF Proper, ReadsBack
    <2>4. Reads(q, a[q]) # ""
      BY <1>6, <2>3 DEF Reads, Unquoted, ReadsBack
    <2> QED
      BY <1>5, <2>4 DEF WithDefault
  <1>7. CASE q \notin {"model", "cacheDir", "logDir"}
    BY <1>5, <1>7 DEF WithDefault
  <1> QED
    BY <1>6, <1>7

LEMMA SwitchesRead ==
  ASSUME ReadsBack, NEW a, Finished(a), Load(Document(a)) # Refused
  PROVE  LET c == Load(Document(a)) IN
         /\ c["stdoutOn"] = "true"
         /\ (c["webhookOn"] = "true") <=> (a["webhook"] # "")
         /\ (c["siemOn"] = "true") <=> (a["siem"] # "none")
         /\ a["siem"] # "none" /\ Stands("siem", a["siem"]) => c["siem"] = a["siem"]
  <1> DEFINE c == Load(Document(a))
  <1>1. \A key \in {"stdoutOn", "webhookOn", "siemOn"} :
          c[key] = WithDefault(key, IF TextOf(key, a) # "" THEN Reads(key, TextOf(key, a)) ELSE "")
    <2>1. {"stdoutOn", "webhookOn", "siemOn"} \subseteq Keys
      BY KeysAre
    <2> QED
      BY <2>1, LoadedIs
  <1>2. \A key \in {"stdoutOn", "webhookOn", "siemOn"} : Reads(key, "true") = "true"
    BY DEF Reads, Unquoted, ReadsBack
  <1> HIDE DEF c
  <1>3. \A key \in {"stdoutOn", "webhookOn", "siemOn"} :
          /\ TextOf(key, a) = "true" => c[key] = "true"
          /\ TextOf(key, a) = "" => c[key] = ""
    BY <1>1, <1>2 DEF WithDefault
  <1>4. /\ TextOf("stdoutOn", a) = "true"
        /\ TextOf("webhookOn", a) = IF a["webhook"] # "" THEN "true" ELSE ""
        /\ TextOf("siemOn", a) = IF a["siem"] # "none" THEN "true" ELSE ""
    BY DEF TextOf
  <1>5. ASSUME a["siem"] # "none", Stands("siem", a["siem"]) PROVE c["siem"] = a["siem"]
    <2>1. TextOf("siem", a) = a["siem"]
      BY <1>5 DEF TextOf
    <2>2. c["siem"] = WithDefault("siem", IF TextOf("siem", a) # "" THEN Reads("siem", TextOf("siem", a)) ELSE "")
      BY KeysAre, LoadedIs DEF c
    <2> QED
      BY <1>5, <2>1, <2>2 DEF Stands, WithDefault
  <1> QED
    BY <1>3, <1>4, <1>5 DEF c

LEMMA ListenerRead ==
  ASSUME ReadsBack, NEW a, Finished(a), Load(Document(a)) # Refused, a["transport"] = "http"
  PROVE  LET c == Load(Document(a)) IN
         /\ Serves(c, a)
         /\ c["port"] = IF a["tls"] = "Let's Encrypt" THEN "443" ELSE a["port"]
  <1> DEFINE c == Load(Document(a))
  <1>1. DOMAIN a = DOMAIN Blank /\ {"transport", "tls", "cert", "acmeDomain", "port"} \subseteq DOMAIN Blank
    BY KeysAre DEF Finished
  <1>2. a["tls"] \in {"none", "cert + key", "Let's Encrypt"}
    <2>1. Asked("tls", a)
      BY DEF Asked
    <2>2. Proper("tls", a["tls"])
      BY <1>1, <2>1 DEF Finished
    <2> QED
      BY <2>2 DEF Proper, Options
  <1>3. /\ c["transport"] = Reads("transport", a["transport"])
        /\ c["cert"] = Reads("cert", a["cert"])
        /\ c["acmeDomain"] = Reads("acmeDomain", a["acmeDomain"])
    BY <1>1, AnswerRead
  <1>4. c["transport"] = "http"
    BY <1>3 DEF Reads, Unquoted, ReadsBack
  <1>5. ASSUME NEW q \in {"cert", "acmeDomain"} PROVE Reads(q, a[q]) = "" <=> a[q] = ""
    <2>1. a[q] = "" \/ a[q] \in Inputs[q]
      <3>1. CASE Asked(q, a)
        BY <1>1, <3>1 DEF Finished, Proper
      <3>2. CASE ~Asked(q, a)
        BY <1>1, <3>2 DEF Finished
      <3> QED
        BY <3>1, <3>2
    <2> QED
      BY <2>1 DEF Reads, Unquoted, ReadsBack
  <1>6. /\ a["tls"] # "cert + key" => a["cert"] = ""
        /\ a["tls"] # "Let's Encrypt" => a["acmeDomain"] = ""
    BY <1>1 DEF Finished, Asked
  <1> HIDE DEF c
  <1>7. Listens(c) = IF c["acmeDomain"] # "" THEN "acme" ELSE IF c["cert"] # "" THEN "tls" ELSE "plain"
    BY <1>4 DEF Listens
  <1>8. Serves(c, a)
    BY <1>3, <1>5, <1>6, <1>7 DEF Serves
  <1>9. c["port"] = IF a["tls"] = "Let's Encrypt" THEN "443" ELSE a["port"]
    <2>1. c["port"] = WithDefault("port", IF TextOf("port", a) # "" THEN Reads("port", TextOf("port", a)) ELSE "")
      BY KeysAre, LoadedIs DEF c
    <2>2. TextOf("port", a) = IF a["tls"] = "Let's Encrypt" THEN "443" ELSE a["port"]
      BY DEF TextOf
    <2>3. TextOf("port", a) \in {"443", "8080"} \cup {Numbers[n] : n \in DOMAIN Numbers}
      <3>1. CASE a["tls"] = "Let's Encrypt"
        BY <2>2, <3>1
      <3>2. CASE a["tls"] # "Let's Encrypt"
        <4>1. Asked("port", a)
          BY <1>2, <3>2 DEF Asked
        <4> QED
          BY <1>1, <2>2, <3>2, <4>1 DEF Finished, Proper
      <3> QED
        BY <3>1, <3>2
    <2>4. Reads("port", TextOf("port", a)) = TextOf("port", a) /\ TextOf("port", a) # ""
      BY <2>3 DEF Reads, Unquoted, ReadsBack
    <2> QED
      BY <2>1, <2>2, <2>4 DEF WithDefault
  <1> QED
    BY <1>8, <1>9 DEF c

\* buildConfig and Load agree on the answers of a dialogue that came to its end.
LEMMA LoadHas ==
  ASSUME ReadsBack, NEW a, Finished(a), Load(Document(a)) # Refused
  PROVE  Has(Load(Document(a)), a)
  <1>1. \A q \in DOMAIN a \ {"tls", "siem", "port"} : Stands(q, a[q]) => Load(Document(a))[q] = a[q]
    BY AnswerRead DEF Stands
  <1> QED
    BY <1>1, SwitchesRead, ListenerRead DEF Has

-----------------------------------------------------------------------------
\* The dialogue: what is behind has been answered, or was not asked; what lies ahead
\* is blank.
Behind(s, i) ==
  s \in {"stat", "overwrite", "truncate", "fill"} \/ \E k \in 1..25 : i < k /\ s = Questions[k]

Dialogue(s, a) ==
  /\ DOMAIN a = DOMAIN Blank
  /\ s \in {"idle", "stat", "overwrite", "truncate", "fill"} \cup DOMAIN Blank
  /\ \A k \in 1..25 : s = Questions[k] => Asked(Questions[k], a)
  /\ s # "idle" => \A i \in 1..25 :
       /\ Behind(s, i) /\ Asked(Questions[i], a) => Proper(Questions[i], a[Questions[i]])
       /\ ~Behind(s, i) \/ ~Asked(Questions[i], a) => a[Questions[i]] = ""

\* Every document that is known to be whole, and every server that has loaded one,
\* has the answers of a dialogue that came to its end.
Told ==
  /\ Dialogue(step, answers)
  /\ DOMAIN heard = Procs
  /\ written # None => Finished(written)
  /\ \A p \in Procs : pc[p] # "off" /\ heard[p] # None =>
       Finished(heard[p]) /\ conf[p] = Load(Document(heard[p])) /\ conf[p] # Refused
KeptInv == TypeInv /\ Told

LEMMA BehindIs ==
  ASSUME NEW k \in 1..25, NEW i \in 1..25
  PROVE  Behind(Questions[k], i) <=> i < k
  <1>1. Questions[k] \notin {"stat", "overwrite", "truncate", "fill"}
    BY NotAQuestion
  <1>2. \A m \in 1..25 : Questions[k] = Questions[m] => k = m
    BY QuestionsDistinct
  <1> QED
    BY <1>1, <1>2 DEF Behind

LEMMA DialogueEnds ==
  ASSUME NEW s \in {"stat", "overwrite", "truncate", "fill"}, NEW a, Dialogue(s, a)
  PROVE  Finished(a)
  <1>1. \A i \in 1..25 : Behind(s, i)
    BY DEF Behind
  <1>2. s # "idle"
    OBVIOUS
  <1>3. \A i \in 1..25 :
          /\ Asked(Questions[i], a) => Proper(Questions[i], a[Questions[i]])
          /\ ~Asked(Questions[i], a) => a[Questions[i]] = ""
    BY <1>1, <1>2 DEF Dialogue
  <1> QED
    BY <1>3, QuestionsTyped DEF Finished, Dialogue

\* A line that is accepted makes a proper answer.
LEMMA ValueProper ==
  ASSUME NEW q, NEW line \in Inputs[q] \cup {""}, Accepted(q, line)
  PROVE  Proper(q, Value(q, line))
  <1>1. CASE Options(q) # {}
    <2>1. line \in Options(q)
      BY <1>1 DEF Accepted
    <2>2. q \in {"mode", "provider", "transport", "tls", "siem"}
      BY <1>1 DEF Options
    <2>3. line # ""
      BY <2>1, <2>2 DEF Options
    <2>4. Value(q, line) = line
      BY <2>2, <2>3 DEF Value
    <2> QED
      BY <2>1, <2>2, <2>4 DEF Proper
  <1>2. CASE q \in {"model", "cacheDir", "logDir"}
    <2>1. Value(q, line) = IF line = "" THEN Default(q, answers) ELSE line
      BY <1>2 DEF Value
    <2>2. Default(q, answers) \in {"gpt-4o", "claude-sonnet-4-6", "./cache", "./sessions"}
      BY <1>2 DEF Default
    <2> QED
      BY <1>2, <2>1, <2>2 DEF Proper, Options
  <1>3. CASE q = "port"
    <2>1. Value(q, line) \in {Default(q, answers)} \cup {Numbers[n] : n \in DOMAIN Numbers}
      BY <1>3 DEF Value
    <2>2. Default(q, answers) \in {"443", "8080"}
      BY <1>3 DEF Default
    <2> QED
      BY <1>3, <2>1, <2>2 DEF Proper, Options
  <1>4. CASE q \in {"cert", "acmeDomain"}
    <2>1. Default(q, answers) = ""
      BY <1>4 DEF Default
    <2> QED
      BY <1>4, <2>1 DEF Value, Proper, Options
  <1>5. CASE Options(q) = {} /\ q \notin {"model", "cacheDir", "logDir", "port", "cert", "acmeDomain"}
    BY <1>5 DEF Proper
  <1> QED
    BY <1>1, <1>2, <1>3, <1>4, <1>5

\* After the answer to one question comes the next that is asked.
LEMMA NextAfter ==
  ASSUME NEW k \in 1..25, step = Questions[k], NEW b
  PROVE  \/ NextQuestion(b) = "stat" /\ \A i \in 1..25 : k < i => ~Asked(Questions[i], b)
         \/ \E n \in 1..25 : /\ k < n /\ NextQuestion(b) = Questions[n] /\ Asked(Questions[n], b)
                            /\ \A i \in 1..25 : k < i /\ i < n => ~Asked(Questions[i], b)
  <1> DEFINE open == {i \in 1..25 : Asked(Questions[i], b) /\ \E j \in 1..i - 1 : Questions[j] = step}
  <1>1. open = {i \in 1..25 : k < i /\ Asked(Questions[i], b)}
    <2>1. \A i \in 1..25 : k < i => k \in 1..i - 1
      OBVIOUS
    <2>2. \A i \in 1..25 : \A j \in 1..i - 1 : j \in 1..25 /\ j < i
      OBVIOUS
    <2>3. \A j \in 1..25 : Questions[j] = step => j = k
      BY QuestionsDistinct
    <2> QED
      BY <2>1, <2>2, <2>3
  <1>2. \/ open = {} /\ NextQuestion(b) = "stat"
        \/ \E i \in open : NextQuestion(b) = Questions[i] /\ \A j \in open : i <= j
    BY NextIs
  <1> HIDE DEF open
  <1>3. CASE open = {} /\ NextQuestion(b) = "stat"
    BY <1>1, <1>3
  <1>4. ASSUME NEW n \in open, NextQuestion(b) = Questions[n], \A j \in open : n <= j
        PROVE  /\ n \in 1..25 /\ k < n /\ NextQuestion(b) = Questions[n] /\ Asked(Questions[n], b)
               /\ \A i \in 1..25 : k < i /\ i < n => ~Asked(Questions[i], b)
    BY <1>1, <1>4
  <1> QED
    BY <1>2, <1>3, <1>4

\* One answer, and the dialogue goes on with the next question.
LEMMA DialogueGoesOn ==
  ASSUME NEW k \in 1..25, NEW a, Dialogue(Questions[k], a),
         NEW b, DOMAIN b = DOMAIN Blank, Proper(Questions[k], b[Questions[k]]),
         \A i \in 1..25 : i # k => b[Questions[i]] = a[Questions[i]],
         NEW t, t \in {"stat"} \cup DOMAIN Blank,
         \/ t = "stat" /\ \A i \in 1..25 : k < i => ~Asked(Questions[i], b)
         \/ \E n \in 1..25 : /\ k < n /\ t = Questions[n] /\ Asked(Questions[n], b)
                            /\ \A i \in 1..25 : k < i /\ i < n => ~Asked(Questions[i], b)
  PROVE  Dialogue(t, b)
  <1>1. \A i \in 1..25 : i < k => b[Questions[i]] = a[Questions[i]]
    OBVIOUS
  <1>2. ASSUME NEW i \in 1..k PROVE Asked(Questions[i], b) <=> Asked(Questions[i], a)
    <2>1. \A j \in 1..k - 1 : j \in 1..25 /\ j < k
      OBVIOUS
    <2>2. \A j \in 1..k - 1 : b[Questions[j]] = a[Questions[j]]
      BY <1>1, <2>1
    <2>3. DOMAIN a = DOMAIN Blank
      BY DEF Dialogue
    <2> QED
      BY <2>2, <2>3, AskedBefore
  <1>3. Questions[k] # "idle"
    BY NotAQuestion
  <1>4. \A i \in 1..25 :
          /\ i < k /\ Asked(Questions[i], a) => Proper(Questions[i], a[Questions[i]])
          /\ ~(i < k) \/ ~Asked(Questions[i], a) => a[Questions[i]] = ""
    BY <1>3, BehindIs DEF Dialogue
  <1>5. \/ t = "stat" /\ \A i \in 1..25 : k < i => ~Asked(Questions[i], b)
        \/ \E n \in 1..25 : /\ k < n /\ t = Questions[n] /\ Asked(Questions[n], b)
                            /\ \A i \in 1..25 : k < i /\ i < n => ~Asked(Questions[i], b)
    OBVIOUS
  <1>6. ASSUME NEW i \in 1..25
        PROVE  /\ i <= k => Behind(t, i)
               /\ k < i /\ Behind(t, i) => ~Asked(Questions[i], b)
    <2>1. CASE t = "stat" /\ \A j \in 1..25 : k < j => ~Asked(Questions[j], b)
      BY <2>1 DEF Behind
    <2>2. ASSUME NEW n \in 1..25, k < n, t = Questions[n],
                 \A j \in 1..25 : k < j /\ j < n => ~Asked(Questions[j], b)
          PROVE  /\ i <= k => Behind(t, i)
                 /\ k < i /\ Behind(t, i) => ~Asked(Questions[i], b)
      <3>1. Behind(t, i) <=> i < n
        BY <2>2, BehindIs
      <3>2. i <= k => i < n
        BY <2>2
      <3>3. k < i /\ i < n => ~Asked(Questions[i], b)
        BY <2>2
      <3> QED
        BY <3>1, <3>2, <3>3
    <2> QED
      BY <1>5, <2>1, <2>2
  <1>7. ASSUME NEW i \in 1..25, i < k
        PROVE  /\ Behind(t, i)
               /\ Asked(Questions[i], b) => Proper(Questions[i], b[Questions[i]])
               /\ ~Asked(Questions[i], b) => b[Questions[i]] = ""
    <2>1. i \in 1..k /\ i <= k
      BY <1>7
    <2>2. Behind(t, i) /\ b[Questions[i]] = a[Questions[i]]
      BY <1>1, <1>6, <1>7, <2>1
    <2>3. /\ Asked(Questions[i], a) => Proper(Questions[i], a[Questions[i]])
          /\ ~Asked(Questions[i], a) => a[Questions[i]] = ""
      BY <1>4, <1>7
    <2>4. Asked(Questions[i], b) <=> Asked(Questions[i], a)
      BY <1>2, <2>1
    <2> QED
      BY <2>2, <2>3, <2>4
  <1>8. Behind(t, k) /\ Asked(Questions[k], b)
    <2>1. k \in 1..k /\ k <= k
      OBVIOUS
    <2>2. Asked(Questions[k], a)
      BY DEF Dialogue
    <2> QED
      BY <1>2, <1>6, <2>1, <2>2
  <1>9. ASSUME NEW i \in 1..25, k < i
        PROVE  (Behind(t, i) => ~Asked(Questions[i], b)) /\ b[Questions[i]] = ""
    <2>1. i # k /\ ~(i < k)
      BY <1>9
    <2>2. a[Questions[i]] = ""
      BY <1>4, <2>1
    <2>3. b[Questions[i]] = a[Questions[i]]
      BY <2>1
    <2>4. Behind(t, i) => ~Asked(Questions[i], b)
      BY <1>6, <1>9
    <2> QED
      BY <2>2, <2>3, <2>4
  <1>10. ASSUME NEW i \in 1..25
         PROVE  /\ Behind(t, i) /\ Asked(Questions[i], b) => Proper(Questions[i], b[Questions[i]])
                /\ ~Behind(t, i) \/ ~Asked(Questions[i], b) => b[Questions[i]] = ""
    <2>1. CASE i < k
      BY <1>7, <2>1
    <2>2. CASE i = k
      BY <1>8, <2>2
    <2>3. CASE k < i
      BY <1>9, <2>3
    <2>4. i < k \/ i = k \/ k < i
      OBVIOUS
    <2> QED
      BY <2>1, <2>2, <2>3, <2>4
  <1>11. ASSUME NEW m \in 1..25, t = Questions[m] PROVE Asked(Questions[m], b)
    <2>1. t # "stat"
      BY <1>11, NotAQuestion
    <2>2. PICK n \in 1..25 : t = Questions[n] /\ Asked(Questions[n], b)
      BY <1>5, <2>1
    <2> QED
      BY <1>11, <2>2
  <1> QED
    BY <1>10, <1>11 DEF Dialogue

LEMMA DialogueBegins == Dialogue("idle", Blank) /\ Dialogue(Questions[1], Blank)
  <1>1. DOMAIN Blank = {Questions[j] : j \in 1..25}
    BY QuestionsTyped
  <1>2. \A i \in 1..25 : Blank[Questions[i]] = ""
    BY QuestionsTyped DEF Blank
  <1>3. \A i \in 1..25 : Questions[i] # "idle"
    BY NotAQuestion
  <1>4. Dialogue("idle", Blank)
    BY <1>3 DEF Dialogue
  <1>5. ASSUME NEW i \in 1..25 PROVE ~Behind(Questions[1], i)
    <2>1. 1 \in 1..25 /\ ~(i < 1)
      OBVIOUS
    <2> QED
      BY <2>1, BehindIs
  <1>6. ASSUME NEW i \in 1..25, Questions[1] = Questions[i] PROVE Asked(Questions[i], Blank)
    <2>1. Asked("mode", Blank)
      BY DEF Asked
    <2> QED
      BY <1>6, <2>1, First
  <1>7. Questions[1] \in DOMAIN Blank
    BY <1>1
  <1>8. Dialogue(Questions[1], Blank)
    BY <1>2, <1>5, <1>6, <1>7 DEF Dialogue
  <1> QED
    BY <1>4, <1>8

LEMMA DialogueReply ==
  ASSUME Dialogue(step, answers), Reply
  PROVE  Dialogue(step', answers')
  <1>1. PICK k \in 1..25 : step = Questions[k]
    BY QuestionsTyped DEF Reply
  <1>2. PICK line \in Inputs[step] \cup {""} :
          /\ Accepted(step, line)
          /\ answers' = [answers EXCEPT ![step] = Value(step, line)]
          /\ step' = NextQuestion(answers')
    BY DEF Reply
  <1>3. Proper(step, Value(step, line))
    BY <1>2, ValueProper
  <1>4. DOMAIN answers = DOMAIN Blank /\ step \in DOMAIN Blank
    BY DEF Dialogue, Reply
  <1>5. DOMAIN answers' = DOMAIN Blank /\ Proper(Questions[k], answers'[Questions[k]])
    BY <1>1, <1>2, <1>3, <1>4
  <1>6. \A i \in 1..25 : i # k => answers'[Questions[i]] = answers[Questions[i]]
    <2>1. \A i \in 1..25 : i # k => Questions[i] # step /\ Questions[i] \in DOMAIN answers
      BY <1>1, <1>4, QuestionsDistinct, QuestionsTyped
    <2> QED
      BY <1>2, <2>1
  <1>7. step' \in {"stat"} \cup DOMAIN Blank
    BY <1>2, NextTyped
  <1>8. \/ step' = "stat" /\ \A i \in 1..25 : k < i => ~Asked(Questions[i], answers')
        \/ \E n \in 1..25 : /\ k < n /\ step' = Questions[n] /\ Asked(Questions[n], answers')
                           /\ \A i \in 1..25 : k < i /\ i < n => ~Asked(Questions[i], answers')
    <2>1. step' = NextQuestion(answers')
      BY <1>2
    <2>2. \/ NextQuestion(answers') = "stat" /\ \A i \in 1..25 : k < i => ~Asked(Questions[i], answers')
          \/ \E n \in 1..25 : /\ k < n /\ NextQuestion(answers') = Questions[n] /\ Asked(Questions[n], answers')
                             /\ \A i \in 1..25 : k < i /\ i < n => ~Asked(Questions[i], answers')
      BY <1>1, NextAfter, Zenon
    <2> QED
      BY <2>1, <2>2, Zenon
  <1>9. Dialogue(Questions[k], answers)
    BY <1>1
  <1> QED
    BY <1>1, <1>5, <1>6, <1>7, <1>8, <1>9, DialogueGoesOn

LEMMA ToldInit == Init => Told
  BY DialogueBegins DEF Init, Told

\* Past the last question nothing but the step changes until the answers are gone.
LEMMA DialogueLater ==
  ASSUME NEW s \in {"stat", "overwrite", "truncate", "fill"}, NEW a, Dialogue(s, a),
         NEW t \in {"stat", "overwrite", "truncate", "fill"}
  PROVE  Dialogue(t, a)
  <1>1. \A i \in 1..25 : Behind(s, i) /\ Behind(t, i)
    BY DEF Behind
  <1>2. s # "idle" /\ \A i \in 1..25 : t # Questions[i]
    BY NotAQuestion
  <1> QED
    BY <1>1, <1>2 DEF Dialogue

LEMMA ToldWizard ==
  ASSUME KeptInv, Wizard
  PROVE  Told'
  <1>1. Dialogue(step, answers) /\ DOMAIN heard = Procs /\ (written # None => Finished(written))
    BY DEF KeptInv, Told
  <1>2. UNCHANGED <<pc, conf, heard>>
    BY DEF Wizard, Setup, Reply, EndOfInput, Stat, Overwrite, Truncate, Fill, KillSetup, Others, server
  <1>3. Leave => Dialogue(step', answers')
    BY DialogueBegins DEF Leave
  <1>5. Dialogue(step', answers')
    <2>1. CASE Reply
      BY <1>1, <2>1, DialogueReply
    <2>2. CASE EndOfInput
      BY <1>1, <2>2 DEF EndOfInput
    <2>3. CASE Stat
      BY <1>1, <2>3, DialogueLater DEF Stat
    <2>4. CASE Overwrite
      BY <1>1, <1>3, <2>4, DialogueLater DEF Overwrite
    <2>5. CASE Truncate
      BY <1>1, <1>3, <2>5, DialogueLater DEF Truncate
    <2>6. CASE Fill \/ KillSetup
      BY <1>3, <2>6 DEF Fill, KillSetup
    <2>7. CASE Setup
      BY <2>7, DialogueBegins DEF Setup
    <2> QED
      BY <2>1, <2>2, <2>3, <2>4, <2>5, <2>6, <2>7 DEF Wizard
  <1>6. written' # None => Finished(written')
    <2>1. CASE Fill
      <3>1. step = "fill" /\ (written' = answers \/ written' = None)
        BY <2>1 DEF Fill
      <3> QED
        BY <1>1, <3>1, DialogueEnds
    <2>2. CASE ~Fill
      <3>1. written' = written \/ written' = None
        BY <2>2 DEF Wizard, Setup, Reply, EndOfInput, Stat, Overwrite, Truncate, KillSetup, Others, config
      <3> QED
        BY <1>1, <3>1
    <2> QED
      BY <2>1, <2>2
  <1> QED
    BY <1>1, <1>2, <1>5, <1>6 DEF KeptInv, Told

\* Of a server, nothing is to show that has not loaded anything in this step.
LEMMA ToldServerMoves ==
  ASSUME KeptInv, NEW p \in Procs, UNCHANGED <<wizard, config>>, NEW s, Go(p, s),
         s = "off" \/ pc[p] # "off",
         Exit(p) \/ UNCHANGED <<conf, heard>>
  PROVE  Told'
  <1>1. /\ Dialogue(step, answers) /\ DOMAIN heard = Procs /\ DOMAIN conf = Procs
        /\ (written # None => Finished(written)) /\ pc \in [Procs -> Places]
    BY TypeFacts DEF KeptInv, Told
  <1>2. Dialogue(step', answers') /\ (written' # None => Finished(written'))
    BY <1>1 DEF wizard, config
  <1>3. pc'[p] = s /\ \A q \in Procs \ {p} : pc'[q] = pc[q]
    BY <1>1 DEF Go
  <1>4. ASSUME NEW q \in Procs, pc'[q] # "off", heard'[q] # None
        PROVE  Finished(heard'[q]) /\ conf'[q] = Load(Document(heard'[q])) /\ conf'[q] # Refused
    <2>1. pc[q] # "off" /\ heard'[q] = heard[q] /\ conf'[q] = conf[q]
      <3>1. CASE UNCHANGED <<conf, heard>>
        BY <1>3, <1>4, <3>1
      <3>2. CASE Exit(p)
        <4>1. pc'[p] = "off"
          BY <1>1, <3>2 DEF Exit, Go
        <4> QED
          BY <1>1, <1>3, <1>4, <3>2, <4>1 DEF Exit
      <3> QED
        BY <3>1, <3>2
    <2>2. heard[q] # None
      BY <1>4, <2>1
    <2>3. Finished(heard[q]) /\ conf[q] = Load(Document(heard[q])) /\ conf[q] # Refused
      BY <2>1, <2>2 DEF KeptInv, Told
    <2> QED
      BY <2>1, <2>3
  <1>5. DOMAIN heard' = Procs
    BY <1>1 DEF Exit
  <1> QED
    BY <1>2, <1>4, <1>5 DEF Told

LEMMA ToldLoads ==
  ASSUME KeptInv, NEW p \in Procs, LoadConfig(p)
  PROVE  Told'
  <1>1. /\ Dialogue(step, answers) /\ DOMAIN heard = Procs /\ DOMAIN conf = Procs
        /\ (written # None => Finished(written) /\ file = Document(written)) /\ pc \in [Procs -> Places]
    BY TypeFacts DEF KeptInv, Told, TypeInv, TypeOK
  <1>2. UNCHANGED <<step, answers, written>>
    BY DEF LoadConfig, Rest, wizard, config
  <1>3. /\ conf' = [conf EXCEPT ![p] = Load(file)] /\ Load(file) # Refused
        /\ heard' = [heard EXCEPT ![p] = written] /\ pc' = [pc EXCEPT ![p] = "prepare"]
    BY DEF LoadConfig, Go
  <1>4. ASSUME NEW q \in Procs, pc'[q] # "off", heard'[q] # None
        PROVE  Finished(heard'[q]) /\ conf'[q] = Load(Document(heard'[q])) /\ conf'[q] # Refused
    <2>1. CASE q = p
      <3>1. heard'[q] = written /\ conf'[q] = Load(file)
        BY <1>1, <1>3, <2>1
      <3> QED
        BY <1>1, <1>3, <1>4, <3>1
    <2>2. CASE q # p
      <3>1. heard'[q] = heard[q] /\ conf'[q] = conf[q] /\ pc'[q] = pc[q]
        BY <1>1, <1>3, <2>2
      <3>2. pc[q] # "off" /\ heard[q] # None
        BY <1>4, <3>1
      <3>3. Finished(heard[q]) /\ conf[q] = Load(Document(heard[q])) /\ conf[q] # Refused
        BY <3>2 DEF KeptInv, Told
      <3> QED
        BY <3>1, <3>3
    <2> QED
      BY <2>1, <2>2
  <1>5. DOMAIN heard' = Procs
    BY <1>1, <1>3
  <1> QED
    BY <1>1, <1>2, <1>4, <1>5 DEF Told

LEMMA KeptInvNext == KeptInv /\ [Next]_vars => KeptInv'
  <1> SUFFICES ASSUME KeptInv, [Next]_vars PROVE KeptInv'
    OBVIOUS
  <1>1. TypeInv'
    BY TypeInvNext DEF KeptInv
  <1>2. CASE Wizard
    BY <1>1, <1>2, ToldWizard DEF KeptInv
  <1>3. ASSUME NEW p \in Procs, Server(p) PROVE Told'
    <2>1. CASE LoadConfig(p)
      BY <2>1, ToldLoads
    <2>2. Exit(p) => Go(p, "off")
      BY DEF Exit
    <2>3. CASE Prepare(p)
      BY <2>2, <2>3, ToldServerMoves DEF Prepare, Rest
    <2>4. CASE Find(p)
      BY <2>2, <2>4, ToldServerMoves DEF Find, Rest
    <2>5. CASE Generate(p)
      BY <2>2, <2>5, ToldServerMoves DEF Generate, Rest
    <2>6. CASE OpenIdentity(p)
      BY <2>2, <2>6, ToldServerMoves DEF OpenIdentity, Rest
    <2>7. CASE WriteIdentity(p)
      BY <2>2, <2>7, ToldServerMoves DEF WriteIdentity, Rest
    <2>8. CASE Serve(p)
      BY <2>2, <2>8, ToldServerMoves DEF Serve, Rest
    <2>9. CASE End(p)
      BY <2>2, <2>9, ToldServerMoves DEF End, Rest
    <2> QED
      BY <1>3, <2>1, <2>3, <2>4, <2>5, <2>6, <2>7, <2>8, <2>9 DEF Server
  <1>4. CASE UNCHANGED vars
    <2>1. UNCHANGED <<step, answers, written, pc, conf, heard>>
      BY <1>4 DEF vars, wizard, config, server
    <2>2. Told'
      BY <2>1 DEF KeptInv, Told
    <2> QED
      BY <1>1, <2>2 DEF KeptInv
  <1> QED
    BY <1>1, <1>2, <1>3, <1>4 DEF Next, KeptInv

\* A server runs with what was typed, whoever interrupted whom, for each answer that
\* YAML leaves as it stands: none is lost between buildConfig and Load, or comes from
\* a question that was not asked.  ReadsBack is about the wizard's own words.
THEOREM AnswersSurvive ==
  ASSUME ReadsBack
  PROVE  Spec => []AnswersKept
  <1>1. Init => KeptInv
    BY TypeInvInit, ToldInit DEF KeptInv
  <1>2. ASSUME KeptInv PROVE AnswersKept
    <2> SUFFICES ASSUME NEW p \in Procs, pc[p] # "off", heard[p] # None PROVE Has(conf[p], heard[p])
      BY DEF AnswersKept
    <2>1. Finished(heard[p]) /\ conf[p] = Load(Document(heard[p])) /\ conf[p] # Refused
      BY <1>2 DEF KeptInv, Told
    <2> QED
      BY <2>1, LoadHas
  <1> QED
    BY <1>1, <1>2, KeptInvNext, PTL DEF Spec
=============================================================================
