------------------------ MODULE EventListenerProofs ------------------------
(***************************************************************************)
(* Proofs about EventListener, for any contracts, filters, chunk size and  *)
(* start blocks and a chain of any length: type correctness, and that the  *)
(* bus receives each selected event once and in order.  The steps are      *)
(* treated one by one, so that EventPipeline, which drives the listener in *)
(* its own way, can use the same lemmas.                                   *)
(***************************************************************************)
EXTENDS EventListener, FiniteSetTheorems, TLAPS

Records == [start: Nat, current: Nat]
Scans   == [contract: Contracts, to: Nat, last: Nat, end: Nat, at: Nat]

\* Register is the one step of which EventPipeline takes other instances.
Registers     == \E a \in Contracts, b \in Nat : Register(a, b)
SafeRegisters == \E a \in Contracts, b \in Nat : ~InCycle(a) /\ Register(a, b)

OtherStep ==
  \/ \E events \in [Contracts -> Topics \cup {Nil}] : Mine(events)
  \/ \E a \in Contracts : UnregisterContract(a)
  \/ Start
  \/ StartFails
  \/ ListenerStep
  \/ Shutdown
  \/ Restart
  \/ UNCHANGED vars

-----------------------------------------------------------------------------
(* The inductive invariant.                                                *)

\* Where the goroutine is, and what it holds there.
ScanInv ==
  /\ phase \in {"query", "publish"} <=> work # Nil
  /\ DOMAIN copies # {} => phase \in {"next", "query", "publish"}
  /\ work # Nil =>
       /\ work.contract \notin DOMAIN copies
       /\ work.to <= head
       /\ work.last < work.to
  /\ phase = "query" => work.at = work.last + 1
  /\ phase = "publish" =>
       /\ work.last < work.end /\ work.end <= work.to
       /\ work.last < work.at  /\ work.at <= work.end + 1

\* The progress of a contract's record, and of the copy the listener works
\* on, as long as it is a copy of this record.
Progresses(a) ==
  /\ contracts[a].start <= contracts[a].current
  /\ contracts[a].current = contracts[a].start \/ contracts[a].current <= head
  /\ a \in DOMAIN copies => copies[a] = contracts[a].current
  /\ work # Nil /\ work.contract = a => work.last = contracts[a].current

ProgressInv == \A a \in Contracts : contracts[a] # Nil => Progresses(a)

-----------------------------------------------------------------------------
(* The operators.                                                          *)

LEMMA EmptyDomain == DOMAIN <<>> = {}
  OBVIOUS

LEMMA EmptySequence == \A S : <<>> \in Seq(S)
  OBVIOUS

LEMMA HeadIsNat == TypeOK => head \in Nat
  BY DEF TypeOK, head

LEMMA RegisterEffect ==
  ASSUME TypeOK, NEW a \in Contracts, NEW b \in Nat, Register(a, b)
  PROVE  /\ contracts' \in [Contracts -> Records \cup {Nil}]
         /\ contracts'[a] # Nil
         /\ contracts'[a].start = b /\ contracts'[a].current = b
         /\ \A c \in Contracts \ {a} : contracts'[c] = contracts[c]
  BY ListenerAssumption DEF TypeOK, Register, Records

LEMMA UpdateEffect ==
  ASSUME TypeOK, NEW a \in Contracts, NEW b \in Nat, UpdateContractBlock(a, b)
  PROVE  /\ contracts' \in [Contracts -> Records \cup {Nil}]
         /\ \A c \in Contracts :
              /\ contracts'[c] = Nil <=> contracts[c] = Nil
              /\ contracts[c] # Nil =>
                   /\ contracts'[c].start = contracts[c].start
                   /\ contracts'[c].current = IF c = a THEN b
                                              ELSE contracts[c].current
<1>1. CASE contracts[a] = Nil
  BY <1>1 DEF TypeOK, UpdateContractBlock, Records
<1>2. CASE contracts[a] # Nil
  <2>1. contracts[a] \in Records
    BY <1>2 DEF TypeOK, Records
  <2> DEFINE r == [contracts[a] EXCEPT !.current = b]
  <2>2. r \in Records /\ r.start = contracts[a].start /\ r.current = b
    BY <2>1 DEF Records
  <2>3. contracts' = [contracts EXCEPT ![a] = r]
    BY <1>2 DEF UpdateContractBlock
  <2> HIDE DEF r
  <2>4. contracts \in [Contracts -> Records \cup {Nil}] /\ Nil \notin Records
    BY ListenerAssumption DEF TypeOK, Records
  <2> QED
    BY <1>2, <2>2, <2>3, <2>4
<1> QED
  BY <1>1, <1>2

LEMMA TakenEffect ==
  ASSUME TypeOK, NEW a \in DOMAIN copies, Taken(a)
  PROVE  /\ DOMAIN copies' = DOMAIN copies \ {a}
         /\ \A c \in DOMAIN copies' : copies'[c] = copies[c]
  BY DEF Taken

LEMMA ScanIsTyped ==
  ASSUME TypeOK, ScanInv, phase \in {"query", "publish"}
  PROVE  /\ work \in Scans /\ work # Nil
         /\ work.contract \in Contracts
         /\ work.to \in Nat /\ work.last \in Nat
         /\ work.end \in Nat /\ work.at \in Nat
  BY DEF TypeOK, ScanInv, Scans

-----------------------------------------------------------------------------
(* The listener's steps, field by field.                                   *)

LEMMA OpenEffect ==
  ASSUME TypeOK, NEW a \in DOMAIN copies, Open(a)
  PROVE  /\ a \in Contracts /\ copies[a] \in Nat /\ copies[a] < head
         /\ work' \in Scans /\ work' # Nil
         /\ work'.contract = a /\ work'.to = head
         /\ work'.last = copies[a] /\ work'.at = copies[a] + 1
         /\ DOMAIN copies' = DOMAIN copies \ {a}
         /\ \A c \in DOMAIN copies' : copies'[c] = copies[c]
<1>1. a \in Contracts /\ copies[a] \in Nat /\ head \in Nat
  BY HeadIsNat DEF TypeOK
<1>2. /\ work' \in Scans
      /\ work'.contract = a /\ work'.to = head
      /\ work'.last = copies[a] /\ work'.at = copies[a] + 1
  BY <1>1 DEF Open, Scans
<1> QED
  BY <1>1, <1>2, TakenEffect, ListenerAssumption DEF Open, Scans

LEMMA QueryChunkEffect ==
  ASSUME TypeOK, ScanInv, QueryChunk
  PROVE  /\ work' \in Scans /\ work' # Nil
         /\ work'.contract = work.contract /\ work'.to = work.to
         /\ work'.last = work.last /\ work'.at = work.at
         /\ work.last < work'.end /\ work'.end <= work.to
<1>1. /\ work \in Scans
      /\ work.last \in Nat /\ work.to \in Nat /\ work.last < work.to
  BY ScanIsTyped DEF QueryChunk, ScanInv
<1> DEFINE e == IF work.last + MaxBlockRange > work.to THEN work.to
                ELSE work.last + MaxBlockRange
<1>2. e \in Nat /\ work.last < e /\ e <= work.to
  BY <1>1, ListenerAssumption
<1>3. /\ work' \in Scans
      /\ work'.contract = work.contract /\ work'.to = work.to
      /\ work'.last = work.last /\ work'.at = work.at /\ work'.end = e
  BY <1>1, <1>2 DEF QueryChunk, Scans
<1>4. work' # Nil
  BY <1>3, ListenerAssumption DEF Scans
<1> QED
  BY <1>2, <1>3, <1>4

\* A failed query leaves the progress where it was.
LEMMA QueryFailsEffect ==
  ASSUME TypeOK, ScanInv, QueryFails
  PROVE  /\ contracts' \in [Contracts -> Records \cup {Nil}]
         /\ \A c \in Contracts :
              /\ contracts'[c] = Nil <=> contracts[c] = Nil
              /\ contracts[c] # Nil =>
                   /\ contracts'[c].start = contracts[c].start
                   /\ contracts'[c].current =
                        IF c = work.contract THEN work.last
                        ELSE contracts[c].current
  BY ScanIsTyped, UpdateEffect DEF QueryFails

LEMMA PublishEffect ==
  ASSUME TypeOK, ScanInv, PublishNext
  PROVE  /\ work' \in Scans /\ work' # Nil
         /\ work'.contract = work.contract /\ work'.to = work.to
         /\ work'.last = work.last /\ work'.end = work.end
         /\ work'.at = work.at + 1
         /\ work.contract \in Contracts
         /\ work.at \in Nat \ {0} /\ work.at <= work.end /\ work.at <= head
<1>1. /\ work \in Scans /\ work.contract \in Contracts
      /\ work.at \in Nat /\ work.last \in Nat /\ work.last < work.at
      /\ work.end \in Nat /\ work.to \in Nat /\ head \in Nat
      /\ work.at <= work.end /\ work.end <= work.to /\ work.to <= head
  BY ScanIsTyped, HeadIsNat DEF PublishNext, ScanInv
<1>2. /\ work' \in Scans
      /\ work'.contract = work.contract /\ work'.to = work.to
      /\ work'.last = work.last /\ work'.end = work.end
      /\ work'.at = work.at + 1
  BY <1>1 DEF PublishNext, Scans
<1> QED
  BY <1>1, <1>2, ListenerAssumption DEF Scans

LEMMA EndChunkEffect ==
  ASSUME TypeOK, ScanInv, EndChunk
  PROVE  /\ work.contract \in Contracts /\ work.end \in Nat
         /\ work.last \in Nat
         /\ work.last < work.end /\ work.end <= head
         /\ work.at = work.end + 1
         /\ contracts' \in [Contracts -> Records \cup {Nil}]
         /\ \A c \in Contracts :
              /\ contracts'[c] = Nil <=> contracts[c] = Nil
              /\ contracts[c] # Nil =>
                   /\ contracts'[c].start = contracts[c].start
                   /\ contracts'[c].current =
                        IF c = work.contract THEN work.end
                        ELSE contracts[c].current
         /\ \/ /\ phase' = "query" /\ work.end < work.to
               /\ work' \in Scans /\ work' # Nil
               /\ work'.contract = work.contract /\ work'.to = work.to
               /\ work'.last = work.end /\ work'.at = work.at
            \/ phase' = "next" /\ work' = Nil
<1>1. /\ work \in Scans /\ work.contract \in Contracts
      /\ work.at \in Nat /\ work.last \in Nat /\ work.last < work.end
      /\ work.end \in Nat /\ work.to \in Nat /\ head \in Nat
      /\ work.end <= work.to /\ work.to <= head /\ work.at = work.end + 1
  BY ScanIsTyped, HeadIsNat DEF EndChunk, ScanInv
<1>2. CASE work.end < work.to
  <2>1. /\ phase' = "query" /\ work' \in Scans
        /\ work'.contract = work.contract /\ work'.to = work.to
        /\ work'.last = work.end /\ work'.at = work.at
    BY <1>1, <1>2 DEF EndChunk, Scans
  <2>2. work' # Nil
    BY <2>1, ListenerAssumption DEF Scans
  <2> QED
    BY <1>1, <1>2, <2>1, <2>2, UpdateEffect DEF EndChunk
<1>3. CASE ~(work.end < work.to)
  BY <1>1, <1>3, UpdateEffect DEF EndChunk
<1> QED
  BY <1>2, <1>3

-----------------------------------------------------------------------------
(* Type correctness.                                                       *)

LEMMA RegistersKeepsTypes ==
  ASSUME TypeOK, ScanInv, Registers
  PROVE  TypeOK' /\ ScanInv'
<1>1. PICK a \in Contracts, b \in Nat : Register(a, b)
  BY DEF Registers
<1>2. contracts' \in [Contracts -> Records \cup {Nil}]
  BY <1>1, RegisterEffect
<1>3. published' \in [Contracts -> Seq(Nat)]
  BY <1>1 DEF Register, TypeOK
<1>4. UNCHANGED <<chain, phase, copies, work, stopping>>
  BY <1>1 DEF Register
<1> QED
  BY <1>2, <1>3, <1>4 DEF TypeOK, ScanInv, Records, head

LEMMA MineKeepsTypes ==
  ASSUME TypeOK, ScanInv, NEW events \in [Contracts -> Topics \cup {Nil}],
         Mine(events)
  PROVE  TypeOK' /\ ScanInv'
<1>1. /\ chain' \in Seq([Contracts -> Topics \cup {Nil}])
      /\ Len(chain') = Len(chain) + 1
  BY DEF Mine, TypeOK
<1>2. UNCHANGED <<contracts, phase, copies, work, stopping, published>>
  BY DEF Mine
<1>3. TypeOK'
  BY <1>1, <1>2 DEF TypeOK
<1>4. work # Nil => work.to \in Nat
  BY DEF TypeOK
<1> QED
  BY <1>1, <1>2, <1>3, <1>4, HeadIsNat DEF ScanInv, head

LEMMA ListenerKeepsTypes ==
  ASSUME TypeOK, ScanInv, ListenerStep
  PROVE  TypeOK' /\ ScanInv'
<1>0. head \in Nat
  BY HeadIsNat
<1>1. CASE Copy
  <2>1. /\ DOMAIN copies' \subseteq Contracts
        /\ \A a \in DOMAIN copies' : copies'[a] \in Nat
    BY <1>1 DEF Copy, TypeOK
  <2> QED
    BY <1>1, <2>1 DEF Copy, TypeOK, ScanInv, Phases, head
<1>2. CASE EndCycle
  BY <1>2 DEF EndCycle, TypeOK, ScanInv, Phases, head
<1>3. ASSUME NEW a \in DOMAIN copies, Open(a) PROVE TypeOK' /\ ScanInv'
  <2>1. /\ UNCHANGED <<chain, contracts, stopping, published>>
        /\ phase' = "query"
    BY <1>3 DEF Open
  <2>2. TypeOK'
    BY <1>3, <2>1, OpenEffect DEF TypeOK, Scans, Phases
  <2>3. /\ work' # Nil /\ work'.contract \notin DOMAIN copies'
        /\ work'.to = head' /\ work'.last < work'.to
        /\ work'.at = work'.last + 1
    BY <1>3, <2>1, OpenEffect DEF head
  <2> QED
    BY <1>0, <2>1, <2>2, <2>3 DEF ScanInv, head
<1>4. ASSUME NEW a \in DOMAIN copies, PassOver(a) PROVE TypeOK' /\ ScanInv'
  <2>1. /\ DOMAIN copies' = DOMAIN copies \ {a}
        /\ \A c \in DOMAIN copies' : copies'[c] = copies[c]
    BY <1>4, TakenEffect DEF PassOver
  <2> QED
    BY <1>4, <2>1 DEF PassOver, TypeOK, ScanInv, head
<1>5. CASE QueryChunk
  <2>1. /\ UNCHANGED <<chain, contracts, copies, stopping, published>>
        /\ phase = "query" /\ phase' = "publish"
    BY <1>5 DEF QueryChunk
  <2>2. TypeOK'
    BY <1>5, <2>1, QueryChunkEffect DEF TypeOK, Scans, Phases
  <2>3. work.last \in Nat
    BY <2>1, ScanIsTyped
  <2>4. /\ work' # Nil /\ work'.contract \notin DOMAIN copies'
        /\ work'.to <= head' /\ work'.last < work'.to
        /\ work'.last < work'.end /\ work'.end <= work'.to
        /\ work'.at = work'.last + 1
    BY <1>5, <2>1, QueryChunkEffect DEF ScanInv, head
  <2>5. work'.end \in Nat /\ work'.last = work.last
    BY <1>5, QueryChunkEffect DEF Scans
  <2> QED
    BY <2>1, <2>2, <2>3, <2>4, <2>5 DEF ScanInv
<1>6. CASE QueryFails
  BY <1>6, QueryFailsEffect
     DEF QueryFails, TypeOK, ScanInv, Phases, Records, head
<1>7. CASE PublishNext
  <2>1. /\ UNCHANGED <<chain, contracts, phase, copies, stopping>>
        /\ phase = "publish"
    BY <1>7 DEF PublishNext
  <2>2. published' \in [Contracts -> Seq(Nat)]
    BY <1>7, PublishEffect DEF PublishNext, TypeOK
  <2>3. TypeOK'
    BY <1>7, <2>1, <2>2, PublishEffect DEF TypeOK, Scans
  <2>4. work.end \in Nat /\ work.last \in Nat
    BY <2>1, ScanIsTyped
  <2> QED
    BY <1>7, <2>1, <2>3, <2>4, PublishEffect DEF ScanInv, head
<1>8. CASE EndChunk
  <2>1. UNCHANGED <<chain, copies, stopping, published>> /\ phase = "publish"
    BY <1>8 DEF EndChunk
  <2>2. TypeOK'
    BY <1>8, <2>1, EndChunkEffect DEF TypeOK, Records, Scans, Phases
  <2> QED
    BY <1>8, <2>1, <2>2, EndChunkEffect DEF ScanInv, head
<1>9. CASE Exit
  BY <1>9 DEF Exit, TypeOK, ScanInv, Phases, head
<1> QED
  BY <1>1, <1>2, <1>3, <1>4, <1>5, <1>6, <1>7, <1>8, <1>9 DEF ListenerStep

LEMMA OtherStepKeepsTypes ==
  ASSUME TypeOK, ScanInv, OtherStep
  PROVE  TypeOK' /\ ScanInv'
<1>1. CASE \E events \in [Contracts -> Topics \cup {Nil}] : Mine(events)
  BY <1>1, MineKeepsTypes
<1>2. CASE \E a \in Contracts : UnregisterContract(a)
  BY <1>2 DEF UnregisterContract, TypeOK, ScanInv, head
<1>3. CASE Start \/ StartFails
  BY <1>3 DEF Start, StartFails, TypeOK, ScanInv, Phases, head
<1>4. CASE ListenerStep
  BY <1>4, ListenerKeepsTypes
<1>5. CASE Shutdown
  BY <1>5 DEF Shutdown, TypeOK, ScanInv, head
<1>6. CASE Restart
  <2>1. published' \in [Contracts -> Seq(Nat)]
    BY <1>6, EmptySequence DEF Restart
  <2>2. DOMAIN copies' = {}
    BY <1>6, EmptyDomain DEF Restart
  <2>3. /\ contracts' \in [Contracts -> {Nil}]
        /\ phase' = "off" /\ work' = Nil /\ stopping' = FALSE
        /\ chain' = chain
    BY <1>6 DEF Restart
  <2>4. TypeOK'
    BY <2>1, <2>2, <2>3 DEF TypeOK, Phases
  <2> QED
    BY <2>2, <2>3, <2>4 DEF ScanInv
<1>7. CASE UNCHANGED vars
  BY <1>7 DEF vars, TypeOK, ScanInv, head
<1> QED
  BY <1>1, <1>2, <1>3, <1>4, <1>5, <1>6, <1>7 DEF OtherStep

\* Every step of the listener's own specification is one of these.
LEMMA StepKinds ==
  ASSUME TypeOK, [Next]_vars
  PROVE  /\ Registers \/ OtherStep
         /\ ~Overlaps => SafeRegisters \/ OtherStep
<1>1. ASSUME NEW a \in Contracts,
             \/ \E b \in StartBlocks : RegisterContract(a, b)
             \/ RegisterContractFromCurrent(a)
      PROVE  \E b \in Nat : Register(a, b)
  BY <1>1, HeadIsNat, ListenerAssumption
     DEF RegisterContract, RegisterContractFromCurrent
<1>2. ASSUME NEW a \in Contracts, NEW b \in Nat, Register(a, b)
      PROVE  Registers /\ (~Overlaps => SafeRegisters)
  BY <1>2 DEF Registers, SafeRegisters, Register
<1> QED
  BY <1>1, <1>2 DEF Next, OtherStep

LEMMA InitTypes == Init => TypeOK /\ ScanInv
<1> SUFFICES ASSUME Init PROVE TypeOK /\ ScanInv
  OBVIOUS
<1>1. published \in [Contracts -> Seq(Nat)]
  BY EmptySequence DEF Init
<1>2. chain \in Seq([Contracts -> Topics \cup {Nil}])
  BY EmptySequence DEF Init
<1>3. DOMAIN copies = {}
  BY EmptyDomain DEF Init
<1>4. /\ contracts \in [Contracts -> {Nil}]
      /\ phase = "off" /\ work = Nil /\ stopping = FALSE
  BY DEF Init
<1>5. TypeOK
  BY <1>1, <1>2, <1>3, <1>4 DEF TypeOK, Phases
<1> QED
  BY <1>3, <1>4, <1>5 DEF ScanInv

LEMMA ScanInvariant == Spec => [](TypeOK /\ ScanInv)
<1>1. TypeOK /\ ScanInv /\ [Next]_vars => (TypeOK /\ ScanInv)'
  BY StepKinds, RegistersKeepsTypes, OtherStepKeepsTypes
<1> QED
  BY <1>1, InitTypes, PTL DEF Spec

(***************************************************************************)
(* Type correctness, also when contracts are registered amid a scan.       *)
(***************************************************************************)
THEOREM TypeCorrect == Spec => []TypeOK
  BY ScanInvariant, PTL

-----------------------------------------------------------------------------
(* Progress: nothing but the scan itself moves a contract's progress.      *)

LEMMA OtherStepKeepsProgress ==
  ASSUME TypeOK, ScanInv, ProgressInv, OtherStep
  PROVE  ProgressInv'
<1> SUFFICES ASSUME NEW a \in Contracts, contracts'[a] # Nil
             PROVE  Progresses(a)'
  BY DEF ProgressInv
<1>0. /\ head \in Nat
      /\ contracts[a] # Nil => /\ contracts[a].start \in Nat
                               /\ contracts[a].current \in Nat
                               /\ Progresses(a)
  BY HeadIsNat DEF TypeOK, ProgressInv
<1> USE DEF Progresses, head
<1>1. CASE \E events \in [Contracts -> Topics \cup {Nil}] : Mine(events)
  BY <1>0, <1>1 DEF Mine, TypeOK
<1>2. CASE \E c \in Contracts : UnregisterContract(c)
  BY <1>0, <1>2 DEF UnregisterContract, TypeOK
<1>3. CASE Start \/ StartFails \/ Shutdown \/ EndCycle \/ UNCHANGED vars
  BY <1>0, <1>3 DEF Start, StartFails, Shutdown, EndCycle, vars
<1>4. CASE Copy
  BY <1>0, <1>4 DEF Copy, ScanInv
<1>5. ASSUME NEW c \in DOMAIN copies, Open(c) PROVE Progresses(a)'
  BY <1>0, <1>5, OpenEffect DEF Open
<1>6. ASSUME NEW c \in DOMAIN copies, PassOver(c) PROVE Progresses(a)'
  BY <1>0, <1>6, TakenEffect DEF PassOver
<1>7. CASE QueryChunk
  BY <1>0, <1>7, QueryChunkEffect DEF QueryChunk, ScanInv
<1>8. CASE QueryFails
  BY <1>0, <1>8, QueryFailsEffect DEF QueryFails, ScanInv
<1>9. CASE PublishNext
  BY <1>0, <1>9, PublishEffect DEF PublishNext, ScanInv
<1>10. CASE EndChunk
  BY <1>0, <1>10, EndChunkEffect DEF EndChunk, ScanInv
<1>11. CASE Exit
  BY <1>0, <1>11, EmptyDomain DEF Exit
<1>12. CASE Restart
  BY <1>12 DEF Restart
<1> QED
  BY <1>1, <1>2, <1>3, <1>4, <1>5, <1>6, <1>7, <1>8, <1>9, <1>10, <1>11,
     <1>12 DEF OtherStep, ListenerStep

LEMMA SafeRegistersKeepsProgress ==
  ASSUME TypeOK, ScanInv, ProgressInv, SafeRegisters
  PROVE  ProgressInv'
<1>1. PICK a \in Contracts, b \in Nat : ~InCycle(a) /\ Register(a, b)
  BY DEF SafeRegisters
<1>2. UNCHANGED <<chain, phase, copies, work>>
  BY <1>1 DEF Register
<1>3. ASSUME NEW c \in Contracts, contracts'[c] # Nil PROVE Progresses(c)'
  <2>1. CASE c = a
    BY <1>1, <1>2, <2>1, RegisterEffect DEF Progresses, InCycle
  <2>2. CASE c # a
    BY <1>1, <1>2, <1>3, <2>2, RegisterEffect
       DEF Progresses, ProgressInv, head
  <2> QED
    BY <2>1, <2>2
<1> QED
  BY <1>3 DEF ProgressInv

\* Scanned only grows, block by block, while events are published.
LEMMA ScannedMoves ==
  ASSUME TypeOK, ScanInv, ProgressInv, OtherStep,
         NEW a \in Contracts, contracts'[a] # Nil
  PROVE  /\ contracts[a] # Nil
         /\ contracts'[a].start = contracts[a].start
         /\ IF PublishNext /\ a = work.contract
            THEN Scanned(a) = work.at - 1 /\ Scanned(a)' = work.at
            ELSE Scanned(a)' = Scanned(a)
<1>0. contracts[a] # Nil => /\ contracts[a].current \in Nat
                            /\ Progresses(a)
  BY DEF TypeOK, ProgressInv
<1> USE DEF Scanned
<1>1. CASE PublishNext
  BY <1>1, PublishEffect, ScanIsTyped DEF PublishNext, ScanInv
<1>2. ASSUME ~PublishNext
      PROVE  /\ contracts[a] # Nil
             /\ contracts'[a].start = contracts[a].start
             /\ Scanned(a)' = Scanned(a)
  <2>1. CASE \E events \in [Contracts -> Topics \cup {Nil}] : Mine(events)
    BY <2>1 DEF Mine
  <2>2. CASE \E c \in Contracts : UnregisterContract(c)
    BY <2>2 DEF UnregisterContract, TypeOK
  <2>3. CASE Start \/ StartFails \/ Shutdown \/ EndCycle \/ UNCHANGED vars
    BY <2>3 DEF Start, StartFails, Shutdown, EndCycle, vars
  <2>4. CASE Copy \/ Exit
    BY <2>4 DEF Copy, Exit
  <2>5. ASSUME NEW c \in DOMAIN copies, Open(c)
        PROVE  /\ contracts[a] # Nil
               /\ contracts'[a].start = contracts[a].start
               /\ Scanned(a)' = Scanned(a)
    <3>1. work = Nil /\ UNCHANGED contracts
      BY <2>5 DEF Open, ScanInv
    <3>2. /\ work' # Nil /\ work'.contract = c
          /\ work'.at = copies[c] + 1 /\ copies[c] \in Nat
      BY <2>5, OpenEffect
    <3>3. c = a => copies[c] = contracts[a].current
      BY <1>0, <3>1 DEF Progresses
    <3> QED
      BY <3>1, <3>2, <3>3
  <2>6. CASE \E c \in DOMAIN copies : PassOver(c)
    BY <2>6 DEF PassOver
  <2>7. CASE QueryChunk
    BY <2>7, QueryChunkEffect DEF QueryChunk, ScanInv
  <2>8. CASE QueryFails
    <3>1. /\ work # Nil /\ work' = Nil
          /\ work.at = work.last + 1 /\ work.last \in Nat
      BY <2>8, ScanIsTyped DEF QueryFails, ScanInv
    <3> QED
      BY <2>8, <3>1, QueryFailsEffect
  <2>9. CASE EndChunk
    <3>1. /\ work # Nil /\ work.at = work.end + 1 /\ work.end \in Nat
          /\ contracts[a] # Nil
          /\ contracts'[a].start = contracts[a].start
          /\ contracts'[a].current = IF a = work.contract THEN work.end
                                     ELSE contracts[a].current
      BY <2>9, EndChunkEffect DEF EndChunk, ScanInv
    <3>2. CASE work' = Nil
      BY <3>1, <3>2
    <3>3. CASE work' # Nil
      BY <2>9, <3>1, <3>3, EndChunkEffect
    <3> QED
      BY <3>2, <3>3
  <2>10. CASE Restart
    BY <2>10 DEF Restart
  <2> QED
    BY <1>2, <2>1, <2>2, <2>3, <2>4, <2>5, <2>6, <2>7, <2>8, <2>9, <2>10
       DEF OtherStep, ListenerStep
<1> QED
  BY <1>1, <1>2

\* What the listener has looked at lies between the start and the head.
LEMMA ScannedBounds ==
  ASSUME TypeOK, ScanInv, ProgressInv,
         NEW a \in Contracts, contracts[a] # Nil
  PROVE  /\ contracts[a].start \in Nat /\ Scanned(a) \in Nat
         /\ contracts[a].start <= Scanned(a)
         /\ contracts[a].current <= Scanned(a)
         /\ Scanned(a) = contracts[a].start \/ Scanned(a) <= head
<1>1. /\ contracts[a].start \in Nat /\ contracts[a].current \in Nat
      /\ Progresses(a) /\ head \in Nat
  BY HeadIsNat DEF TypeOK, ProgressInv
<1>2. CASE work # Nil /\ work.contract = a
  <2>1. /\ phase \in {"query", "publish"}
        /\ work.at \in Nat /\ work.last \in Nat /\ work.end \in Nat
        /\ work.to \in Nat /\ work.to <= head
    BY <1>2, ScanIsTyped DEF ScanInv
  <2>2. /\ work.last = contracts[a].current
        /\ work.last <= work.at - 1 /\ work.at - 1 <= work.to
    BY <1>1, <1>2, <2>1 DEF Progresses, ScanInv
  <2> QED
    BY <1>1, <1>2, <2>1, <2>2 DEF Progresses, Scanned
<1>3. CASE ~(work # Nil /\ work.contract = a)
  BY <1>1, <1>3 DEF Progresses, Scanned
<1> QED
  BY <1>2, <1>3

-----------------------------------------------------------------------------
(* Sequences of blocks.                                                    *)

LEMMA NoBlocks == Blocks(<<>>) = {} /\ Ascends(<<>>)
  BY EmptyDomain DEF Blocks, Ascends

LEMMA BlocksOfAppend ==
  ASSUME NEW s \in Seq(Nat), NEW b \in Nat
  PROVE  Blocks(Append(s, b)) = Blocks(s) \cup {b}
<1>1. /\ DOMAIN Append(s, b) = 1 .. Len(s) + 1 /\ DOMAIN s = 1 .. Len(s)
      /\ Len(s) \in Nat
      /\ \A i \in 1 .. Len(s) : Append(s, b)[i] = s[i]
      /\ Append(s, b)[Len(s) + 1] = b
  OBVIOUS
<1> QED
  BY <1>1 DEF Blocks

\* A later block may be appended.
LEMMA AscendsOnAppend ==
  ASSUME NEW s \in Seq(Nat), NEW b \in Nat,
         Ascends(s), \A c \in Blocks(s) : c < b
  PROVE  Ascends(Append(s, b))
<1>1. /\ DOMAIN Append(s, b) = 1 .. Len(s) + 1 /\ DOMAIN s = 1 .. Len(s)
      /\ Len(s) \in Nat
      /\ \A i \in 1 .. Len(s) : Append(s, b)[i] = s[i] /\ s[i] \in Nat
      /\ Append(s, b)[Len(s) + 1] = b
  OBVIOUS
<1>2. \A i \in 1 .. Len(s) : s[i] < b
  BY <1>1 DEF Blocks
<1> QED
  BY <1>1, <1>2 DEF Ascends

-----------------------------------------------------------------------------
(* Delivery.                                                               *)

\* What the bus has received of one contract.
Delivered(a) ==
  /\ Ascends(published[a])
  /\ Blocks(published[a]) =
       {b \in contracts[a].start + 1 .. Scanned(a) : IsOn(a, b)}

LEMMA ExactlyOnceIsDelivered ==
  ExactlyOnceInOrder <=> \A a \in Contracts : contracts[a] # Nil => Delivered(a)
  BY DEF ExactlyOnceInOrder, Delivered

\* Selected events up to the head stay what they are.
LEMMA IsOnStays ==
  ASSUME TypeOK, OtherStep, NEW a \in Contracts, NEW b \in 1 .. head
  PROVE  IsOn(a, b)' = IsOn(a, b)
<1>1. CASE \E events \in [Contracts -> Topics \cup {Nil}] : Mine(events)
  <2>1. /\ chain'[b] = chain[b] /\ Len(chain') = Len(chain) + 1
        /\ Len(chain) \in Nat
    BY <1>1 DEF Mine, TypeOK, head
  <2> QED
    BY <2>1 DEF IsOn, Selected, head
<1>2. CASE UNCHANGED chain
  BY <1>2 DEF IsOn, Selected, head
<1> QED
  BY <1>1, <1>2
     DEF OtherStep, UnregisterContract, Start, StartFails, ListenerStep, Copy,
         EndCycle, Open, PassOver, QueryChunk, QueryFails, PublishNext,
         EndChunk, Exit, Shutdown, Restart, vars

LEMMA PublishedStays ==
  ASSUME OtherStep, ~PublishNext, NEW a \in Contracts, contracts'[a] # Nil
  PROVE  published'[a] = published[a]
<1>1. ~Restart
  BY DEF Restart
<1> QED
  BY <1>1
     DEF OtherStep, Mine, UnregisterContract, Start, StartFails, ListenerStep,
         Copy, EndCycle, Open, PassOver, QueryChunk, QueryFails, EndChunk,
         Exit, Shutdown, vars

LEMMA PublishDelivers ==
  ASSUME Confirmations = 0, TypeOK, ScanInv, ProgressInv, PublishNext,
         NEW a \in Contracts, contracts[a] # Nil, a = work.contract,
         Delivered(a)
  PROVE  Delivered(a)'
<1> DEFINE at == work.at
<1>1. /\ at \in Nat /\ at <= head /\ head \in Nat
      /\ contracts[a].start \in Nat
      /\ contracts[a].start <= at - 1
      /\ Scanned(a) = at - 1
  <2>1. work # Nil
    BY DEF PublishNext, ScanInv
  <2> QED
    BY <2>1, PublishEffect, ScannedBounds, HeadIsNat DEF Scanned
<1>2. Scanned(a)' = at
  BY PublishEffect DEF Scanned
<1>3. /\ UNCHANGED <<chain, contracts>>
      /\ \A b \in Nat : IsOn(a, b)' = IsOn(a, b)
  BY DEF PublishNext, IsOn, Selected, head
<1>4. published[a] \in Seq(Nat)
  BY DEF TypeOK
<1>5. \A b \in Blocks(published[a]) : b < at
  BY <1>1 DEF Delivered
<1>6. CASE IsOn(a, at)
  <2>1. published'[a] = Append(published[a], at)
    BY <1>6 DEF PublishNext, IsOn, Confirmed, TypeOK
  <2>2. Ascends(published'[a])
    BY <1>1, <1>4, <1>5, <2>1, AscendsOnAppend DEF Delivered
  <2>3. Blocks(published'[a]) = Blocks(published[a]) \cup {at}
    BY <1>1, <1>4, <2>1, BlocksOfAppend
  <2>4. Blocks(published'[a]) =
          {b \in contracts[a].start + 1 .. at : IsOn(a, b)}
    BY <1>1, <1>6, <2>3 DEF Delivered
  <2> QED
    BY <1>1, <1>2, <1>3, <2>2, <2>4 DEF Delivered
<1>7. CASE ~IsOn(a, at)
  <2>1. published'[a] = published[a]
    BY <1>1, <1>7 DEF PublishNext, IsOn, TypeOK
  <2>2. Blocks(published[a]) =
          {b \in contracts[a].start + 1 .. at : IsOn(a, b)}
    BY <1>1, <1>7 DEF Delivered
  <2> QED
    BY <1>1, <1>2, <1>3, <2>1, <2>2 DEF Delivered
<1> QED
  BY <1>6, <1>7

LEMMA OtherStepDelivers ==
  ASSUME Confirmations = 0, TypeOK, ScanInv, ProgressInv,
         ExactlyOnceInOrder, OtherStep
  PROVE  ExactlyOnceInOrder'
<1>1. ASSUME NEW a \in Contracts, contracts'[a] # Nil
      PROVE  Delivered(a)'
  <2>1. /\ contracts[a] # Nil
        /\ contracts'[a].start = contracts[a].start
        /\ ~(PublishNext /\ a = work.contract) => Scanned(a)' = Scanned(a)
    BY <1>1, ScannedMoves
  <2>2. Delivered(a)
    BY <2>1, ExactlyOnceIsDelivered
  <2>3. CASE PublishNext /\ a = work.contract
    BY <2>1, <2>2, <2>3, PublishDelivers
  <2>4. CASE ~(PublishNext /\ a = work.contract)
    <3>1. published'[a] = published[a]
      BY <1>1, <2>4, PublishedStays, PublishEffect DEF PublishNext, TypeOK
    <3>2. \A b \in contracts[a].start + 1 .. Scanned(a) :
            IsOn(a, b)' = IsOn(a, b)
      BY <2>1, ScannedBounds, HeadIsNat, IsOnStays
    <3> QED
      BY <2>1, <2>2, <2>4, <3>1, <3>2 DEF Delivered
  <2> QED
    BY <2>3, <2>4
<1> QED
  BY <1>1 DEF ExactlyOnceInOrder, Delivered

LEMMA SafeRegistersDelivers ==
  ASSUME TypeOK, ScanInv, ExactlyOnceInOrder, SafeRegisters
  PROVE  ExactlyOnceInOrder'
<1>1. PICK a \in Contracts, b \in Nat : ~InCycle(a) /\ Register(a, b)
  BY DEF SafeRegisters
<1>2. UNCHANGED <<chain, phase, copies, work>>
  BY <1>1 DEF Register
<1>3. ASSUME NEW c \in Contracts, contracts'[c] # Nil PROVE Delivered(c)'
  <2>1. CASE c = a
    <3>1. published'[c] = <<>>
      BY <1>1, <2>1 DEF Register, TypeOK
    <3>2. Scanned(c)' = b /\ contracts'[c].start = b
      BY <1>1, <1>2, <2>1, RegisterEffect DEF Scanned, InCycle
    <3> QED
      BY <3>1, <3>2, NoBlocks DEF Delivered
  <2>2. CASE c # a
    <3>1. /\ contracts'[c] = contracts[c] /\ published'[c] = published[c]
      BY <1>1, <2>2, RegisterEffect DEF Register, TypeOK
    <3>2. Delivered(c)
      BY <1>3, <3>1, ExactlyOnceIsDelivered
    <3> QED
      BY <1>2, <3>1, <3>2 DEF Delivered, Scanned, IsOn, Selected, head
  <2> QED
    BY <2>1, <2>2
<1> QED
  BY <1>3 DEF ExactlyOnceInOrder, Delivered

LEMMA InitDelivers == Init => ProgressInv /\ ExactlyOnceInOrder
  BY DEF Init, ProgressInv, ExactlyOnceInOrder

LEMMA DeliveryInvariant ==
  ASSUME Confirmations = 0, ~Overlaps
  PROVE  Spec => [](TypeOK /\ ScanInv /\ ProgressInv /\ ExactlyOnceInOrder)
<1>1. TypeOK /\ ScanInv /\ ProgressInv /\ ExactlyOnceInOrder /\ [Next]_vars
        => (ProgressInv /\ ExactlyOnceInOrder)'
  BY StepKinds, OtherStepKeepsProgress, SafeRegistersKeepsProgress,
     OtherStepDelivers, SafeRegistersDelivers
<1> QED
  BY <1>1, InitDelivers, ScanInvariant, PTL DEF Spec

(***************************************************************************)
(* The bus receives each selected event of a contract once and in order,   *)
(* however many contracts come and go, chunks and cycles there are and     *)
(* queries fail.  The assumptions are main.go's: it requires no            *)
(* confirmations and registers no contract amid a scan of it; MCListener-  *)
(* Confirmations and MCListenerOverlap show what happens without them.     *)
(***************************************************************************)
THEOREM DeliversExactlyOnce ==
  ASSUME Confirmations = 0, ~Overlaps
  PROVE  Spec => []ExactlyOnceInOrder
  BY DeliveryInvariant, PTL

(***************************************************************************)
(* Under the same assumptions no progress is recorded past a selected      *)
(* event that the bus has not received, so that neither a failed query nor *)
(* the next cycle skips one.                                               *)
(***************************************************************************)
THEOREM ProgressLosesNothing ==
  ASSUME Confirmations = 0, ~Overlaps
  PROVE  Spec => []ProgressIsPublished
<1>1. TypeOK /\ ScanInv /\ ProgressInv /\ ExactlyOnceInOrder
        => ProgressIsPublished
  <2> SUFFICES ASSUME TypeOK, ScanInv, ProgressInv, ExactlyOnceInOrder,
                      NEW a \in Contracts, contracts[a] # Nil,
                      NEW b \in contracts[a].start + 1 .. contracts[a].current,
                      IsOn(a, b)
               PROVE  IsPublished(a, b)
    BY DEF ProgressIsPublished
  <2>1. /\ contracts[a].current \in Nat /\ contracts[a].start \in Nat
        /\ Scanned(a) \in Nat /\ contracts[a].current <= Scanned(a)
    BY ScannedBounds DEF TypeOK
  <2> QED
    BY <2>1 DEF ExactlyOnceInOrder, IsPublished
<1> QED
  BY <1>1, DeliveryInvariant, PTL

-----------------------------------------------------------------------------
(* The listener implements EventDelivery.                                  *)

LEMMA EmittedStays == UNCHANGED chain => Emitted' = Emitted
  BY DEF Emitted, head, Selected

\* A step that changes no start and adds no event is none to subscribers.
LEMMA SubscribersSeeNothing ==
  ASSUME UNCHANGED chain,
         \A a \in Contracts :
           /\ contracts'[a] = Nil <=> contracts[a] = Nil
           /\ contracts[a] # Nil => /\ contracts'[a].start = contracts[a].start
                                    /\ published'[a] = published[a]
  PROVE  UNCHANGED Delivery!deliveryVars
<1>1. From' = From
  BY DEF From
<1>2. Received' = Received
  BY DEF Received
<1> QED
  BY <1>1, <1>2, EmittedStays DEF Delivery!deliveryVars

LEMMA MineEmits ==
  ASSUME TypeOK, NEW events \in [Contracts -> Topics \cup {Nil}], Mine(events)
  PROVE  Delivery!Next
<1> DEFINE emitters == {a \in Contracts : Selected(events[a])}
<1>1. /\ chain \in Seq([Contracts -> Topics \cup {Nil}])
      /\ chain' = Append(chain, events)
      /\ UNCHANGED <<contracts, published>>
  BY DEF Mine, TypeOK
<1>2. /\ Len(chain) \in Nat /\ Len(chain') = Len(chain) + 1
      /\ \A b \in 1 .. Len(chain) : chain'[b] = chain[b]
      /\ chain'[Len(chain) + 1] = events
  BY <1>1
<1>3. Emitted \in Seq(SUBSET Contracts) /\ Len(Emitted) = Len(chain)
  BY <1>2 DEF Emitted, head
<1>4. Emitted' = Append(Emitted, emitters)
  <2>1. Append(Emitted, emitters) =
          [b \in 1 .. Len(chain) + 1 |-> IF b = Len(chain) + 1 THEN emitters
                                         ELSE Emitted[b]]
    BY <1>2, <1>3
  <2>2. Emitted' = [b \in 1 .. Len(chain) + 1 |->
                      {a \in Contracts : Selected(chain'[b][a])}]
    BY <1>2 DEF Emitted, head, Selected
  <2>3. \A b \in 1 .. Len(chain) + 1 :
          {a \in Contracts : Selected(chain'[b][a])} =
            IF b = Len(chain) + 1 THEN emitters ELSE Emitted[b]
    BY <1>2 DEF Emitted, head
  <2> HIDE DEF emitters
  <2> QED
    BY <2>1, <2>2, <2>3
<1>5. UNCHANGED <<From, Received>>
  BY <1>1 DEF From, Received
<1> QED
  BY <1>4, <1>5 DEF Delivery!Next, Delivery!Emit

LEMMA RegisterFollows ==
  ASSUME TypeOK, NEW a \in Contracts, NEW b \in Nat, Register(a, b)
  PROVE  Delivery!Next
<1>1. /\ UNCHANGED chain
      /\ published' = [published EXCEPT ![a] = <<>>]
      /\ \A c \in Contracts \ {a} : contracts'[c] = contracts[c]
      /\ contracts'[a] # Nil /\ contracts'[a].start = b
  BY RegisterEffect DEF Register
<1>2. From'[a] = b /\ From' = [From EXCEPT ![a] = b]
  BY <1>1 DEF From
<1>3. Received' = [Received EXCEPT ![a] = <<>>]
  BY <1>1 DEF Received, TypeOK
<1> QED
  BY <1>1, <1>2, <1>3, EmittedStays DEF Delivery!Next, Delivery!Follow

\* A contract or all of them are forgotten.
LEMMA ForgetUnfollows ==
  ASSUME UNCHANGED chain, NEW dropped \in SUBSET Contracts,
         \A a \in Contracts :
           IF a \in dropped THEN contracts'[a] = Nil
           ELSE contracts'[a] = contracts[a] /\ published'[a] = published[a]
  PROVE  Delivery!Next
<1>1. From' = [a \in Contracts |-> IF a \in dropped THEN Nil ELSE From[a]]
  BY DEF From
<1>2. Received' = [a \in Contracts |->
                     IF a \in dropped THEN <<>> ELSE Received[a]]
  BY DEF Received
<1> QED
  BY <1>1, <1>2, EmittedStays DEF Delivery!Next, Delivery!Unfollow

\* What is due of a contract lies behind what the listener has looked at.
LEMMA DueIsAhead ==
  ASSUME TypeOK, ScanInv, ProgressInv,
         NEW a \in Contracts, contracts[a] # Nil, Delivered(a)
  PROVE  Delivery!Due(a) = {b \in Scanned(a) + 1 .. head : IsOn(a, b)}
<1>1. /\ head \in Nat /\ Scanned(a) \in Nat /\ contracts[a].start \in Nat
      /\ contracts[a].start <= Scanned(a)
  BY HeadIsNat, ScannedBounds
<1>2. /\ Len(Emitted) = head
      /\ \A b \in 1 .. head : a \in Emitted[b] <=> IsOn(a, b)
  BY <1>1 DEF Emitted, IsOn
<1>3. /\ From[a] = contracts[a].start
      /\ Received[a] = published[a]
  BY DEF From, Received
<1>4. Delivery!Due(a) =
        {b \in 1 .. head : /\ contracts[a].start < b
                           /\ IsOn(a, b)
                           /\ b \notin Blocks(published[a])}
  BY <1>2, <1>3 DEF Delivery!Due, Blocks
<1> QED
  BY <1>1, <1>4 DEF Delivered

LEMMA PublishDeliversNext ==
  ASSUME Confirmations = 0, TypeOK, ScanInv, ProgressInv,
         ExactlyOnceInOrder, PublishNext
  PROVE  Delivery!Next \/ UNCHANGED Delivery!deliveryVars
<1> DEFINE a == work.contract
           at == work.at
<1>1. /\ a \in Contracts /\ at \in Nat /\ at <= head /\ head \in Nat
      /\ work # Nil
      /\ UNCHANGED <<chain, contracts>>
  BY PublishEffect, HeadIsNat DEF PublishNext, ScanInv
<1>2. CASE contracts[a] # Nil /\ IsOn(a, at)
  <2>1. published' = [published EXCEPT ![a] = Append(published[a], at)]
    BY <1>2 DEF PublishNext, IsOn, Confirmed
  <2>2. Received' = [Received EXCEPT ![a] = Append(Received[a], at)]
    BY <1>1, <1>2, <2>1 DEF Received, TypeOK
  <2>3. Scanned(a) = at - 1
    BY <1>1 DEF Scanned
  <2>4. Delivery!Due(a) = {b \in at .. head : IsOn(a, b)}
    BY <1>1, <1>2, <2>3, DueIsAhead, ExactlyOnceIsDelivered
  <2>5. at \in Delivery!Due(a) /\ \A c \in Delivery!Due(a) : at <= c
    BY <1>1, <1>2, <2>4
  <2>6. From[a] # Nil
    BY <1>1, <1>2, ListenerAssumption DEF From, TypeOK
  <2>7. UNCHANGED <<Emitted, From>>
    BY <1>1, EmittedStays DEF From
  <2>8. at \in 1 .. Len(Emitted)
    BY <1>1, PublishEffect DEF Emitted
  <2>9. Delivery!Deliver(a, at)
    BY <2>2, <2>5, <2>6, <2>7 DEF Delivery!Deliver
  <2> QED
    BY <1>1, <2>8, <2>9 DEF Delivery!Next
<1>3. CASE contracts[a] = Nil
  <2>1. \A c \in Contracts \ {a} : published'[c] = published[c]
    BY DEF PublishNext, TypeOK
  <2> QED
    BY <1>1, <1>3, <2>1, SubscribersSeeNothing
<1>4. CASE ~IsOn(a, at)
  <2>1. published' = published
    BY <1>1, <1>4 DEF PublishNext, IsOn
  <2> QED
    BY <1>1, <2>1, SubscribersSeeNothing
<1> QED
  BY <1>2, <1>3, <1>4

LEMMA OtherStepImplements ==
  ASSUME Confirmations = 0, TypeOK, ScanInv, ProgressInv,
         ExactlyOnceInOrder, OtherStep
  PROVE  Delivery!Next \/ UNCHANGED Delivery!deliveryVars
<1>1. CASE \E events \in [Contracts -> Topics \cup {Nil}] : Mine(events)
  BY <1>1, MineEmits
<1>2. ASSUME NEW a \in Contracts, UnregisterContract(a) PROVE Delivery!Next
  <2>1. {a} \in SUBSET Contracts
    OBVIOUS
  <2> QED
    BY <1>2, <2>1, ForgetUnfollows DEF UnregisterContract, TypeOK
<1>3. CASE PublishNext
  BY <1>3, PublishDeliversNext
<1>4. CASE QueryFails
  BY <1>4, QueryFailsEffect, SubscribersSeeNothing DEF QueryFails
<1>5. CASE EndChunk
  BY <1>5, EndChunkEffect, SubscribersSeeNothing DEF EndChunk
<1>6. CASE Restart
  BY <1>6, ForgetUnfollows DEF Restart
<1>7. CASE UNCHANGED <<chain, contracts, published>>
  BY <1>7, SubscribersSeeNothing
<1> QED
  BY <1>1, <1>2, <1>3, <1>4, <1>5, <1>6, <1>7
     DEF OtherStep, Start, StartFails, ListenerStep, Copy, EndCycle, Open,
         PassOver, QueryChunk, Exit, Shutdown, vars

LEMMA SafeRegistersImplements ==
  ASSUME TypeOK, SafeRegisters
  PROVE  Delivery!Next
  BY RegisterFollows DEF SafeRegisters

LEMMA InitImplements == Init => Delivery!Init
<1> SUFFICES ASSUME Init PROVE Delivery!Init
  OBVIOUS
<1>1. Emitted = <<>>
  BY DEF Init, Emitted, head
<1>2. From = [a \in Contracts |-> Nil] /\ Received = [a \in Contracts |-> <<>>]
  BY DEF Init, From, Received
<1> QED
  BY <1>1, <1>2 DEF Delivery!Init

(***************************************************************************)
(* Every step of the listener gives the bus the next event that is due, or *)
(* is none to the subscribers: under main.go's settings it implements      *)
(* EventDelivery.                                                          *)
(***************************************************************************)
THEOREM ImplementsEventDelivery ==
  ASSUME Confirmations = 0, ~Overlaps
  PROVE  Spec => DeliversEvents
<1>1. TypeOK /\ ScanInv /\ ProgressInv /\ ExactlyOnceInOrder /\ [Next]_vars
        => [Delivery!Next]_(Delivery!deliveryVars)
  BY StepKinds, OtherStepImplements, SafeRegistersImplements
<1> QED
  BY <1>1, InitImplements, DeliveryInvariant, PTL
     DEF Spec, DeliversEvents, Delivery!Spec

-----------------------------------------------------------------------------
(* The way out after Shutdown.                                             *)

\* Only a listener that was started is shut down.
StopsRunning == stopping => phase \notin {"off", "failed"}

LEMMA NextStopsRunning == StopsRunning /\ OtherStep => StopsRunning'
  BY DEF StopsRunning, OtherStep, Mine, UnregisterContract, Start, StartFails,
         ListenerStep, Copy, EndCycle, Open, PassOver, QueryChunk, QueryFails,
         PublishNext, EndChunk, Exit, Shutdown, Restart, vars

LEMMA CopiesAreFinite ==
  ASSUME TypeOK
  PROVE  /\ IsFiniteSet(DOMAIN copies)
         /\ Cardinality(DOMAIN copies) \in Nat
  BY FS_Subset, FS_CardinalityType, ListenerAssumption DEF TypeOK

\* What holds of an action that is taken after Shutdown.
WindsDown ==
  \/ UNCHANGED listenerVars
  \/ StepsToEnd' \in 0 .. StepsToEnd - 1

LEMMA ListenerWindsDown ==
  ASSUME TypeOK, ScanInv, ListenerStep, stopping
  PROVE  StepsToEnd' \in 0 .. StepsToEnd - 1
<1> DEFINE n == Cardinality(DOMAIN copies)
<1>1. n \in Nat
  BY CopiesAreFinite
<1>2. CASE EndCycle
  <2>1. n = 0
    BY <1>2, FS_EmptySet DEF EndCycle
  <2> QED
    BY <1>2, <2>1 DEF EndCycle, StepsToEnd
<1>3. ASSUME NEW a \in DOMAIN copies, PassOver(a)
      PROVE  StepsToEnd' \in 0 .. StepsToEnd - 1
  <2>1. DOMAIN copies' = DOMAIN copies \ {a}
    BY <1>3, TakenEffect DEF PassOver
  <2>2. Cardinality(DOMAIN copies') = n - 1
    BY <2>1, CopiesAreFinite, FS_RemoveElement
  <2>3. Cardinality(DOMAIN copies') \in Nat
    BY <2>1, CopiesAreFinite, FS_RemoveElement, FS_CardinalityType
  <2>4. phase = "next" /\ phase' = "next"
    BY <1>3 DEF PassOver
  <2> HIDE DEF n
  <2>5. StepsToEnd = n + 2 /\ StepsToEnd' = n + 1 /\ n - 1 \in Nat
    BY <1>1, <2>2, <2>3, <2>4 DEF StepsToEnd, n
  <2> QED
    BY <1>1, <2>5
<1>4. CASE QueryFails
  BY <1>1, <1>4 DEF QueryFails, StepsToEnd
<1>5. CASE PublishNext
  <2>1. /\ phase = "publish" /\ phase' = "publish" /\ copies' = copies
        /\ work.at <= work.end
    BY <1>5 DEF PublishNext
  <2>2. /\ work.end \in Nat /\ work.at \in Nat
        /\ work'.end = work.end /\ work'.at = work.at + 1
    BY <1>5, <2>1, ScanIsTyped, PublishEffect
  <2> QED
    BY <1>1, <2>1, <2>2 DEF StepsToEnd
<1>6. CASE EndChunk
  <2>1. /\ phase = "publish" /\ phase' \in {"query", "next"}
        /\ copies' = copies
    BY <1>6 DEF EndChunk
  <2>2. work.end \in Nat /\ work.at = work.end + 1
    BY <1>6, EndChunkEffect
  <2> QED
    BY <1>1, <2>1, <2>2 DEF StepsToEnd
<1>7. CASE Exit
  BY <1>1, <1>7 DEF Exit, StepsToEnd
<1> QED
  BY <1>2, <1>3, <1>4, <1>5, <1>6, <1>7
     DEF ListenerStep, Copy, Open, QueryChunk

LEMMA InitStopsRunning == Init => StopsRunning
  BY DEF Init, StopsRunning

LEMMA RegistersWindsDown ==
  ASSUME Registers
  PROVE  WindsDown /\ (StopsRunning => StopsRunning')
  BY DEF Registers, Register, WindsDown, listenerVars, StopsRunning

LEMMA OtherStepWindsDown ==
  ASSUME TypeOK, ScanInv, StopsRunning, OtherStep, stopping, stopping'
  PROVE  WindsDown
<1>1. CASE ListenerStep
  BY <1>1, ListenerWindsDown DEF WindsDown
<1>2. CASE ~ListenerStep
  BY <1>2 DEF OtherStep, Mine, UnregisterContract, Start, StartFails, Shutdown,
              Restart, vars, listenerVars, StopsRunning, WindsDown
<1> QED
  BY <1>1, <1>2

(***************************************************************************)
(* After Shutdown the listener takes a bounded number of steps, each of    *)
(* which leads towards its end, also when contracts are registered amid    *)
(* their scans.  With calls that return it therefore ends.                 *)
(***************************************************************************)
THEOREM ShuttingDownIsBounded == Spec => ShutdownIsBounded
<1>1. TypeOK /\ StopsRunning /\ [Next]_vars => StopsRunning'
  BY StepKinds, RegistersWindsDown, NextStopsRunning
<1>2. TypeOK /\ ScanInv /\ StopsRunning /\ [Next]_vars
        => [stopping /\ stopping' =>
              \/ UNCHANGED listenerVars
              \/ StepsToEnd' \in 0 .. StepsToEnd - 1]_vars
  BY StepKinds, RegistersWindsDown, OtherStepWindsDown DEF WindsDown
<1> QED
  BY <1>1, <1>2, InitStopsRunning, ScanInvariant, PTL
     DEF Spec, ShutdownIsBounded

=============================================================================
