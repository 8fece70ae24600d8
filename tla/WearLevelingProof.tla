------------------------- MODULE WearLevelingProof -------------------------
(***************************************************************************)
(* Proofs about the wear-levelling simulator, for every memory with more   *)
(* physical pages than virtual ones (WearAssumption).  The argument is the *)
(* inductive invariant WInv of WearLeveling: each virtual page has one     *)
(* live copy, so a full memory always has a page to recycle (SomeRoom, a   *)
(* pigeonhole), an erase never touches a live copy, and a write always     *)
(* ends by storing.  Blank is needed for gCurrentWorkingSector, which is   *)
(* -1 only while every page is free.                                       *)
(***************************************************************************)
EXTENDS WearLeveling, FiniteSetTheorems, WellFoundedInduction, TLAPS

\* The physical pages are finitely many, every sector has one.
LEMMA CellsFacts ==
  /\ IsFiniteSet(Cells) /\ Cardinality(Cells) = NbrSector * NbrPageSector
  /\ \A c \in Cells : c[1] \in Sectors
  /\ \A s \in Sectors : CellsIn(s) # {}
  /\ Unmapped \notin Cells
<1> DEFINE P == 0..(NbrPageSector - 1)
<1>7. /\ NbrSector \in Int /\ NbrSector > 0
      /\ NbrPageSector \in Int /\ NbrPageSector > 0
  BY WearAssumption
<1>8. IsFiniteSet(Sectors) /\ Cardinality(Sectors) = NbrSector
  BY <1>7, FS_Interval DEF Sectors
<1>1. IsFiniteSet(P) /\ Cardinality(P) = NbrPageSector /\ 0 \in P
  BY <1>7, FS_Interval
<1> HIDE DEF P
<1>2. Cells = Sectors \X P
  BY DEF Cells, P
<1>3. IsFiniteSet(Cells) /\ Cardinality(Cells) = NbrSector * NbrPageSector
  BY <1>1, <1>2, <1>8, FS_Product
<1>4. \A c \in Cells : c[1] \in Sectors
  BY <1>2
<1>5. ASSUME NEW s \in Sectors PROVE <<s, 0>> \in CellsIn(s)
  BY <1>1, <1>2 DEF CellsIn
<1>6. QED BY <1>3, <1>4, <1>5, UnmappedAssumption

\* The free pages are finitely many.
LEMMA FreeFinite == IsFiniteSet(Free) /\ Cardinality(Free) \in Nat
BY CellsFacts, FS_Subset, FS_CardinalityType DEF Free

\* The initial state satisfies the inductive invariant.
LEMMA InitWInv == Init => WInv
<1> SUFFICES ASSUME Init PROVE WInv
  OBVIOUS
<1> USE WearAssumption, UnmappedAssumption DEF Init
<1>6. 0 \in VPages /\ 0 \in Sectors /\ NbrSector * NbrPageSector \in Nat
  BY DEF VPages, Sectors
<1>1. TypeOK
  <2>1. i \in 0..NbrVirtual \cup 0..NbrWrites /\ Loop \in 1..NbrLoops
    OBVIOUS
  <2>2. /\ Type \in [Cells -> {"FREE", "RECYCLE", "USED"}]
        /\ Virtual \in [Cells -> VPages]
        /\ Data \in [Cells -> Values \cup {Erased}]
        /\ SectorEndurance \in [Sectors -> Nat]
    BY <1>6
  <2>3. /\ Physical \in [VPages -> Cells \cup {Unmapped}]
        /\ VData \in [VPages -> Values]
    BY WearAssumption
  <2>4. QED BY <1>6, <2>1, <2>2, <2>3 DEF TypeOK
<1>2. Free = Cells
  BY DEF Free
<1>3. FreePagesAccounted /\ EraseFreesPage
  BY <1>2, CellsFacts DEF FreePagesAccounted, EraseFreesPage
<1>4. MappingExact /\ Control /\ Mapped /\ Blank /\ TargetValid
  BY DEF MappingExact, Control, Mapped, Blank, TargetValid, VPages
<1>5. QED BY <1>1, <1>3, <1>4 DEF WInv

\* The pigeonhole: with fewer virtual pages than physical ones and one live copy
\* of each, a memory without a free page has a page to recycle.
LEMMA SomeRoom ==
  ASSUME TypeOK, MappingExact, Free = {}
  PROVE  With_Recycle # {}
<1> DEFINE f == [c \in Cells |-> Virtual[c]]
<1>1. IsFiniteSet(VPages) /\ Cardinality(VPages) = NbrVirtual
  BY FS_Interval, WearAssumption DEF VPages
<1>2. f \in [Cells -> VPages]
  BY DEF TypeOK
<1> HIDE DEF f
<1>3. PICK c \in Cells, d \in Cells : c # d /\ f[c] = f[d]
  BY <1>1, <1>2, CellsFacts, FS_PigeonHole, WearAssumption
<1>4. Virtual[c] = Virtual[d]
  BY <1>3 DEF f
<1>5. Type[c] = "RECYCLE" \/ Type[d] = "RECYCLE"
  BY <1>3, <1>4 DEF TypeOK, MappingExact, Free
<1>6. QED BY <1>5, CellsFacts DEF With_Recycle, CellsIn

\* WriteVMemory up to STEP0, from either loop of _tmain, keeps the invariant.
LEMMA BeginStep ==
  ASSUME WInv, NEW v \in VPages, NEW x \in Values, WriteVMemory(v, x), ~writing,
         \/ phase = "fill" /\ i = v
         \/ phase = "wear" /\ i < NbrWrites,
         UNCHANGED <<phase, Loop, i>>
  PROVE  WInv'
<1> USE DEF WInv, WriteVMemory, flashVars
<1>1. /\ 0 \in Sectors
      /\ Physical[v] # Unmapped => Physical[v][1] \in Sectors
  BY CellsFacts, WearAssumption DEF TypeOK, Sectors
<1>2. (IF Physical[v] = Unmapped THEN 0 ELSE Physical[v][1]) \in Sectors
  BY <1>1
<1>3. gCurrentWorkingSector = -1 => Physical[v] = Unmapped /\ FreeIn(0) # {}
  BY <1>1, CellsFacts DEF Blank, MappingExact, FreeIn, CellsIn, TypeOK
<1>4. /\ Idx_Target_Sector' \in Sectors
      /\ gCurrentWorkingSector = -1 => Idx_Target_Sector' = 0
  BY <1>2, <1>3 DEF TypeOK
<1>5. TypeOK'
  BY <1>4 DEF TypeOK
<1>6. MappingExact' /\ FreePagesAccounted' /\ EraseFreesPage'
  BY DEF MappingExact, FreePagesAccounted, EraseFreesPage, Free
<1>7. Control'
  <2>1. VData'[v] = x /\ Idx_VPage' = v /\ BuffSrc' = x
    BY DEF TypeOK
  <2>2. /\ phase' \in {"fill", "wear"}
        /\ phase' = "fill" => i' < NbrVirtual /\ i' = v
        /\ phase' = "wear" => i' < NbrWrites
    BY WearAssumption DEF VPages
  <2>3. QED BY <2>1, <2>2, WearAssumption DEF Control, VPages
<1>10. Blank' /\ TargetValid'
  BY <1>4 DEF Blank, TargetValid
<1>8. Mapped'
  BY DEF Mapped, Intact, TypeOK
<1>9. QED BY <1>5, <1>6, <1>7, <1>8, <1>10

\* Storing the data keeps the invariant.
LEMMA StoreStep ==
  ASSUME WInv, Store
  PROVE  WInv'
<1> USE DEF WInv
<1>1. PICK dst \in CellsIn(Idx_Target_Sector) :
        Sect_Find_Page_Free(dst) /\ Page_Copy(Idx_VPage, dst)
  BY DEF Store
<1> DEFINE v == Idx_VPage
<1>2. /\ dst \in Cells /\ Type[dst] = "FREE" /\ v \in VPages /\ dst # Physical[v]
      /\ dst # Unmapped /\ dst[1] \in Sectors
  BY <1>1, CellsFacts DEF CellsIn, Sect_Find_Page_Free, TypeOK, MappingExact
<1>3. /\ Type' = [c \in Cells |-> IF c = dst THEN "USED"
                              ELSE IF c = Physical[v] THEN "RECYCLE" ELSE Type[c]]
      /\ Virtual' = [Virtual EXCEPT ![dst] = v]
      /\ Data' = [Data EXCEPT ![dst] = VData[v]]
      /\ Physical' = [Physical EXCEPT ![v] = dst]
      /\ Writes' = Writes + 1
      /\ gCurrentWorkingSector' = dst[1]
  BY <1>1 DEF Page_Copy
<1>4. /\ writing /\ writing' = FALSE /\ Idx_VPage' = 0 /\ BuffSrc' = Zero
      /\ Idx_Target_Sector' = 0 /\ i' = i + 1
      /\ UNCHANGED <<SectorEndurance, Endurance, MemNbrFree, VData, phase, Loop>>
  BY DEF Store, ReturnFromWrite
<1> HIDE DEF v
<1>5. i' \in 0..NbrVirtual \cup 0..NbrWrites
  BY <1>4, WearAssumption DEF Control, TypeOK
<1>13. 0 \in VPages /\ 0 \in Sectors
  BY WearAssumption DEF VPages, Sectors
<1>6. TypeOK'
  <2>1. /\ Type' \in [Cells -> {"FREE", "RECYCLE", "USED"}]
        /\ Virtual' \in [Cells -> VPages]
        /\ Data' \in [Cells -> Values \cup {Erased}]
    BY <1>2, <1>3 DEF TypeOK
  <2>2. /\ Physical' \in [VPages -> Cells \cup {Unmapped}] /\ Writes' \in Nat
        /\ gCurrentWorkingSector' \in Sectors \cup {-1}
    BY <1>2, <1>3 DEF TypeOK
  <2>3. /\ Idx_VPage' \in VPages /\ Idx_Target_Sector' \in Sectors \cup {-1}
        /\ BuffSrc' \in Values
        /\ writing' \in BOOLEAN /\ i' \in 0..NbrVirtual \cup 0..NbrWrites
    BY <1>4, <1>5, <1>13, WearAssumption
  <2>4. QED BY <1>4, <2>1, <2>2, <2>3 DEF TypeOK
<1>7. MappingExact'
  BY <1>2, <1>3 DEF MappingExact, TypeOK
<1>8. Control'
  BY <1>4, WearAssumption DEF Control, TypeOK
<1>9. Mapped'
  <2>1. \A u \in VPages : u # v /\ Physical[u] # Unmapped =>
          Physical[u] # dst /\ Physical[u] \in Cells
    BY <1>2 DEF MappingExact, TypeOK
  <2>2. \A u \in VPages : Physical'[u] # Unmapped => Intact(u)'
    BY <1>2, <1>3, <1>4, <2>1 DEF Mapped, Intact, TypeOK, v
  <2>3. \A u \in VPages : phase' # "fill" \/ u < i' => Physical'[u] # Unmapped
    BY <1>2, <1>3, <1>4 DEF Mapped, Control, TypeOK, VPages, v
  <2>4. QED BY <2>2, <2>3 DEF Mapped
<1>10. Blank' /\ TargetValid' /\ EraseFreesPage' /\ phase' # "error"
  BY <1>2, <1>3, <1>4, WearAssumption DEF Blank, TargetValid, EraseFreesPage,
     Sectors
<1>11. FreePagesAccounted'
  <2>1. Free' = Free \ {dst} /\ dst \in Free
    <3>1. Physical[v] # Unmapped => Physical[v] \in Cells /\ Type[Physical[v]] = "USED"
      BY <1>2 DEF TypeOK, MappingExact
    <3>2. \A c \in Cells : Type'[c] = "FREE" <=> Type[c] = "FREE" /\ c # dst
      BY <1>2, <1>3, <3>1, UnmappedAssumption
    <3>3. QED BY <1>2, <3>2 DEF Free
  <2>2. Cardinality(Free') = Cardinality(Free) - 1
    BY <2>1, FreeFinite, FS_RemoveElement
  <2>3. QED BY <1>3, <1>4, <2>2, FreeFinite DEF FreePagesAccounted, TypeOK
<1>12. QED BY <1>6, <1>7, <1>8, <1>9, <1>10, <1>11

\* Going to another sector keeps the invariant.
LEMMA SwitchStep ==
  ASSUME WInv, Switch
  PROVE  WInv'
<1> USE DEF WInv, Switch, flashVars, virtualVars
<1>1. Idx_Target_Sector' \in Sectors
  OBVIOUS
<1>2. TypeOK'
  BY <1>1 DEF TypeOK
<1>3. MappingExact' /\ Control' /\ Mapped' /\ EraseFreesPage' /\ TargetValid'
  BY <1>1 DEF MappingExact, Control, Mapped, Intact, EraseFreesPage,
     TargetValid
<1>4. FreePagesAccounted'
  BY DEF FreePagesAccounted, Free
<1>5. gCurrentWorkingSector # -1
  BY CellsFacts, WearAssumption DEF Blank, FreeIn, CellsIn, TypeOK, TargetValid
<1>6. Blank'
  BY <1>5 DEF Blank
<1>7. QED BY <1>2, <1>3, <1>4, <1>6

\* Erasing keeps the invariant: the branch "ERROR ERROR" is never taken, and the
\* erased pages are nobody's current page.
LEMMA DefragStep ==
  ASSUME WInv, Defrag
  PROVE  WInv'
<1> USE DEF WInv
<1>1. writing /\ Free = {} /\ With_Recycle # {}
  BY SomeRoom DEF Defrag
<1>2. PICK s \in DefragChoices : DefragSector(s) /\ Idx_Target_Sector' = s
  BY <1>1 DEF Defrag, DefragChoices
<1> DEFINE old == {c \in CellsIn(s) : Type[c] = "RECYCLE"}
<1>3. /\ UNCHANGED <<Physical, VData, Writes, gCurrentWorkingSector, phase, Loop, i>>
      /\ UNCHANGED <<writing, Idx_VPage, BuffSrc>>
  BY <1>1 DEF Defrag, DefragChoices, virtualVars
<1>4. s \in Sectors /\ old # {} /\ old \in SUBSET Cells
  BY CellsFacts DEF DefragChoices, Full_Recycle, With_Recycle, CellsIn
<1>5. /\ Type' = [c \in Cells |-> IF c \in old THEN "FREE" ELSE Type[c]]
      /\ Virtual' = [c \in Cells |-> IF c \in old THEN 0 ELSE Virtual[c]]
      /\ Data' = [c \in Cells |-> IF c \in old THEN Erased ELSE Data[c]]
      /\ MemNbrFree' = MemNbrFree + Cardinality(old)
      /\ SectorEndurance' = [SectorEndurance EXCEPT ![s] = @ + 1]
      /\ Endurance' = Endurance + 1
  BY <1>2 DEF DefragSector
<1>6. \A c \in old : Type[c] = "RECYCLE"
  OBVIOUS
<1>7. Cardinality(old) \in Nat /\ Cardinality(old) > 0
  BY <1>4, CellsFacts, FS_Subset, FS_CardinalityType, FS_EmptySet
<1>8. Free' = old
  BY <1>1, <1>4, <1>5 DEF Free
<1> HIDE DEF old
<1>9. TypeOK'
  <2>1. 0 \in VPages
    BY WearAssumption DEF VPages
  <2>2. /\ Type' \in [Cells -> {"FREE", "RECYCLE", "USED"}]
        /\ Virtual' \in [Cells -> VPages]
        /\ Data' \in [Cells -> Values \cup {Erased}]
    BY <1>5, <2>1 DEF TypeOK
  <2>3. Endurance' \in Nat /\ MemNbrFree' \in Nat
    BY <1>5, <1>7 DEF TypeOK
  <2>5. SectorEndurance' \in [Sectors -> Nat]
    BY <1>4, <1>5 DEF TypeOK
  <2>4. QED BY <1>2, <1>3, <1>4, <2>2, <2>3, <2>5 DEF TypeOK
<1>10. MappingExact'
  BY <1>3, <1>5, <1>6 DEF MappingExact, TypeOK
<1>11. Mapped'
  <2>1. \A v \in VPages : Physical[v] # Unmapped => Physical[v] \in Cells \ old
    BY <1>6 DEF MappingExact, TypeOK
  <2>2. QED BY <1>3, <1>5, <2>1 DEF Mapped, Intact
<1>12. Control' /\ TargetValid'
  BY <1>2, <1>3, <1>4 DEF Control, TargetValid
<1>13. Blank'
  <2>1. gCurrentWorkingSector # -1
    BY <1>4, <1>6 DEF Blank
  <2>2. QED BY <1>3, <2>1 DEF Blank
<1>14. FreePagesAccounted'
  <2>1. Cardinality(Free) = 0
    BY <1>1, FS_EmptySet
  <2>2. QED BY <1>3, <1>5, <1>7, <1>8, <2>1 DEF FreePagesAccounted, TypeOK
<1>15. EraseFreesPage'
  BY <1>5, <1>7, WearAssumption DEF EraseFreesPage, TypeOK
<1>16. QED BY <1>3, <1>9, <1>10, <1>11, <1>12, <1>13, <1>14, <1>15

\* CheckMemory keeps the invariant: it finds no error.
LEMMA CheckStep ==
  ASSUME WInv, Check
  PROVE  WInv'
<1> USE WearAssumption, UnmappedAssumption DEF WInv
<1>1. ~writing /\ phase = "check" /\ UNCHANGED <<gCurrentWorkingSector, callVars>>
  BY DEF Check, Control
<1>2. \A v \in 0..(Checked - 1) : Intact(v)
  BY <1>1 DEF Mapped, VPages
<1>3. CASE LoopsLeft
  <2> USE <1>2, <1>3 DEF Check
  <2>1. TypeOK'
    <3>1. /\ 0 \in VPages /\ 0 \in Sectors /\ NbrSector * NbrPageSector \in Nat
          /\ Loop + 1 \in 1..NbrLoops /\ 0 \in 0..NbrVirtual
      BY DEF VPages, Sectors, TypeOK, LoopsLeft
    <3>2. /\ Type' \in [Cells -> {"FREE", "RECYCLE", "USED"}]
          /\ Virtual' \in [Cells -> VPages]
          /\ Data' \in [Cells -> Values \cup {Erased}]
          /\ SectorEndurance' \in [Sectors -> Nat]
      BY <3>1
    <3>3. /\ Physical' \in [VPages -> Cells \cup {Unmapped}]
          /\ VData' \in [VPages -> Values]
      OBVIOUS
    <3>4. /\ Loop' \in 1..NbrLoops /\ i' \in 0..NbrVirtual \cup 0..NbrWrites
          /\ Endurance' \in Nat /\ MemNbrFree' \in Nat /\ Writes' \in Nat
      BY <3>1
    <3>5. QED BY <1>1, <3>2, <3>3, <3>4 DEF TypeOK, callVars
  <2>2. Free' = Cells
    BY DEF Free
  <2>3. FreePagesAccounted' /\ EraseFreesPage'
    BY <2>2, CellsFacts DEF FreePagesAccounted, EraseFreesPage
  <2>4. MappingExact' /\ Control' /\ Mapped' /\ Blank' /\ TargetValid'
    BY <1>1 DEF MappingExact, Control, Mapped, Blank, TargetValid, VPages,
       callVars
  <2>5. QED BY <2>1, <2>3, <2>4
<1>4. CASE ~LoopsLeft
  <2>1. phase' = "done" /\ UNCHANGED <<flashVars, virtualVars, Loop, i>>
    BY <1>2, <1>4 DEF Check
  <2>2. QED
    BY <1>1, <2>1 DEF flashVars, virtualVars, callVars, TypeOK, MappingExact,
       Control, Mapped,
       Intact, Blank, TargetValid, FreePagesAccounted, EraseFreesPage, Free
<1>5. QED BY <1>3, <1>4

\* Every step keeps the inductive invariant.
LEMMA NextWInv == WInv /\ [Next]_vars => WInv'
<1> SUFFICES ASSUME WInv, [Next]_vars PROVE WInv'
  OBVIOUS
<1> USE WearAssumption
<1>1. CASE Fill
  <2>1. i \in VPages /\ WriteVMemory(i, Zero) /\ ~writing /\ UNCHANGED <<phase, Loop, i>>
    BY <1>1 DEF Fill, WInv, TypeOK, VPages
  <2>2. QED BY <1>1, <2>1, BeginStep DEF Fill
<1>2. CASE Wear
  <2>1. PICK v \in IF i % (HsmRun + 1) # 0 THEN HsmPages ELSE NsmPages, x \in Values :
          WriteVMemory(v, x)
    BY <1>2 DEF Wear
  <2>2. v \in VPages
    BY DEF HsmPages, NsmPages, VPages
  <2>3. QED BY <1>2, <2>1, <2>2, BeginStep DEF Wear
<1>3. CASE FillDone
  BY <1>3 DEF FillDone, WInv, flashVars, virtualVars, callVars, TypeOK,
     MappingExact, Control,
     Mapped, Intact, VPages, Blank, TargetValid, FreePagesAccounted,
     EraseFreesPage, Free
<1>4. CASE WearDone
  BY <1>4 DEF WearDone, WInv, flashVars, virtualVars, callVars, TypeOK,
     MappingExact, Control,
     Mapped, Intact, Blank, TargetValid, FreePagesAccounted, EraseFreesPage,
     Free
<1>5. CASE Store
  BY <1>5, StoreStep
<1>6. CASE Switch
  BY <1>6, SwitchStep
<1>7. CASE Defrag
  BY <1>7, DefragStep
<1>8. CASE Check
  BY <1>8, CheckStep
<1>9. CASE UNCHANGED vars
  BY <1>9 DEF vars, WInv, flashVars, virtualVars, callVars, TypeOK,
     MappingExact, Control,
     Mapped, Intact, Blank, TargetValid, FreePagesAccounted, EraseFreesPage,
     Free
<1>10. QED
  BY <1>1, <1>2, <1>3, <1>4, <1>5, <1>6, <1>7, <1>8, <1>9 DEF Next
\* WInv holds throughout, for every geometry of the memory with more physical
\* pages than virtual ones.
THEOREM Invariant == Spec => []WInv
BY InitWInv, NextWInv, PTL DEF Spec

\* Type correctness of the simulator.
THEOREM TypeCorrect == Spec => []TypeOK
<1>1. WInv => TypeOK
  BY DEF WInv
<1>2. QED BY <1>1, Invariant, PTL

\* A virtual page is in the page in use that names it, and every page in use is
\* the current page of the one it names.
THEOREM TranslationExact == Spec => []MappingExact
<1>1. WInv => MappingExact
  BY DEF WInv
<1>2. QED BY <1>1, Invariant, PTL

\* Page_Copy, the gotos of WriteVMemory and DefragSector never lose the data of
\* a page: the flash holds the RAM image.
THEOREM NoDataLost == Spec => []MirrorIntact
<1>1. WInv => MirrorIntact
  BY DEF WInv, Mapped, MirrorIntact
<1>2. QED BY <1>1, Invariant, PTL

\* WriteVMemory never searches sector -1, gCurrentWorkingSector's initial value.
THEOREM TargetInRange == Spec => []TargetValid
<1>1. WInv => TargetValid
  BY DEF WInv
<1>2. QED BY <1>1, Invariant, PTL

\* MemNbrFree counts the pages ever made free: those written and those free now.
THEOREM PagesAccounted == Spec => []FreePagesAccounted
<1>1. WInv => FreePagesAccounted
  BY DEF WInv
<1>2. QED BY <1>1, Invariant, PTL

\* Every call of DefragSector frees a page.
THEOREM NoEraseWasted == Spec => []EraseFreesPage
<1>1. WInv => EraseFreesPage
  BY DEF WInv
<1>2. QED BY <1>1, Invariant, PTL

\* WriteVMemory up to STEP0 is the begin of a write; no page reads otherwise.
LEMMA BeginRefines ==
  ASSUME NEW v \in VPages, NEW x \in Values, WriteVMemory(v, x), ~writing,
         UNCHANGED Loop
  PROVE  Store_!Begin(v, x)
BY DEF WriteVMemory, flashVars, store, Store_!Begin

\* The pass from STEP0 that finds a free page is its end.
LEMMA StoreRefines ==
  ASSUME WInv, Store
  PROVE  Store_!End
<1> USE UnmappedAssumption
<1>1. PICK dst \in CellsIn(Idx_Target_Sector) :
        Sect_Find_Page_Free(dst) /\ Page_Copy(Idx_VPage, dst)
  BY DEF Store
<1> DEFINE v == Idx_VPage
<1>2. dst \in Cells /\ Type[dst] = "FREE" /\ v \in VPages
  BY <1>1 DEF CellsIn, Sect_Find_Page_Free, WInv, TypeOK
<1>3. writing /\ ~writing' /\ UNCHANGED Loop /\ VData[v] = BuffSrc
  BY DEF Store, ReturnFromWrite, WInv, Control
<1>4. Data' = [Data EXCEPT ![dst] = BuffSrc] /\ Physical' = [Physical EXCEPT ![v] = dst]
  BY <1>1, <1>3 DEF Page_Copy
<1>5. \A u \in VPages : Physical[u] # Unmapped => Physical[u] # dst
  BY <1>2 DEF WInv, MappingExact
<1> HIDE DEF v
<1>6. \A u \in VPages : u # v => store'[u] = store[u]
  BY <1>2, <1>4, <1>5 DEF store, WInv, TypeOK
<1>7. store'[v] = BuffSrc
  BY <1>2, <1>4 DEF store, WInv, TypeOK
<1>8. store' = [store EXCEPT ![v] = BuffSrc]
  BY <1>2, <1>6, <1>7 DEF store
<1>9. QED BY <1>3, <1>8 DEF Store_!End, v

\* A goto STEP0 is a stutter: the erased pages are nobody's current page.
LEMMA DetourRefines ==
  ASSUME WInv, Switch \/ Defrag
  PROVE  UNCHANGED Store_!vars
<1>1. CASE Switch
  BY <1>1 DEF Switch, flashVars, virtualVars, store, Store_!vars
<1>2. CASE Defrag
  <2>1. With_Recycle # {}
    BY <1>2, SomeRoom DEF Defrag, WInv
  <2>2. PICK s \in DefragChoices : DefragSector(s)
    BY <1>2, <2>1 DEF Defrag, DefragChoices
  <2> DEFINE old == {c \in CellsIn(s) : Type[c] = "RECYCLE"}
  <2>3. Data' = [c \in Cells |-> IF c \in old THEN Erased ELSE Data[c]]
    BY <2>2 DEF DefragSector
  <2>4. UNCHANGED <<Physical, Loop, writing, Idx_VPage, BuffSrc>>
    BY <1>2, <2>1 DEF Defrag, DefragChoices, virtualVars
  <2>5. \A v \in VPages : Physical[v] # Unmapped => Physical[v] \in Cells \ old
    BY DEF WInv, MappingExact, TypeOK
  <2>6. store' = store
    BY <2>3, <2>4, <2>5 DEF store
  <2>7. QED BY <2>4, <2>6 DEF Store_!vars
<1>3. QED BY <1>1, <1>2

\* CheckMemory's loop starts a new experiment on a blank memory, or ends.
LEMMA CheckRefines ==
  ASSUME WInv, Check
  PROVE  Store_!Format \/ UNCHANGED Store_!vars
<1>1. ~writing /\ UNCHANGED callVars
  BY DEF Check, WInv, Control
<1>2. ~writing'
  BY <1>1 DEF callVars
<1>3. CASE Physical' = [v \in VPages |-> Unmapped] /\ Loop' = Loop + 1
  <2>1. store' = [v \in VPages |-> Unmapped]
    BY <1>3 DEF store
  <2>2. QED BY <1>1, <1>2, <1>3, <2>1 DEF Store_!Format, Store_!Blank
<1>4. CASE UNCHANGED <<flashVars, virtualVars, Loop>>
  <2>1. store' = store
    BY <1>4 DEF store, flashVars, virtualVars
  <2>2. QED BY <1>1, <1>2, <1>4, <2>1 DEF Store_!vars
<1>5. QED BY <1>3, <1>4 DEF Check

\* Every step of the simulator is a begin or an end of a write, a format or a
\* stutter of the store.
LEMMA StepRefines == WInv /\ [Next]_vars => [Store_!Next]_(Store_!vars)
<1> SUFFICES ASSUME WInv, [Next]_vars PROVE [Store_!Next]_(Store_!vars)
  OBVIOUS
<1> USE WearAssumption
<1>1. CASE Fill
  <2>1. /\ i \in VPages /\ Zero \in Values
        /\ WriteVMemory(i, Zero) /\ ~writing /\ UNCHANGED Loop
    BY <1>1 DEF Fill, WInv, TypeOK, VPages
  <2>2. QED BY <2>1, BeginRefines DEF Store_!Next
<1>2. CASE Wear
  <2>1. PICK v \in IF i % (HsmRun + 1) # 0 THEN HsmPages ELSE NsmPages, x \in Values :
          WriteVMemory(v, x)
    BY <1>2 DEF Wear
  <2>2. v \in VPages /\ ~writing /\ UNCHANGED Loop
    BY <1>2 DEF Wear, HsmPages, NsmPages, VPages
  <2>3. QED BY <2>1, <2>2, BeginRefines DEF Store_!Next
<1>3. CASE FillDone \/ WearDone \/ UNCHANGED vars
  BY <1>3 DEF FillDone, WearDone, vars, flashVars, virtualVars, callVars, store,
     Store_!vars
<1>4. CASE Store
  BY <1>4, StoreRefines DEF Store_!Next
<1>5. CASE Switch \/ Defrag
  BY <1>5, DetourRefines
<1>6. CASE Check
  BY <1>6, CheckRefines DEF Store_!Next
<1>7. QED BY <1>1, <1>2, <1>3, <1>4, <1>5, <1>6 DEF Next

\* The simulator implements VirtualStore: a write returns with its data readable
\* at its page, and nothing else but a new experiment changes what is read.
THEOREM ImplementsStore == Spec => StoreSpec
<1>1. Init => Store_!Init
  BY DEF Init, Store_!Init, Store_!Blank, store
<1>2. QED BY <1>1, StepRefines, Invariant, PTL DEF Spec, StoreSpec, Store_!Spec

-----------------------------------------------------------------------------
(* What Terminates rests on                                                 *)

\* A set of naturals that is not empty has a least element.
LEMMA LeastNatural ==
  ASSUME NEW T, T \subseteq Nat, T # {}
  PROVE  \E x \in T : \A y \in T : x <= y
<1> DEFINE R == OpToRel(<, Nat)
<1>1. IsWellFoundedOn(R, Nat)
  BY NatLessThanWellFounded
<1>2. \A x, y \in Nat : y < x => <<y, x>> \in R
  BY DEF OpToRel
<1> HIDE DEF R
<1>3. PICK x \in T : \A y \in T : ~(<<y, x>> \in R)
  BY <1>1, WFMin
<1>4. \A y \in T : x <= y
  <2>1. SUFFICES ASSUME NEW y \in T PROVE x <= y
    OBVIOUS
  <2>2. x \in Nat /\ y \in Nat /\ ~(y < x)
    BY <1>2, <1>3
  <2>3. QED BY <2>2
<1>5. QED BY <1>4

\* A search of a sector with a free page, by Sect_Find_Page_Free, finds one.
LEMMA PageFound ==
  ASSUME NEW s \in Sectors, FreeIn(s) # {}
  PROVE  \E dst \in CellsIn(s) : Sect_Find_Page_Free(dst)
<1> DEFINE T == {c[2] : c \in FreeIn(s)}
<1>1. T \subseteq Nat /\ T # {}
  BY DEF FreeIn, CellsIn, Cells
<1> HIDE DEF T
<1>2. PICK n \in T : \A m \in T : n <= m
  BY <1>1, LeastNatural
<1>3. PICK c \in FreeIn(s) : c[2] = n
  BY <1>2 DEF T
<1>4. QED BY <1>2, <1>3 DEF T, Sect_Find_Page_Free, FreeIn, CellsIn

\* With a free page anywhere, Find_Sector_with_Free_Page finds its sector.
LEMMA SectorFound ==
  ASSUME Free # {}
  PROVE  \E s \in Sectors : Find_Sector_with_Free_Page(s)
<1> DEFINE T == {s \in Sectors : FreeIn(s) # {}}
<1>1. T \subseteq Nat
  BY DEF Sectors
<1>2. T # {}
  BY CellsFacts DEF Free, FreeIn, CellsIn
<1>3. PICK s \in T : \A r \in T : s <= r
  BY <1>1, <1>2, LeastNatural
<1>4. QED BY <1>3 DEF Find_Sector_with_Free_Page

\* The inductive invariant leaves the program a step to take.
LEMMA RoomFound == WInv => NeverStuck
<1> SUFFICES ASSUME WInv PROVE NeverStuck
  OBVIOUS
<1> USE WearAssumption DEF WInv
<1>1. CASE writing /\ FreeIn(Idx_Target_Sector) # {}
  BY <1>1, PageFound DEF NeverStuck, TargetValid
<1>2. CASE writing /\ Free # {}
  BY <1>2, SectorFound DEF NeverStuck
<1>3. CASE writing /\ Free = {}
  BY <1>3, SomeRoom DEF NeverStuck, DefragChoices
<1>4. CASE ~writing
  <2>1. Static \in HsmPages /\ Static + Hsm \in NsmPages
    BY DEF HsmPages, NsmPages
  <2>2. QED BY <1>4, <2>1 DEF NeverStuck, Control, TypeOK, VPages
<1>5. QED BY <1>1, <1>2, <1>3, <1>4

\* No state before the end is one the program cannot leave.
THEOREM AlwaysAStep == Spec => []NeverStuck
BY RoomFound, Invariant, PTL

\* WriteVMemory up to STEP0 spends one of the passes.
LEMMA BeginMovesOn ==
  ASSUME ~writing, writing'
  PROVE  PassesLeft' < PassesLeft
BY DEF PassesLeft

\* A goto STEP0 lands on a sector with a free page.
LEMMA DetourMovesOn ==
  ASSUME WInv, Switch \/ Defrag
  PROVE  writing' = writing /\ i' = i /\ PassesLeft' < PassesLeft
<1> USE DEF WInv
<1>1. CASE Switch
  BY <1>1 DEF Switch, Find_Sector_with_Free_Page, PassesLeft, FreeIn, CellsIn,
     flashVars
<1>2. CASE Defrag
  <2>1. writing /\ Free = {} /\ With_Recycle # {}
    BY <1>2, SomeRoom DEF Defrag
  <2>2. PICK s \in DefragChoices : DefragSector(s) /\ Idx_Target_Sector' = s
    BY <1>2, <2>1 DEF Defrag, DefragChoices
  <2>3. UNCHANGED <<writing, i>>
    BY <1>2, <2>1 DEF Defrag, DefragChoices
  <2>4. PICK c \in CellsIn(s) : Type[c] = "RECYCLE"
    BY <2>2, CellsFacts DEF DefragChoices, Full_Recycle, With_Recycle
  <2>5. c \in Cells /\ Type'[c] = "FREE"
    BY <2>2, <2>4 DEF DefragSector, CellsIn
  <2>6. FreeIn(Idx_Target_Sector)' # {}
    BY <2>2, <2>4, <2>5 DEF FreeIn, CellsIn
  <2>7. FreeIn(Idx_Target_Sector) = {}
    BY <2>1 DEF Free, FreeIn, CellsIn
  <2>8. QED BY <2>1, <2>3, <2>6, <2>7 DEF PassesLeft
<1>3. QED BY <1>1, <1>2

\* Every step is nearer the end.
LEMMA StepMovesOn ==
  ASSUME WInv, Next
  PROVE  \/ Loop' > Loop
         \/ Loop' = Loop /\ PhaseRank[phase'] > PhaseRank[phase]
         \/ Loop' = Loop /\ phase' = phase /\ i' > i
         \/ /\ Loop' = Loop /\ phase' = phase /\ i' = i
            /\ PassesLeft' < PassesLeft
<1>1. CASE Fill \/ Wear
  BY <1>1, BeginMovesOn DEF Fill, Wear, WriteVMemory
<1>2. CASE FillDone \/ WearDone
  BY <1>2 DEF FillDone, WearDone, PhaseRank
<1>3. CASE Store
  BY <1>3 DEF Store, ReturnFromWrite, WInv, TypeOK
<1>4. CASE Switch \/ Defrag
  <2>1. Loop' = Loop /\ phase' = phase
    BY <1>4 DEF Switch, Defrag
  <2>2. QED BY <1>4, <2>1, DetourMovesOn
<1>5. CASE Check
  BY <1>5 DEF Check, PhaseRank, WInv, TypeOK
<1>6. QED BY <1>1, <1>2, <1>3, <1>4, <1>5 DEF Next

\* Each step of the simulator moves on in the order of experiment, phase, write
\* and pass: with AlwaysAStep, what makes it end.
THEOREM StepsMoveOn == Spec => MovesOn
<1> DEFINE Forward ==
      \/ Loop' > Loop
      \/ Loop' = Loop /\ PhaseRank[phase'] > PhaseRank[phase]
      \/ Loop' = Loop /\ phase' = phase /\ i' > i
      \/ /\ Loop' = Loop /\ phase' = phase /\ i' = i
         /\ PassesLeft' < PassesLeft
<1>1. WInv /\ [Next]_vars => [Forward]_vars
  BY StepMovesOn
<1>2. MovesOn <=> [][Forward]_vars
  BY DEF MovesOn
<1> HIDE DEF Forward
<1>3. QED BY <1>1, <1>2, Invariant, PTL DEF Spec
=============================================================================
