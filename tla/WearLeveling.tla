---------------------------- MODULE WearLeveling ----------------------------
(***************************************************************************)
(* The flash wear-levelling simulator (Wearing.cpp): virtual pages that    *)
(* move to a free physical page on every write, sectors whose recycled     *)
(* pages are erased when no free page is left, and the experiment of       *)
(* _tmain that drives them.                                                *)
(*                                                                         *)
(* The program is sequential.  One action is one pass through a label of   *)
(* the code: an iteration of _tmain's loops up to the call, or one pass    *)
(* from STEP0 of WriteVMemory to its return or its goto.  rand() is any    *)
(* choice.  A page's data is one value of a small set.  Left out: the      *)
(* printed counters VPages[].Writing, MemNbrDirty and MemNbrUsed (never    *)
(* changed by the code that runs), and the functions nothing calls         *)
(* (Free_Page, Recycle_Page, Delete_Sector, DefragSector0).                *)
(***************************************************************************)
EXTENDS Integers, FiniteSets

CONSTANTS
  NbrVirtual,      \* VIRTUAL_NBR_PAGE
  NbrSector,       \* WEARING_NBR_SECTOR_MEMORY
  NbrPageSector,   \* WEARING_NBR_PAGE_SECTOR
  Static, Hsm,     \* WEARING_STATIC and WEARING_HSM; the rest are NSM pages
  HsmRun,          \* 25: HSM writes between two NSM writes
  NbrWrites,       \* 10000000: writes of one experiment
  NbrLoops,        \* 9: experiments
  Checked,         \* VIRTUAL_SIZE_PAGE: the pages CheckMemory looks at
  Values, Zero,    \* data of a page, and the data of the first fill
  Erased,          \* 0xFF 0xFF, which rand() % 0xFF never is
  Unmapped         \* 0xFFFFFFFF

ASSUME WearAssumption ==
  /\ NbrVirtual \in Nat /\ NbrSector \in Nat \ {0} /\ NbrPageSector \in Nat \ {0}
  /\ NbrVirtual < NbrSector * NbrPageSector
  /\ Static \in Nat /\ Hsm \in Nat \ {0} /\ Static + Hsm < NbrVirtual
  /\ HsmRun \in Nat \ {0} /\ NbrWrites \in Nat /\ NbrLoops \in Nat \ {0}
  /\ Checked \in 0..NbrVirtual
  /\ Zero \in Values /\ Erased \notin Values

Sectors == 0..(NbrSector - 1)
Cells == Sectors \X (0..(NbrPageSector - 1))
VPages == 0..(NbrVirtual - 1)

ASSUME UnmappedAssumption == Unmapped \notin Cells

VARIABLES
  Type, Virtual, Data,   \* gPhysical_Flash.Sector[].Page[]: head and data
  SectorEndurance,       \* gPhysical_Flash.Sector[].Endurance
  Endurance,             \* gPhysical_Flash.Endurance
  MemNbrFree,            \* gPhysical_Flash.MemNbrFree
  Physical,              \* gVirtual_Flash.VPages[].Physical_Sector, _Page
  VData,                 \* gVirtual_Flash.VPages[].VData
  Writes,                \* gVirtual_Flash.Endurance
  gCurrentWorkingSector,
  phase,                 \* where _tmain is
  Loop, i,               \* its counters
  writing,               \* WriteVMemory is at STEP0
  Idx_VPage, BuffSrc,    \* its arguments
  Idx_Target_Sector      \* and its local

flashVars == <<Type, Virtual, Data, SectorEndurance, Endurance, MemNbrFree>>
virtualVars == <<Physical, VData, Writes>>
callVars == <<writing, Idx_VPage, BuffSrc, Idx_Target_Sector>>
vars == <<flashVars, virtualVars, gCurrentWorkingSector, phase, Loop, i, callVars>>

CellsIn(s) == {c \in Cells : c[1] = s}
FreeIn(s) == {c \in CellsIn(s) : Type[c] = "FREE"}
Free == {c \in Cells : Type[c] = "FREE"}

\* Sect_Find_Page_Free: c is the first free page of its sector
Sect_Find_Page_Free(c) ==
  Type[c] = "FREE" /\ \A d \in FreeIn(c[1]) : c[2] <= d[2]

\* Slip: the first sector, free page or not
Find_Sector_with_Free_Page_Any(s) == s = 0

\* s is the first sector with a free page: the random choice that follows in
\* the code is never reached.
Find_Sector_with_Free_Page(s) ==
  FreeIn(s) # {} /\ \A r \in Sectors : FreeIn(r) # {} => s <= r

Full_Recycle == {s \in Sectors : \A c \in CellsIn(s) : Type[c] = "RECYCLE"}
With_Recycle == {s \in Sectors : \E c \in CellsIn(s) : Type[c] = "RECYCLE"}

\* The sector DefragSector is called with, -1 when there is none: a random one
\* of the fully recycled, else a random one with a recycled page.
DefragChoices == IF Full_Recycle # {} THEN Full_Recycle ELSE With_Recycle

-----------------------------------------------------------------------------

Init ==
  /\ Type = [c \in Cells |-> "FREE"]
  /\ Virtual = [c \in Cells |-> 0]
  /\ Data = [c \in Cells |-> Erased]
  /\ SectorEndurance = [s \in Sectors |-> 0]
  /\ Endurance = 0
  /\ MemNbrFree = NbrSector * NbrPageSector
  /\ Physical = [v \in VPages |-> Unmapped]
  /\ VData = [v \in VPages |-> Zero]
  /\ Writes = 0
  /\ gCurrentWorkingSector = -1
  /\ phase = "fill"
  /\ Loop = 1
  /\ i = 0
  /\ writing = FALSE
  /\ Idx_VPage = 0
  /\ BuffSrc = Zero
  /\ Idx_Target_Sector = 0

\* Slip: the RAM image is not updated
WriteVMemory_NoImage(v, x) ==
  LET home == IF Physical[v] = Unmapped THEN 0 ELSE Physical[v][1]
  IN  /\ Idx_VPage' = v
      /\ BuffSrc' = x
      /\ Idx_Target_Sector' =
           IF FreeIn(home) # {} THEN home ELSE gCurrentWorkingSector
      /\ writing' = TRUE
      /\ UNCHANGED <<flashVars, virtualVars, gCurrentWorkingSector>>

\* WriteVMemory up to STEP0: the RAM image is updated first; the target is the
\* page's own sector or, when that is full, the sector written last.
WriteVMemory(v, x) ==
  LET home == IF Physical[v] = Unmapped THEN 0 ELSE Physical[v][1]
  IN  /\ VData' = [VData EXCEPT ![v] = x]
      /\ Idx_VPage' = v
      /\ BuffSrc' = x
      /\ Idx_Target_Sector' =
           IF FreeIn(home) # {} THEN home ELSE gCurrentWorkingSector
      /\ writing' = TRUE
      /\ UNCHANGED <<flashVars, Physical, Writes, gCurrentWorkingSector>>

\* The first fill: every page once, in order
Fill ==
  /\ phase = "fill" /\ ~writing
  /\ i < NbrVirtual
  /\ WriteVMemory(i, Zero)
  /\ UNCHANGED <<phase, Loop, i>>

FillDone ==
  /\ phase = "fill" /\ ~writing
  /\ i = NbrVirtual
  /\ phase' = "wear"
  /\ i' = 0
  /\ UNCHANGED <<flashVars, virtualVars, gCurrentWorkingSector, Loop, callVars>>

HsmPages == Static..(Static + Hsm - 1)
NsmPages == (Static + Hsm)..(NbrVirtual - 1)

\* One random write: HSM pages, and an NSM page every HsmRun + 1 writes
Wear ==
  /\ phase = "wear" /\ ~writing
  /\ i < NbrWrites
  /\ \E v \in IF i % (HsmRun + 1) # 0 THEN HsmPages ELSE NsmPages, x \in Values :
       WriteVMemory(v, x)
  /\ UNCHANGED <<phase, Loop, i>>

WearDone ==
  /\ phase = "wear" /\ ~writing
  /\ i = NbrWrites
  /\ phase' = "check"
  /\ UNCHANGED <<flashVars, virtualVars, gCurrentWorkingSector, Loop, i, callVars>>

-----------------------------------------------------------------------------
(* WriteVMemory from STEP0                                                  *)

ReturnFromWrite ==
  /\ writing' = FALSE
  /\ Idx_VPage' = 0
  /\ BuffSrc' = Zero
  /\ Idx_Target_Sector' = 0
  /\ i' = i + 1

\* Slip: the old copy stays in use
Page_Copy_NoRecycle(v, dst) ==
  /\ Type' = [Type EXCEPT ![dst] = "USED"]
  /\ Virtual' = [Virtual EXCEPT ![dst] = v]
  /\ Data' = [Data EXCEPT ![dst] = VData[v]]
  /\ Physical' = [Physical EXCEPT ![v] = dst]
  /\ Writes' = Writes + 1
  /\ gCurrentWorkingSector' = dst[1]

\* The data goes to the free page, whose head names the virtual page; the page
\* it was in is marked, its head and data left as they are.
Page_Copy(v, dst) ==
  /\ Type' = [c \in Cells |-> IF c = dst THEN "USED"
                              ELSE IF c = Physical[v] THEN "RECYCLE" ELSE Type[c]]
  /\ Virtual' = [Virtual EXCEPT ![dst] = v]
  /\ Data' = [Data EXCEPT ![dst] = VData[v]]
  /\ Physical' = [Physical EXCEPT ![v] = dst]
  /\ Writes' = Writes + 1
  /\ gCurrentWorkingSector' = dst[1]

\* A free page in the target sector
Store ==
  /\ writing
  /\ \E dst \in CellsIn(Idx_Target_Sector) :
       Sect_Find_Page_Free(dst) /\ Page_Copy(Idx_VPage, dst)
  /\ ReturnFromWrite
  /\ UNCHANGED <<SectorEndurance, Endurance, MemNbrFree, VData, phase, Loop>>

\* goto STEP0 with another sector
Switch ==
  /\ writing
  /\ FreeIn(Idx_Target_Sector) = {}
  /\ \E s \in Sectors :
       Find_Sector_with_Free_Page(s) /\ Idx_Target_Sector' = s
  /\ UNCHANGED <<flashVars, virtualVars, gCurrentWorkingSector, phase, Loop, i,
                 writing, Idx_VPage, BuffSrc>>

\* Slip: every page of the sector is erased, live ones too
DefragSector_All(s) ==
  /\ Type' = [c \in Cells |-> IF c[1] = s THEN "FREE" ELSE Type[c]]
  /\ Virtual' = [c \in Cells |-> IF c[1] = s THEN 0 ELSE Virtual[c]]
  /\ Data' = [c \in Cells |-> IF c[1] = s THEN Erased ELSE Data[c]]
  /\ MemNbrFree' = MemNbrFree + NbrPageSector
  /\ SectorEndurance' = [SectorEndurance EXCEPT ![s] = @ + 1]
  /\ Endurance' = Endurance + 1

\* Init_Page on the recycled pages of the sector
DefragSector(s) ==
  LET old == {c \in CellsIn(s) : Type[c] = "RECYCLE"}
  IN  /\ Type' = [c \in Cells |-> IF c \in old THEN "FREE" ELSE Type[c]]
      /\ Virtual' = [c \in Cells |-> IF c \in old THEN 0 ELSE Virtual[c]]
      /\ Data' = [c \in Cells |-> IF c \in old THEN Erased ELSE Data[c]]
      /\ MemNbrFree' = MemNbrFree + Cardinality(old)
      /\ SectorEndurance' = [SectorEndurance EXCEPT ![s] = @ + 1]
      /\ Endurance' = Endurance + 1

\* No free page anywhere: goto STEP0 with a sector just erased.  With nothing
\* to erase ("ERROR ERROR") the write would return without having stored.
Defrag ==
  /\ writing
  /\ Free = {}
  /\ IF DefragChoices = {}
     THEN ReturnFromWrite /\ UNCHANGED flashVars
     ELSE \E s \in DefragChoices :
            /\ DefragSector(s)
            /\ Idx_Target_Sector' = s
            /\ UNCHANGED <<writing, Idx_VPage, BuffSrc, i>>
  /\ UNCHANGED <<virtualVars, gCurrentWorkingSector, phase, Loop>>

-----------------------------------------------------------------------------

Intact(v) == Physical[v] # Unmapped /\ Data[Physical[v]] = VData[v]

\* Slip: one experiment too many
LoopsLeft_OneMore == Loop <= NbrLoops

LoopsLeft == Loop < NbrLoops

\* CheckMemory looks at the first pages only; then the next experiment starts
\* on a blank memory, with the working sector of the last one, or the program
\* ends ("ERROR CHECK" exits at once).
Check ==
  /\ phase = "check"
  /\ IF (\A v \in 0..(Checked - 1) : Intact(v)) /\ LoopsLeft
     THEN /\ phase' = "fill"
          /\ Loop' = Loop + 1
          /\ i' = 0
          /\ Type' = [c \in Cells |-> "FREE"]
          /\ Virtual' = [c \in Cells |-> 0]
          /\ Data' = [c \in Cells |-> Erased]
          /\ SectorEndurance' = [s \in Sectors |-> 0]
          /\ Endurance' = 0
          /\ MemNbrFree' = NbrSector * NbrPageSector
          /\ Physical' = [v \in VPages |-> Unmapped]
          /\ VData' = [v \in VPages |-> Zero]
          /\ Writes' = 0
     ELSE /\ phase' = IF \A v \in 0..(Checked - 1) : Intact(v)
                      THEN "done" ELSE "error"
          /\ UNCHANGED <<flashVars, virtualVars, Loop, i>>
  /\ UNCHANGED <<gCurrentWorkingSector, callVars>>

Next == Fill \/ FillDone \/ Wear \/ WearDone \/ Store \/ Switch \/ Defrag \/ Check

Spec == Init /\ [][Next]_vars

\* A sequential program that runs on.
FairSpec == Spec /\ WF_vars(Next)

-----------------------------------------------------------------------------
(* Properties                                                               *)

TypeOK ==
  /\ Type \in [Cells -> {"FREE", "RECYCLE", "USED"}]
  /\ Virtual \in [Cells -> VPages]
  /\ Data \in [Cells -> Values \cup {Erased}]
  /\ SectorEndurance \in [Sectors -> Nat]
  /\ Endurance \in Nat
  /\ MemNbrFree \in Nat
  /\ Physical \in [VPages -> Cells \cup {Unmapped}]
  /\ VData \in [VPages -> Values]
  /\ Writes \in Nat
  /\ gCurrentWorkingSector \in Sectors \cup {-1}
  /\ phase \in {"fill", "wear", "check", "done", "error"}
  /\ Loop \in 1..NbrLoops
  /\ i \in 0..NbrVirtual \cup 0..NbrWrites
  /\ writing \in BOOLEAN
  /\ Idx_VPage \in VPages
  /\ BuffSrc \in Values
  /\ Idx_Target_Sector \in Sectors \cup {-1}

\* The two directions of the translation agree: a mapped virtual page is in a
\* page in use whose head names it, and every page in use is the current page
\* of the virtual page it names (one live copy, never two).
MappingExact ==
  /\ \A v \in VPages : Physical[v] # Unmapped =>
       Type[Physical[v]] = "USED" /\ Virtual[Physical[v]] = v
  /\ \A c \in Cells : Type[c] = "USED" => Physical[Virtual[c]] = c

\* What CheckMemory should find for every page: the flash holds the RAM image,
\* also while another page is being written and sectors are erased for it,
\* and a write has returned only after it stored.
MirrorIntact ==
  \A v \in VPages :
    /\ Physical[v] # Unmapped /\ ~(writing /\ v = Idx_VPage) => Intact(v)
    /\ phase \in {"wear", "check"} => Physical[v] # Unmapped

\* Sect_Find_Page_Free is never called with the initial -1 of
\* gCurrentWorkingSector, which would read outside the memory.
TargetValid == writing => Idx_Target_Sector \in Sectors

\* Every page handed to a write came from a blank memory or an erase: what was
\* ever free is what has been written plus what is free now.
FreePagesAccounted == MemNbrFree = Writes + Cardinality(Free)

\* No erase is wasted: each one frees a page at least, so a sector is never
\* worn without room for a write being gained.
EraseFreesPage == Endurance + NbrSector * NbrPageSector <= MemNbrFree

\* WriteVMemory comes back from its gotos and the experiments end.
Terminates == <>(phase = "done")

-----------------------------------------------------------------------------
(* The inductive invariant behind the properties above                      *)

\* Where _tmain and WriteVMemory stand; what is stored is the data of the call.
Control ==
  /\ writing => VData[Idx_VPage] = BuffSrc
  /\ writing => phase \in {"fill", "wear"}
  /\ writing /\ phase = "fill" => i < NbrVirtual /\ Idx_VPage = i
  /\ writing /\ phase = "wear" => i < NbrWrites
  /\ phase = "fill" => i <= NbrVirtual
  /\ phase = "wear" => i <= NbrWrites

\* The pages mapped so far, and the data of the others in flash and in RAM.
Mapped ==
  \A v \in VPages :
    /\ phase # "fill" \/ v < i => Physical[v] # Unmapped
    /\ Physical[v] # Unmapped /\ ~(writing /\ v = Idx_VPage) => Intact(v)

\* Before the first write the memory is blank.
Blank == gCurrentWorkingSector = -1 =>
           /\ \A c \in Cells : Type[c] = "FREE"
           /\ writing => Idx_Target_Sector = 0

WInv ==
  /\ TypeOK /\ MappingExact /\ Control /\ Mapped /\ Blank /\ TargetValid
  /\ FreePagesAccounted /\ EraseFreesPage /\ phase # "error"

-----------------------------------------------------------------------------
(* What Terminates rests on                                                 *)

\* Where the experiment stands, and how many passes from STEP0 the write under
\* way still needs at most.
PhaseRank == [fill |-> 0, wear |-> 1, check |-> 2, done |-> 3, error |-> 3]
PassesLeft ==
  IF ~writing THEN 3 ELSE IF FreeIn(Idx_Target_Sector) = {} THEN 2 ELSE 1

\* Every step is nearer the end in the order of experiment, phase, write, pass:
\* a goto STEP0 always lands on a sector with a free page, so no write goes
\* round more than once.
MovesOn ==
  [][\/ Loop' > Loop
     \/ Loop' = Loop /\ PhaseRank[phase'] > PhaseRank[phase]
     \/ Loop' = Loop /\ phase' = phase /\ i' > i
     \/ /\ Loop' = Loop /\ phase' = phase /\ i' = i
        /\ PassesLeft' < PassesLeft]_vars

\* The program always has a step to take before it is done: a write finds a
\* page or something to erase ("ERROR ERROR" is dead code), the two kinds of
\* pages a write is drawn from exist, and CheckMemory finds no error.
NeverStuck ==
  /\ phase # "error"
  /\ writing => \/ \E dst \in CellsIn(Idx_Target_Sector) : Sect_Find_Page_Free(dst)
                \/ \E s \in Sectors : Find_Sector_with_Free_Page(s)
                \/ DefragChoices # {}
  /\ ~writing /\ phase = "fill" => i \in VPages \/ i = NbrVirtual
  /\ ~writing /\ phase = "wear" =>
       i = NbrWrites \/ (i < NbrWrites /\ HsmPages # {} /\ NsmPages # {})

-----------------------------------------------------------------------------

\* A write of a page returns with the data it was given readable at that page,
\* and changes no other; moving pages, switching sectors and erasing change
\* nothing a reader sees, and only a new experiment blanks the memory.
store == [v \in VPages |-> IF Physical[v] = Unmapped THEN Unmapped
                           ELSE Data[Physical[v]]]
Store_ == INSTANCE VirtualStore WITH
  store <- store, pending <- IF writing THEN {<<Idx_VPage, BuffSrc>>} ELSE {},
  epoch <- Loop, VPages <- VPages, Values <- Values, Nothing <- Unmapped
StoreSpec == Store_!Spec
=============================================================================
