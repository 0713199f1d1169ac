----------------------- MODULE BlockIndexLoaderProofs -----------------------
(***************************************************************************)
(* Proofs about the block-index load loop, for every value of MaxAttempts.*)
(***************************************************************************)
EXTENDS BlockIndexLoader, TLAPS

\* The store operations keep every pointer in one of its three states and
\* report only the two kinds of undefined behaviour.
LEMMA OpenStoresType ==
    ASSUME NEW m \in [Handles -> Slot], NEW f \in OpenFailure
    PROVE  /\ OpenStores(m, f) \in [Handles -> Slot]
           /\ OpenUB(m, f) \subseteq UBKind
  BY DEF OpenStores, OpenUB, OpenMain, OpenWitness, DeleteKeep, DeleteReset,
         Allocate, OpenFailure, Slot, UBKind

LEMMA TeardownType ==
    ASSUME NEW m \in [Handles -> Slot]
    PROVE  /\ TeardownStores(m) \in [Handles -> Slot]
           /\ TeardownUB(m) \subseteq UBKind
  BY DEF TeardownStores, TeardownUB, NoStores, Slot, UBKind

\* The initial states are well typed.
LEMMA InitTypeOK == Init => TypeOK
    <2> SUFFICES ASSUME Init PROVE TypeOK
      OBVIOUS
    <2>1. args \in Args /\ fReindex = args.reindex
      BY DEF Init
    <2>2. fReindex \in BOOLEAN
      BY <2>1 DEF Args
    <2>3. mem \in [Handles -> Slot]
      BY DEF Init, NoStores, Slot
    <2>4. QED
      BY <2>1, <2>2, <2>3 DEF Init, TypeOK, Labels, UBKind

\* Every step keeps the state well typed.
LEMMA NextTypeOK == TypeOK /\ [Next]_vars => TypeOK'
    <2> SUFFICES ASSUME TypeOK, [Next]_vars PROVE TypeOK'
      OBVIOUS
    <2>1. CASE Begin
      BY <2>1 DEF Begin, TypeOK, Labels
    <2>2. CASE Open
      <3>1. PICK f \in OpenFailure :
                 /\ mem' = OpenStores(mem, f)
                 /\ ub' = ub \cup OpenUB(mem, f)
                 /\ sibling' = (f = "none")
                 /\ havePruned' = (havePruned /\ ~(fReindex /\ f # "blocktree"))
                 /\ pc' = IF f = "none" THEN "AfterOpen" ELSE "Failed"
        BY <2>2 DEF Open
      <3>2. OpenStores(mem, f) \in [Handles -> Slot] /\ OpenUB(mem, f) \subseteq UBKind
        BY OpenStoresType DEF TypeOK
      <3>3. QED
        BY <2>2, <3>1, <3>2 DEF Open, TypeOK, Labels
    <2>3. CASE AfterOpen
      BY <2>3 DEF AfterOpen, TypeOK, Labels
    <2>4. CASE ResyncCheck
      BY <2>4 DEF ResyncCheck, TypeOK, Labels
    <2>5. CASE LoadIndex
      BY <2>5 DEF LoadIndex, TypeOK, Labels
    <2>6. CASE UpgradeIndex
      BY <2>6 DEF UpgradeIndex, TypeOK, Labels
    <2>7. CASE Checks
      BY <2>7 DEF Checks, TypeOK, Labels, Args
    <2>8. CASE Failed
      <3>1. CASE ~fReset
        <4>1. prompts' \in Nat
          BY <2>8, <3>1 DEF Failed, TypeOK
        <4>2. pc' \in Labels /\ fReindex' \in BOOLEAN
          BY <2>8, <3>1 DEF Failed, TypeOK, Labels
        <4>3. QED
          BY <2>8, <4>1, <4>2 DEF Failed, TypeOK
      <3>2. CASE fReset
        BY <2>8, <3>2 DEF Failed, TypeOK, Labels
      <3>3. QED
        BY <3>1, <3>2
    <2>9. CASE AfterLoop
      BY <2>9 DEF AfterLoop, TypeOK, Labels
    <2>10. CASE RequestShutdown
      BY <2>10 DEF RequestShutdown, TypeOK
    <2>11. CASE Teardown
      BY <2>11, TeardownType DEF Teardown, TypeOK, Labels
    <2>12. CASE Terminated \/ UNCHANGED vars
      BY <2>12 DEF Terminated, vars, TypeOK
    <2>13. QED
      BY <2>1, <2>2, <2>3, <2>4, <2>5, <2>6, <2>7, <2>8, <2>9, <2>10, <2>11,
         <2>12 DEF Next, LoaderStep

\* Every reachable state is well typed.
THEOREM TypeCorrect == Spec => []TypeOK
  BY InitTypeOK, NextTypeOK, PTL DEF Spec

(***************************************************************************)
(* The strengthening behind RecoveryOfferedOnce.  The question is asked   *)
(* only in an iteration with fReset false; once it has been answered yes, *)
(* fReindex is true (nothing in the loop clears it), so the next          *)
(* iteration starts with fReset true and a second failure goes to Exit.   *)
(***************************************************************************)
PromptInv ==
    /\ TypeOK
    /\ prompts \in 0..1
    /\ prompts = 1 => \/ pc \in {"Exit", "Stopped"}
                      \/ fReindex /\ (pc = "Begin" \/ fReset)

\* The initial states satisfy the strengthening.
LEMMA InitPromptInv == Init => PromptInv
  BY InitTypeOK DEF Init, PromptInv

\* Every step keeps the strengthening.
LEMMA NextPromptInv == PromptInv /\ [Next]_vars => PromptInv'
  <1> SUFFICES ASSUME PromptInv, [Next]_vars PROVE PromptInv'
    OBVIOUS
  <1>0. TypeOK'
    BY NextTypeOK DEF PromptInv
  <1>1. CASE Begin
    BY <1>0, <1>1 DEF Begin, PromptInv
  <1>2. CASE Failed
    <2>1. CASE ~fReset
      <3>1. prompts = 0
        BY <2>1, <1>2 DEF PromptInv, Failed
      <3>2. QED
        BY <1>0, <1>2, <2>1, <3>1 DEF Failed, PromptInv
    <2>2. CASE fReset
      BY <1>0, <1>2, <2>2 DEF Failed, PromptInv
    <2>3. QED
      BY <2>1, <2>2 DEF PromptInv, TypeOK
  <1>3. CASE Open \/ AfterOpen \/ LoadIndex \/ Checks \/ AfterLoop
    BY <1>0, <1>3 DEF Open, AfterOpen, LoadIndex, Checks, AfterLoop, PromptInv
  <1>4. CASE ResyncCheck \/ UpgradeIndex
    BY <1>0, <1>4 DEF ResyncCheck, UpgradeIndex, PromptInv
  <1>5. CASE RequestShutdown \/ Teardown \/ Terminated \/ UNCHANGED vars
    BY <1>0, <1>5 DEF RequestShutdown, Teardown, Terminated, vars, PromptInv
  <1>6. QED
    BY <1>1, <1>2, <1>3, <1>4, <1>5 DEF Next, LoaderStep

\* The user is asked to rebuild the block database at most once.
THEOREM RecoveryOfferedOnceThm == Spec => []RecoveryOfferedOnce
  <1>1. PromptInv => RecoveryOfferedOnce
    BY DEF PromptInv, RecoveryOfferedOnce
  <1>2. QED
    BY InitPromptInv, NextPromptInv, <1>1, PTL DEF Spec

(***************************************************************************)
(* The refinement.  Every step of the loop maps to a step of StoreLoading *)
(* or to a stutter: the steps inside the loop body and the gotos stay in  *)
(* StoreLoading with the same number of questions; the question is a      *)
(* Reindex or a Decline, which PromptInv shows is the first one; the      *)
(* other ways out are Load, Abort, Start and Stop.                        *)
(***************************************************************************)
LEMMA InitRefines == Init => SL!Init
  BY DEF Init, SL!Init, LifecyclePhase, LoadingLabels

LEMMA NextRefines ==
    PromptInv /\ [Next]_vars => [SL!Next]_<<LifecyclePhase, prompts>>
  <1> SUFFICES ASSUME PromptInv, [Next]_vars
               PROVE  [SL!Next]_<<LifecyclePhase, prompts>>
    OBVIOUS
  <1> USE DEF SL!Next, LifecyclePhase, LoadingLabels
  <1>1. CASE Begin \/ Open \/ AfterOpen \/ ResyncCheck \/ LoadIndex \/ UpgradeIndex
    BY <1>1 DEF Begin, Open, AfterOpen, ResyncCheck, LoadIndex, UpgradeIndex
  <1>2. CASE Checks
    <2>1. CASE pc' = "Exit"
      BY <1>2, <2>1 DEF Checks, SL!Abort
    <2>2. CASE pc' = "Loaded"
      BY <1>2, <2>2 DEF Checks, SL!Load
    <2>3. CASE pc' = "Failed"
      BY <1>2, <2>3 DEF Checks
    <2>4. QED
      BY <1>2, <2>1, <2>2, <2>3 DEF Checks
  <1>3. CASE Failed
    <2>1. CASE ~fReset
      <3>1. prompts = 0
        BY <1>3, <2>1 DEF PromptInv, Failed
      <3>2. CASE pc' = "Begin"
        BY <1>3, <2>1, <3>1, <3>2 DEF Failed, SL!Reindex
      <3>3. CASE pc' = "Exit"
        BY <1>3, <2>1, <3>1, <3>3 DEF Failed, SL!Decline
      <3>4. QED
        BY <1>3, <2>1, <3>2, <3>3 DEF Failed
    <2>2. CASE fReset
      BY <1>3, <2>2 DEF Failed, SL!Abort
    <2>3. QED
      BY <2>1, <2>2 DEF PromptInv, TypeOK
  <1>4. CASE AfterLoop
    BY <1>4 DEF AfterLoop, SL!Start, SL!Abort
  <1>5. CASE Teardown
    BY <1>5 DEF Teardown, SL!Stop
  <1>6. CASE RequestShutdown \/ Terminated \/ UNCHANGED vars
    BY <1>6 DEF RequestShutdown, Terminated, vars
  <1>7. QED
    BY <1>1, <1>2, <1>3, <1>4, <1>5, <1>6 DEF Next, LoaderStep

\* The load loop implements the StoreLoading lifecycle: it restarts
\* loading only through the one recovery question and otherwise ends in a
\* loaded store or in shutting down.
THEOREM ImplementsStoreLoadingThm == Spec => ImplementsStoreLoading
  <1>1. Spec => []PromptInv
    BY InitPromptInv, NextPromptInv, PTL DEF Spec
  <1>2. QED
    BY <1>1, InitRefines, NextRefines, PTL DEF Spec, ImplementsStoreLoading, SL!Spec

(***************************************************************************)
(* The strengthening behind LoadedConsistent.  Every label after a        *)
(* successful open (up to Loaded) has the seven stores live and linked;   *)
(* upgradeOnceOnly is cleared only by a goto that also converts the index *)
(* or sets fReindex, and neither is ever undone; and the checks run only  *)
(* once a pre-2.0 store has used its one upgrade.  The txindex and pruned *)
(* conjuncts are what Checks itself tests before it lets pc reach Loaded. *)
(***************************************************************************)
OpenedLabels == {"AfterOpen", "ResyncCheck", "LoadIndex", "UpgradeIndex",
                 "Checks", "Loaded"}

LoadedInv ==
    /\ TypeOK
    /\ pc \in OpenedLabels => StoresOpen(mem) /\ sibling
    /\ ~upgradeOnceOnly => (indexUpgraded \/ fReindex)
    /\ pc \in {"Checks", "Loaded"} => (args.oldSchema => ~upgradeOnceOnly)
    /\ LoadedConsistent

\* An open in which no constructor throws leaves every pointer live.
LEMMA OpenNoneLive ==
    ASSUME NEW m \in [Handles -> Slot]
    PROVE  StoresOpen(OpenStores(m, "none"))
  BY DEF StoresOpen, OpenStores, OpenWitness, OpenMain, DeleteKeep, DeleteReset,
         Allocate, Handles, WitnessHandles, WitnessRaw, MainHandles

LEMMA InitLoadedInv == Init => LoadedInv
  BY InitTypeOK DEF Init, LoadedInv, OpenedLabels, LoadedConsistent

\* Every step keeps the strengthening.
LEMMA NextLoadedInv == LoadedInv /\ [Next]_vars => LoadedInv'
  <1> SUFFICES ASSUME LoadedInv, [Next]_vars PROVE LoadedInv'
    OBVIOUS
  <1>0. TypeOK'
    BY NextTypeOK DEF LoadedInv
  <1> USE DEF LoadedInv, OpenedLabels, LoadedConsistent
  <1>1. CASE Begin
    BY <1>0, <1>1 DEF Begin
  <1>2. CASE Open
    <2>1. PICK f \in OpenFailure :
            /\ mem' = OpenStores(mem, f)
            /\ sibling' = (f = "none")
            /\ pc' = IF f = "none" THEN "AfterOpen" ELSE "Failed"
      BY <1>2 DEF Open
    <2>2. pc' = "AfterOpen" => StoresOpen(mem') /\ sibling'
      BY <2>1, OpenNoneLive DEF TypeOK
    <2>3. QED
      BY <1>0, <1>2, <2>1, <2>2 DEF Open
  <1>3. CASE AfterOpen \/ LoadIndex
    BY <1>0, <1>3 DEF AfterOpen, LoadIndex
  <1>4. CASE ResyncCheck
    BY <1>0, <1>4 DEF ResyncCheck
  <1>5. CASE UpgradeIndex
    <2>1. CASE upgradeOnceOnly /\ args.oldSchema
      <3>1. ~upgradeOnceOnly' /\ (indexUpgraded' \/ fReindex') /\ pc' = "Open"
        BY <2>1, <1>5 DEF UpgradeIndex
      <3>2. QED
        BY <1>0, <1>5, <2>1, <3>1 DEF UpgradeIndex
    <2>2. CASE ~(upgradeOnceOnly /\ args.oldSchema)
      BY <1>0, <1>5, <2>2 DEF UpgradeIndex
    <2>3. QED
      BY <2>1, <2>2
  <1>6. CASE Checks
    <2>1. CASE args.wrongNetwork /\ ~fReindex
      BY <1>0, <1>6, <2>1 DEF Checks
    <2>2. CASE ~(args.wrongNetwork /\ ~fReindex)
      <3> DEFINE txi == IF ChainEmpty THEN args.txindex ELSE txIndexFlag
      <3>1. /\ txIndexFlag' = txi
            /\ pc' \in {"Loaded", "Failed"}
            /\ pc' = "Loaded" => CheckFailures(txi) = {}
        BY <1>6, <2>2 DEF Checks
      <3>2. CheckFailures(txi) = {} => txi = args.txindex /\ ~(havePruned /\ ~args.prune)
        BY DEF CheckFailures
      <3>3. QED
        BY <1>0, <1>6, <3>1, <3>2 DEF Checks
    <2>3. QED
      BY <2>1, <2>2
  <1>7. CASE Failed
    BY <1>0, <1>7 DEF Failed
  <1>8. CASE AfterLoop
    BY <1>0, <1>8 DEF AfterLoop
  <1>9. CASE RequestShutdown \/ Teardown \/ Terminated \/ UNCHANGED vars
    BY <1>0, <1>9 DEF RequestShutdown, Teardown, Terminated, vars
  <1>10. QED
    BY <1>1, <1>2, <1>3, <1>4, <1>5, <1>6, <1>7, <1>8, <1>9 DEF Next, LoaderStep

\* A store the loop hands to the rest of the start-up is the one the
\* options ask for, for every bound on the iterations: all seven stores
\* live and linked, the stored txindex flag equal to -txindex, a pruned
\* store only in prune mode, and a pre-2.0 store converted or rebuilt.
THEOREM LoadedConsistentThm == Spec => []LoadedConsistent
  <1>1. LoadedInv => LoadedConsistent
    BY DEF LoadedInv
  <1>2. QED
    BY InitLoadedInv, NextLoadedInv, <1>1, PTL DEF Spec
=============================================================================
