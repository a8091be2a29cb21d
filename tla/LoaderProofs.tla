---------------------------- MODULE LoaderProofs ----------------------------
(***************************************************************************)
(* Proofs about Loader: its invariants hold, and it implements BootMenu,   *)
(* for every set of configurations, every number of attempts and every way *)
(* the firmware may answer.                                                *)
(*                                                                         *)
(* IInv is inductive.  Each of its parts is shown to be kept by a step in  *)
(* a lemma of its own, one step of the lemma per action; each lemma says   *)
(* which of the other parts it needs.                                      *)
(***************************************************************************)
EXTENDS Loader, TLAPS

USE AttemptsAssumption, LoaderAssumption

-----------------------------------------------------------------------------
(***************************************************************************)
(* Types, and that an entry that is looked at exists.                      *)
(***************************************************************************)

\* What a configuration's shape says of the numbers the menu works with.
LEMMA ConfigFacts ==
  ASSUME TypeOK
  PROVE  /\ cfg.count \in 0 .. MaxEntries
         /\ cfg.match \in -1 .. cfg.count - 1
         /\ cfg.timeout \in Nat
BY DEF TypeOK, ConfigOK

\* Whatever number is answered, cmdline_loop() selects an existing entry.
LEMMA SelectType ==
  ASSUME TypeOK, NEW n \in Int, Select(n), pc = "prompt"
  PROVE  (TypeOK /\ Selected)'
<1> USE DEF Goto
<1>1. /\ ServicesTypeOK'
      /\ cfg' \in Configs
      /\ armed' \in BOOLEAN
      /\ defaultEntry' \in 0 .. MaxEntries - 1
      /\ handle' \in 0 .. MaxAttempts
  BY DEF Select, firmwareVars, TypeOK, ArmedAfterInput, ServicesTypeOK
<1>2. pc' \in Location
  BY DEF Select, TypeOK, Location
<1>3. selected' \in 0 .. MaxEntries - 1
  BY ConfigFacts DEF Select, TypeOK
<1>4. attempt' \in 0 .. MaxAttempts
  BY DEF Select, TypeOK
<1>5. Selected'
  BY <1>4 DEF Select, TypeOK, Selected, Attempt, Loading, Location
<1>6. QED
  BY <1>1, <1>2, <1>3, <1>4, <1>5 DEF TypeOK

\* A step keeps the types, and an entry under load stays an existing one.
LEMMA TypeStep ==
  ASSUME TypeOK, Selected, [Next]_vars
  PROVE  (TypeOK /\ Selected)'
<1> USE DEF TypeOK, ServicesTypeOK, Selected, Location, Loading, Attempt,
            Use, Objects, controlVars, deviceVars, firmwareVars, Goto, Free,
            AllocFree
<1>1. CASE LoadCfg
  BY <1>1 DEF LoadCfg, Goto, controlVars, firmwareVars
<1>2. CASE ShowMenu
  BY <1>2, ConfigFacts DEF ShowMenu, SettledDefault
<1>3. CASE Reply
  <2>1. PICK n \in -1 .. cfg.count : Select(n)
    BY <1>3 DEF Reply
  <2>2. n \in Int
    BY <2>1, ConfigFacts
  <2>3. QED
    BY <1>3, <2>1, <2>2, SelectType DEF Reply
<1>4. CASE Timeout
  BY <1>4, SelectType DEF Timeout, ChoiceOnTimeout
<1>5. CASE KernelPair
  BY <1>5 DEF KernelPair, OutErr, Fail, Alloc
<1>6. CASE KernelSize
  BY <1>6 DEF KernelSize, OutErr, Fail
<1>7. CASE KernelPages
  BY <1>7 DEF KernelPages, OutErr, Fail, Alloc
<1>8. CASE KernelLoad
  BY <1>8 DEF KernelLoad, FreeKernel, Fail
<1>9. CASE LoadImage
  BY <1>9 DEF LoadImage, FreeKernelBase, Fail, Load, LoadedHandle
<1>10. CASE FdtPair
  BY <1>10 DEF FdtPair, Alloc
<1>11. CASE FdtSize
  BY <1>11 DEF FdtSize, UnloadImage, Fail, Unload, Alloc, FreedOnFdtSize
<1>12. CASE FdtLoad
  BY <1>12 DEF FdtLoad, UnloadImage, Fail, Unload, FreedOnFdtLoad
<1>13. CASE FdtInstall
  BY <1>13 DEF FdtInstall, FreedOnceInstalled
<1>14. CASE InitrdPair
  BY <1>14 DEF InitrdPair, Alloc
<1>15. CASE InitrdSize
  BY <1>15 DEF InitrdSize, RejectInitrd, UnloadImage, Fail, Unload
<1>16. CASE InitrdPages
  BY <1>16 DEF InitrdPages, RejectInitrd, UnloadImage, Fail, Unload, Alloc
<1>17. CASE InitrdLoad
  BY <1>17 DEF InitrdLoad, RejectInitrd, UnloadImage, Fail, Unload
<1>18. CASE InitrdSetup
  BY <1>18 DEF InitrdSetup, Alloc
<1>19. CASE InitrdFile2
  BY <1>19 DEF InitrdFile2, UninstallDevicePath
<1>20. CASE SetupAppend
  BY <1>20 DEF SetupAppend
<1>21. CASE StartImage
  BY <1>21 DEF StartImage, Goto, controlVars, firmwareVars
<1>22. CASE ImageReturns
  BY <1>22 DEF ImageReturns, Goto, controlVars, firmwareVars
<1>23. CASE Panic
  BY <1>23 DEF Panic, Panics, Goto, controlVars, firmwareVars
<1>24. CASE Spin
  BY <1>24 DEF Spin, vars
<1>25. CASE UNCHANGED vars
  BY <1>25 DEF vars
<1>26. QED
  BY <1>1, <1>2, <1>3, <1>4, <1>5, <1>6, <1>7, <1>8, <1>9, <1>10, <1>11,
     <1>12, <1>13, <1>14, <1>15, <1>16, <1>17, <1>18, <1>19, <1>20, <1>21,
     <1>22, <1>23, <1>24, <1>25 DEF Next, Program, Kernel, Devicetree,
     Initrd

-----------------------------------------------------------------------------
(***************************************************************************)
(* Memory: every exit releases what is held and nothing else, and nothing  *)
(* temporary or handed over is kept, or lost, by any path.                 *)
(***************************************************************************)

\* What is released is held.
LEMMA MisfreedStep ==
  ASSUME TypeOK, NothingMisfreed, Own(Held) \subseteq live, [Next]_vars
  PROVE  NothingMisfreed'
<1> USE DEF NothingMisfreed, Own, Held, Objects, Location, Loading,
            AfterImage, controlVars, deviceVars, firmwareVars, Goto, Free,
            AllocFree
<1>1. CASE LoadCfg
  BY <1>1 DEF LoadCfg, Goto, controlVars, firmwareVars
<1>2. CASE ShowMenu
  BY <1>2 DEF ShowMenu, Goto, firmwareVars, SettledDefault
<1>3. CASE Reply
  BY <1>3 DEF Reply, Select, Goto, firmwareVars, ArmedAfterInput
<1>4. CASE Timeout
  BY <1>4 DEF Timeout, Select, Goto, firmwareVars, ArmedAfterInput,
     ChoiceOnTimeout
<1>5. CASE KernelPair
  BY <1>5 DEF KernelPair, OutErr, Fail, Alloc
<1>6. CASE KernelSize
  BY <1>6 DEF KernelSize, OutErr, Fail
<1>7. CASE KernelPages
  BY <1>7 DEF KernelPages, OutErr, Fail, Alloc
<1>8. CASE KernelLoad
  BY <1>8 DEF KernelLoad, FreeKernel, Fail
<1>9. CASE LoadImage
  BY <1>9 DEF LoadImage, FreeKernelBase, Fail, Load, LoadedHandle
<1>10. CASE FdtPair
  BY <1>10 DEF FdtPair, Alloc
<1>11. CASE FdtSize
  BY <1>11 DEF FdtSize, UnloadImage, Fail, Unload, Alloc, FreedOnFdtSize
<1>12. CASE FdtLoad
  BY <1>12 DEF FdtLoad, UnloadImage, Fail, Unload, FreedOnFdtLoad
<1>13. CASE FdtInstall
  BY <1>13 DEF FdtInstall, FreedOnceInstalled
<1>14. CASE InitrdPair
  BY <1>14 DEF InitrdPair, Alloc
<1>15. CASE InitrdSize
  BY <1>15 DEF InitrdSize, RejectInitrd, UnloadImage, Fail, Unload
<1>16. CASE InitrdPages
  BY <1>16 DEF InitrdPages, RejectInitrd, UnloadImage, Fail, Unload, Alloc
<1>17. CASE InitrdLoad
  BY <1>17 DEF InitrdLoad, RejectInitrd, UnloadImage, Fail, Unload
<1>18. CASE InitrdSetup
  BY <1>18 DEF InitrdSetup, Alloc
<1>19. CASE InitrdFile2
  BY <1>19 DEF InitrdFile2, UninstallDevicePath
<1>20. CASE SetupAppend
  BY <1>20 DEF SetupAppend
<1>21. CASE StartImage
  BY <1>21 DEF StartImage, Goto, controlVars, firmwareVars
<1>22. CASE ImageReturns
  BY <1>22 DEF ImageReturns, Goto, controlVars, firmwareVars
<1>23. CASE Panic
  BY <1>23 DEF Panic, Panics, Goto, controlVars, firmwareVars
<1>24. CASE Spin
  BY <1>24 DEF Spin, vars
<1>25. CASE UNCHANGED vars
  BY <1>25 DEF vars
<1>26. QED
  BY <1>1, <1>2, <1>3, <1>4, <1>5, <1>6, <1>7, <1>8, <1>9, <1>10, <1>11,
     <1>12, <1>13, <1>14, <1>15, <1>16, <1>17, <1>18, <1>19, <1>20, <1>21,
     <1>22, <1>23, <1>24, <1>25 DEF Next, Program, Kernel, Devicetree,
     Initrd

\* What is held at a location is live there, whatever path led to it.
LEMMA HeldStep ==
  ASSUME TypeOK, Own(Held) \subseteq live, [Next]_vars
  PROVE  (Own(Held) \subseteq live)'
<1> USE DEF Own, Held, Objects, Location, Loading, AfterImage, controlVars,
            deviceVars, firmwareVars, Goto, Free, AllocFree
<1>1. CASE LoadCfg
  BY <1>1 DEF LoadCfg, Goto, controlVars, firmwareVars
<1>2. CASE ShowMenu
  BY <1>2 DEF ShowMenu, Goto, firmwareVars, SettledDefault
<1>3. CASE Reply
  BY <1>3 DEF Reply, Select, Goto, firmwareVars, ArmedAfterInput
<1>4. CASE Timeout
  BY <1>4 DEF Timeout, Select, Goto, firmwareVars, ArmedAfterInput,
     ChoiceOnTimeout
<1>5. CASE KernelPair
  BY <1>5 DEF KernelPair, OutErr, Fail, Alloc
<1>6. CASE KernelSize
  BY <1>6 DEF KernelSize, OutErr, Fail
<1>7. CASE KernelPages
  BY <1>7 DEF KernelPages, OutErr, Fail, Alloc
<1>8. CASE KernelLoad
  BY <1>8 DEF KernelLoad, FreeKernel, Fail
<1>9. CASE LoadImage
  BY <1>9 DEF LoadImage, FreeKernelBase, Fail, Load, LoadedHandle
<1>10. CASE FdtPair
  BY <1>10 DEF FdtPair, Alloc
<1>11. CASE FdtSize
  BY <1>11 DEF FdtSize, UnloadImage, Fail, Unload, Alloc, FreedOnFdtSize
<1>12. CASE FdtLoad
  BY <1>12 DEF FdtLoad, UnloadImage, Fail, Unload, FreedOnFdtLoad
<1>13. CASE FdtInstall
  BY <1>13 DEF FdtInstall, FreedOnceInstalled
<1>14. CASE InitrdPair
  BY <1>14 DEF InitrdPair, Alloc
<1>15. CASE InitrdSize
  BY <1>15 DEF InitrdSize, RejectInitrd, UnloadImage, Fail, Unload
<1>16. CASE InitrdPages
  BY <1>16 DEF InitrdPages, RejectInitrd, UnloadImage, Fail, Unload, Alloc
<1>17. CASE InitrdLoad
  BY <1>17 DEF InitrdLoad, RejectInitrd, UnloadImage, Fail, Unload
<1>18. CASE InitrdSetup
  BY <1>18 DEF InitrdSetup, Alloc
<1>19. CASE InitrdFile2
  BY <1>19 DEF InitrdFile2, UninstallDevicePath
<1>20. CASE SetupAppend
  BY <1>20 DEF SetupAppend
<1>21. CASE StartImage
  BY <1>21 DEF StartImage, Goto, controlVars, firmwareVars
<1>22. CASE ImageReturns
  BY <1>22 DEF ImageReturns, Goto, controlVars, firmwareVars
<1>23. CASE Panic
  BY <1>23 DEF Panic, Panics, Goto, controlVars, firmwareVars
<1>24. CASE Spin
  BY <1>24 DEF Spin, vars
<1>25. CASE UNCHANGED vars
  BY <1>25 DEF vars
<1>26. QED
  BY <1>1, <1>2, <1>3, <1>4, <1>5, <1>6, <1>7, <1>8, <1>9, <1>10, <1>11,
     <1>12, <1>13, <1>14, <1>15, <1>16, <1>17, <1>18, <1>19, <1>20, <1>21,
     <1>22, <1>23, <1>24, <1>25 DEF Next, Program, Kernel, Devicetree,
     Initrd

\* Nothing transient survives the exit of its block.
LEMMA TransientStep ==
  ASSUME TypeOK, Transient, [Next]_vars
  PROVE  Transient'
<1> USE DEF Transient, Objects, controlVars, deviceVars, firmwareVars, Goto,
            Free, AllocFree
<1>1. CASE LoadCfg
  BY <1>1 DEF LoadCfg, Goto, controlVars, firmwareVars
<1>2. CASE ShowMenu
  BY <1>2 DEF ShowMenu, Goto, firmwareVars, SettledDefault
<1>3. CASE Reply
  BY <1>3 DEF Reply, Select, Goto, firmwareVars, ArmedAfterInput
<1>4. CASE Timeout
  BY <1>4 DEF Timeout, Select, Goto, firmwareVars, ArmedAfterInput,
     ChoiceOnTimeout
<1>5. CASE KernelPair
  <2>1. CASE OutErr
    BY <1>5, <2>1 DEF KernelPair, OutErr, Fail
  <2>2. CASE Goto("kernel_size") /\ Alloc(attempt, {"kernelName"})
    BY <1>5, <2>2 DEF KernelPair, Alloc
  <2>3. QED
    BY <1>5, <2>1, <2>2 DEF KernelPair
<1>6. CASE KernelSize
  <2>1. CASE OutErr
    BY <1>6, <2>1 DEF KernelSize, OutErr, Fail
  <2>2. CASE Goto("kernel_pages") /\ live' = live
    BY <1>6, <2>2 DEF KernelSize
  <2>3. QED
    BY <1>6, <2>1, <2>2 DEF KernelSize
<1>7. CASE KernelPages
  <2>1. CASE OutErr
    BY <1>7, <2>1 DEF KernelPages, OutErr, Fail
  <2>2. CASE Goto("kernel_load") /\ Alloc(attempt, {"kernelBase"})
    BY <1>7, <2>2 DEF KernelPages, Alloc
  <2>3. QED
    BY <1>7, <2>1, <2>2 DEF KernelPages
<1>8. CASE KernelLoad
  <2>1. CASE FreeKernel
    BY <1>8, <2>1 DEF KernelLoad, FreeKernel, Fail
  <2>2. CASE Goto("load_image") /\ live' = live
    BY <1>8, <2>2 DEF KernelLoad
  <2>3. QED
    BY <1>8, <2>1, <2>2 DEF KernelLoad
<1>9. CASE LoadImage
  <2>1. CASE FreeKernelBase
    BY <1>9, <2>1 DEF LoadImage, FreeKernelBase, Fail
  <2>2. CASE Goto("fdt_pair") /\ live' = live
    BY <1>9, <2>2 DEF LoadImage
  <2>3. QED
    BY <1>9, <2>1, <2>2 DEF LoadImage
<1>10. CASE FdtPair
  <2>1. CASE Goto("initrd_pair") /\ live' = live
    BY <1>10, <2>1 DEF FdtPair
  <2>2. CASE Goto("fdt_size") /\ Alloc(attempt, {"fdtName"})
    BY <1>10, <2>2 DEF FdtPair, Alloc
  <2>3. QED
    BY <1>10, <2>1, <2>2 DEF FdtPair
<1>11. CASE FdtSize
  <2>1. CASE UnloadImage(FreedOnFdtSize)
    BY <1>11, <2>1 DEF FdtSize, UnloadImage, FreedOnFdtSize, Fail
  <2>2. CASE Goto("fdt_load") /\ Alloc(attempt, {"fdtBase"})
    BY <1>11, <2>2 DEF FdtSize, Alloc
  <2>3. QED
    BY <1>11, <2>1, <2>2 DEF FdtSize
<1>12. CASE FdtLoad
  <2>1. CASE UnloadImage(FreedOnFdtLoad)
    BY <1>12, <2>1 DEF FdtLoad, UnloadImage, FreedOnFdtLoad, Fail
  <2>2. CASE Goto("fdt_install") /\ live' = live
    BY <1>12, <2>2 DEF FdtLoad
  <2>3. QED
    BY <1>12, <2>1, <2>2 DEF FdtLoad
<1>13. CASE FdtInstall
  BY <1>13 DEF FdtInstall, FreedOnceInstalled
<1>14. CASE InitrdPair
  <2>1. CASE Goto("append") /\ live' = live
    BY <1>14, <2>1 DEF InitrdPair
  <2>2. CASE Goto("initrd_size") /\ Alloc(attempt, {"initrdName"})
    BY <1>14, <2>2 DEF InitrdPair, Alloc
  <2>3. QED
    BY <1>14, <2>1, <2>2 DEF InitrdPair
<1>15. CASE InitrdSize
  <2>1. CASE RejectInitrd
    BY <1>15, <2>1 DEF InitrdSize, RejectInitrd, UnloadImage, Fail
  <2>2. CASE Goto("initrd_pages") /\ live' = live
    BY <1>15, <2>2 DEF InitrdSize
  <2>3. QED
    BY <1>15, <2>1, <2>2 DEF InitrdSize
<1>16. CASE InitrdPages
  <2>1. CASE RejectInitrd
    BY <1>16, <2>1 DEF InitrdPages, RejectInitrd, UnloadImage, Fail
  <2>2. CASE Goto("initrd_load") /\ Alloc(attempt, {"initrdBase"})
    BY <1>16, <2>2 DEF InitrdPages, Alloc
  <2>3. QED
    BY <1>16, <2>1, <2>2 DEF InitrdPages
<1>17. CASE InitrdLoad
  <2>1. CASE RejectInitrd
    BY <1>17, <2>1 DEF InitrdLoad, RejectInitrd, UnloadImage, Fail
  <2>2. CASE Goto("initrd_setup") /\ live' = live
    BY <1>17, <2>2 DEF InitrdLoad
  <2>3. QED
    BY <1>17, <2>1, <2>2 DEF InitrdLoad
<1>18. CASE InitrdSetup
  <2>1. CASE Goto("append") /\ AllocFree(attempt, {"initrdProtocol"}, {"initrdProtocol"})
    BY <1>18, <2>1 DEF InitrdSetup
  <2>2. CASE Goto("initrd_file2") /\ Alloc(attempt, {"initrdProtocol"})
    BY <1>18, <2>2 DEF InitrdSetup, Alloc
  <2>3. QED
    BY <1>18, <2>1, <2>2 DEF InitrdSetup
<1>19. CASE InitrdFile2
  <2>1. CASE live' = live
    BY <1>19, <2>1 DEF InitrdFile2
  <2>2. CASE Free(attempt, {"initrdProtocol"})
    BY <1>19, <2>2 DEF InitrdFile2
  <2>3. QED
    BY <1>19, <2>1, <2>2 DEF InitrdFile2
<1>20. CASE SetupAppend
  <2>1. CASE AllocFree(attempt, {"append", "wAppend"}, {"kernelName", "append"})
    BY <1>20, <2>1 DEF SetupAppend
  <2>2. CASE Free(attempt, {"kernelName"})
    BY <1>20, <2>2 DEF SetupAppend
  <2>3. QED
    BY <1>20, <2>1, <2>2 DEF SetupAppend
<1>21. CASE StartImage
  BY <1>21 DEF StartImage, Goto, controlVars, firmwareVars
<1>22. CASE ImageReturns
  BY <1>22 DEF ImageReturns, Goto, controlVars, firmwareVars
<1>23. CASE Panic
  BY <1>23 DEF Panic, Panics, Goto, controlVars, firmwareVars
<1>24. CASE Spin
  BY <1>24 DEF Spin, vars
<1>25. CASE UNCHANGED vars
  BY <1>25 DEF vars
<1>26. QED
  BY <1>1, <1>2, <1>3, <1>4, <1>5, <1>6, <1>7, <1>8, <1>9, <1>10, <1>11,
     <1>12, <1>13, <1>14, <1>15, <1>16, <1>17, <1>18, <1>19, <1>20, <1>21,
     <1>22, <1>23, <1>24, <1>25 DEF Next, Program, Kernel, Devicetree,
     Initrd

\* What the firmware or the kernel points at stays allocated.
LEMMA HandedOverStep ==
  ASSUME TypeOK, Selected, Own(Held) \subseteq live, Hanging,
         HandedOverLive, [Next]_vars
  PROVE  HandedOverLive'
<1> USE DEF HandedOverLive, Hanging, Own, Held, TypeOK, ServicesTypeOK,
            Selected, Attempt, Firmware, Objects, Location, Loading,
            AfterImage, controlVars, deviceVars, firmwareVars, Goto, Free,
            AllocFree
<1>1. CASE LoadCfg
  BY <1>1 DEF LoadCfg, Goto, controlVars, firmwareVars
<1>2. CASE ShowMenu
  BY <1>2 DEF ShowMenu, Goto, firmwareVars, SettledDefault
<1>3. CASE Reply
  BY <1>3 DEF Reply, Select, Goto, firmwareVars, ArmedAfterInput
<1>4. CASE Timeout
  BY <1>4 DEF Timeout, Select, Goto, firmwareVars, ArmedAfterInput,
     ChoiceOnTimeout
<1>5. CASE KernelPair
  BY <1>5 DEF KernelPair, OutErr, Fail, Alloc
<1>6. CASE KernelSize
  BY <1>6 DEF KernelSize, OutErr, Fail
<1>7. CASE KernelPages
  BY <1>7 DEF KernelPages, OutErr, Fail, Alloc
<1>8. CASE KernelLoad
  BY <1>8 DEF KernelLoad, FreeKernel, Fail
<1>9. CASE LoadImage
  BY <1>9 DEF LoadImage, FreeKernelBase, Fail, Load, LoadedHandle
<1>10. CASE FdtPair
  BY <1>10 DEF FdtPair, Alloc
<1>11. CASE FdtSize
  BY <1>11 DEF FdtSize, UnloadImage, Fail, Unload, Alloc, FreedOnFdtSize
<1>12. CASE FdtLoad
  BY <1>12 DEF FdtLoad, UnloadImage, Fail, Unload, FreedOnFdtLoad
<1>13. CASE FdtInstall
  BY <1>13 DEF FdtInstall, FreedOnceInstalled
<1>14. CASE InitrdPair
  BY <1>14 DEF InitrdPair, Alloc
<1>15. CASE InitrdSize
  BY <1>15 DEF InitrdSize, RejectInitrd, UnloadImage, Fail, Unload
<1>16. CASE InitrdPages
  BY <1>16 DEF InitrdPages, RejectInitrd, UnloadImage, Fail, Unload, Alloc
<1>17. CASE InitrdLoad
  BY <1>17 DEF InitrdLoad, RejectInitrd, UnloadImage, Fail, Unload
<1>18. CASE InitrdSetup
  BY <1>18 DEF InitrdSetup, Alloc
<1>19. CASE InitrdFile2
  BY <1>19 DEF InitrdFile2, UninstallDevicePath
<1>20. CASE SetupAppend
  BY <1>20 DEF SetupAppend
<1>21. CASE StartImage
  BY <1>21 DEF StartImage, Goto, controlVars, firmwareVars
<1>22. CASE ImageReturns
  BY <1>22 DEF ImageReturns, Goto, controlVars, firmwareVars
<1>23. CASE Panic
  BY <1>23 DEF Panic, Panics, Goto, controlVars, firmwareVars
<1>24. CASE Spin
  BY <1>24 DEF Spin, vars
<1>25. CASE UNCHANGED vars
  BY <1>25 DEF vars
<1>26. QED
  BY <1>1, <1>2, <1>3, <1>4, <1>5, <1>6, <1>7, <1>8, <1>9, <1>10, <1>11,
     <1>12, <1>13, <1>14, <1>15, <1>16, <1>17, <1>18, <1>19, <1>20, <1>21,
     <1>22, <1>23, <1>24, <1>25 DEF Next, Program, Kernel, Devicetree,
     Initrd

-----------------------------------------------------------------------------
(***************************************************************************)
(* What hangs on the firmware at each location, and the invariant.         *)
(***************************************************************************)

\* The image, its options and the initrd device come and go with their attempt.
LEMMA HangingStep ==
  ASSUME TypeOK, Selected, Hanging, [Next]_vars
  PROVE  Hanging'
<1> USE DEF Hanging, Entry, Location, Loading, AfterImage, controlVars,
            deviceVars, firmwareVars, Goto, Free, AllocFree
<1>1. CASE LoadCfg
  BY <1>1 DEF LoadCfg, Goto, controlVars, firmwareVars
<1>2. CASE ShowMenu
  BY <1>2 DEF ShowMenu, Goto, firmwareVars, SettledDefault
<1>3. CASE Reply
  BY <1>3 DEF Reply, Select, Goto, firmwareVars, ArmedAfterInput
<1>4. CASE Timeout
  BY <1>4 DEF Timeout, Select, Goto, firmwareVars, ArmedAfterInput,
     ChoiceOnTimeout
<1>5. CASE KernelPair
  BY <1>5 DEF KernelPair, OutErr, Fail, Alloc
<1>6. CASE KernelSize
  BY <1>6 DEF KernelSize, OutErr, Fail
<1>7. CASE KernelPages
  BY <1>7 DEF KernelPages, OutErr, Fail, Alloc
<1>8. CASE KernelLoad
  BY <1>8 DEF KernelLoad, FreeKernel, Fail
<1>9. CASE LoadImage
  BY <1>9 DEF LoadImage, FreeKernelBase, Fail, Load, LoadedHandle
<1>10. CASE FdtPair
  BY <1>10 DEF FdtPair, Alloc
<1>11. CASE FdtSize
  BY <1>11 DEF FdtSize, UnloadImage, Fail, Unload, Alloc, FreedOnFdtSize
<1>12. CASE FdtLoad
  BY <1>12 DEF FdtLoad, UnloadImage, Fail, Unload, FreedOnFdtLoad
<1>13. CASE FdtInstall
  BY <1>13 DEF FdtInstall, FreedOnceInstalled
<1>14. CASE InitrdPair
  BY <1>14 DEF InitrdPair, Alloc
<1>15. CASE InitrdSize
  BY <1>15 DEF InitrdSize, RejectInitrd, UnloadImage, Fail, Unload
<1>16. CASE InitrdPages
  BY <1>16 DEF InitrdPages, RejectInitrd, UnloadImage, Fail, Unload, Alloc
<1>17. CASE InitrdLoad
  BY <1>17 DEF InitrdLoad, RejectInitrd, UnloadImage, Fail, Unload
<1>18. CASE InitrdSetup
  BY <1>18 DEF InitrdSetup, Alloc
<1>19. CASE InitrdFile2
  BY <1>19 DEF InitrdFile2, UninstallDevicePath
<1>20. CASE SetupAppend
  BY <1>20 DEF SetupAppend
<1>21. CASE StartImage
  BY <1>21 DEF StartImage, Goto, controlVars, firmwareVars
<1>22. CASE ImageReturns
  BY <1>22 DEF ImageReturns, Goto, controlVars, firmwareVars
<1>23. CASE Panic
  BY <1>23 DEF Panic, Panics, Goto, controlVars, firmwareVars
<1>24. CASE Spin
  BY <1>24 DEF Spin, vars
<1>25. CASE UNCHANGED vars
  BY <1>25 DEF vars
<1>26. QED
  BY <1>1, <1>2, <1>3, <1>4, <1>5, <1>6, <1>7, <1>8, <1>9, <1>10, <1>11,
     <1>12, <1>13, <1>14, <1>15, <1>16, <1>17, <1>18, <1>19, <1>20, <1>21,
     <1>22, <1>23, <1>24, <1>25 DEF Next, Program, Kernel, Devicetree,
     Initrd

\* The program starts with nothing allocated and nothing installed.
LEMMA InitInv == Init => IInv
<1> SUFFICES ASSUME Init PROVE IInv
  OBVIOUS
<1>1. TypeOK
  <2>1. ServicesTypeOK
    BY DEF Init, ServicesInit, ServicesTypeOK, Firmware
  <2>2. pc \in Location
    BY DEF Init, Location
  <2>3. cfg \in Configs /\ armed \in BOOLEAN
    BY DEF Init
  <2>4. defaultEntry \in 0 .. MaxEntries - 1 /\ selected \in 0 .. MaxEntries - 1
    BY DEF Init
  <2>5. attempt \in 0 .. MaxAttempts /\ handle \in 0 .. MaxAttempts
    BY DEF Init
  <2>6. QED
    BY <2>1, <2>2, <2>3, <2>4, <2>5 DEF TypeOK
<1>2. Selected /\ NothingMisfreed /\ HandedOverLive
  BY DEF Init, ServicesInit, Selected, Loading, Location, NothingMisfreed,
         HandedOverLive, Firmware
<1>3. Own(Held) \subseteq live /\ Transient /\ Hanging
  BY DEF Init, ServicesInit, Own, Objects, Held, Transient, Hanging, Loading,
         Location, AfterImage
<1>4. QED
  BY <1>1, <1>2, <1>3 DEF IInv

\* IInv is inductive.
LEMMA StepInv == IInv /\ [Next]_vars => IInv'
<1> SUFFICES ASSUME IInv, [Next]_vars PROVE IInv'
  OBVIOUS
<1>1. (TypeOK /\ Selected)'
  BY TypeStep DEF IInv
<1>2. NothingMisfreed'
  BY MisfreedStep DEF IInv
<1>3. (Own(Held) \subseteq live)'
  BY HeldStep DEF IInv
<1>4. Transient'
  BY TransientStep DEF IInv
<1>5. Hanging'
  BY HangingStep DEF IInv
<1>6. HandedOverLive'
  BY HandedOverStep DEF IInv
<1>7. QED
  BY <1>1, <1>2, <1>3, <1>4, <1>5, <1>6 DEF IInv

\* What the program holds and what hangs on the firmware is, at every location
\* of load_and_validate_entry(), what IInv says.
THEOREM Invariance == Spec => []IInv
BY InitInv, StepInv, PTL DEF Spec

-----------------------------------------------------------------------------
(***************************************************************************)
(* The properties the runs check.                                          *)
(***************************************************************************)

\* The state has its types; in particular the entry that the countdown picks,
\* and the one selected, are numbers the menu may show.
THEOREM TypeCorrect == Spec => []TypeOK
<1>1. IInv => TypeOK
  BY DEF IInv
<1>2. QED
  BY <1>1, Invariance, PTL

\* No path through the error labels releases an object twice or too early.
THEOREM NeverMisfrees == Spec => []NothingMisfreed
<1>1. IInv => NothingMisfreed
  BY DEF IInv
<1>2. QED
  BY <1>1, Invariance, PTL

\* Memory that the firmware or the kernel uses later is never released.
THEOREM HandedOverStaysLive == Spec => []HandedOverLive
<1>1. IInv => HandedOverLive
  BY DEF IInv
<1>2. QED
  BY <1>1, Invariance, PTL

\* A rejected entry leaves no image, options, initrd device or file buffer.
THEOREM RejectionIsClean == Spec => []RejectedLeavesNothing
<1>1. IInv => RejectedLeavesNothing
  <2> SUFFICES ASSUME IInv, pc = "prompt"
               PROVE  /\ images \cup options \cup initrdPaths \cup initrdFiles = {}
                      /\ live \cap (Attempt \X {"fdtBase", "initrdProtocol",
                                             "append", "wAppend"}) = {}
    BY DEF RejectedLeavesNothing
  <2>1. images \cup options \cup initrdPaths \cup initrdFiles = {}
    BY DEF IInv, Hanging, AfterImage
  <2>2. \A a \in Attempt : \A u \in {"fdtBase", "initrdProtocol", "append", "wAppend"} :
          <<a, u>> \notin live
    BY DEF IInv, Transient
  <2>3. ASSUME NEW o \in Attempt \X {"fdtBase", "initrdProtocol", "append", "wAppend"}
        PROVE  o \notin live
    <3>1. PICK a \in Attempt, u \in {"fdtBase", "initrdProtocol", "append", "wAppend"} :
            o = <<a, u>>
      OBVIOUS
    <3>2. QED
      BY <2>2, <3>1
  <2>4. QED
    BY <2>1, <2>3
<1>2. QED
  BY <1>1, Invariance, PTL

\* startImage() gets the one image that is loaded, with its entry's options.
THEOREM KernelIsItsOwn == Spec => []StartsItsImage
<1>1. IInv => StartsItsImage
  BY DEF IInv, Hanging, AfterImage, StartsItsImage
<1>2. QED
  BY <1>1, Invariance, PTL

\* The initrd device never lacks its protocol and never is another attempt's.
THEOREM InitrdIsWhole == Spec => []InitrdWhole
<1>1. IInv => InitrdWhole
  BY DEF IInv, TypeOK, Location, Hanging, InitrdWhole
<1>2. QED
  BY <1>1, Invariance, PTL

-----------------------------------------------------------------------------
(***************************************************************************)
(* What a kernel gets from a firmware that refuses nothing.                *)
(***************************************************************************)

\* Past the devicetree, and past the initrd, what the entry names is there.
PastDevicetree == AfterImage \ {"fdt_pair", "fdt_size", "fdt_load", "fdt_install"}
PastInitrd == {"append", "loaded", "started"}

Provided ==
  ~cfg.faults =>
    /\ pc \in PastDevicetree /\ DevicetreePath # "absent" => dtb = attempt
    /\ pc \in PastInitrd /\ Entry.initrd # "absent" => initrdFiles = {attempt}

\* Once an entry is past its devicetree, only the step that serves the initrd adds
\* to what it is given.
LEMMA ProvidedStep ==
  ASSUME IInv, Provided, [Next]_vars
  PROVE  Provided'
<1> USE DEF Provided, PastDevicetree, PastInitrd, AfterImage, DevicetreePath, Entry,
            controlVars, deviceVars, firmwareVars, Goto, Fail
<1>1. CASE LoadCfg \/ ShowMenu \/ Panic \/ ImageReturns
  BY <1>1 DEF LoadCfg, ShowMenu, Panic, ImageReturns
<1>2. CASE Reply \/ Timeout
  BY <1>2 DEF Reply, Timeout, Select
<1>3. CASE KernelPair \/ KernelSize \/ KernelPages \/ KernelLoad \/ LoadImage
  BY <1>3 DEF KernelPair, KernelSize, KernelPages, KernelLoad, LoadImage, OutErr, FreeKernel,
              FreeKernelBase
<1>4. CASE FdtPair
  BY <1>4 DEF FdtPair
<1>5. CASE FdtSize \/ FdtLoad
  BY <1>5 DEF FdtSize, FdtLoad, UnloadImage
<1>6. CASE FdtInstall
  BY <1>6 DEF FdtInstall
<1>7. CASE InitrdPair
  BY <1>7 DEF InitrdPair
<1>8. CASE InitrdSize \/ InitrdPages \/ InitrdLoad
  BY <1>8 DEF InitrdSize, InitrdPages, InitrdLoad, RejectInitrd, UnloadImage
<1>9. CASE InitrdSetup
  BY <1>9 DEF InitrdSetup
<1>10. CASE InitrdFile2
  <2>1. initrdFiles = {}
    BY <1>10 DEF InitrdFile2, IInv, Hanging
  <2> QED BY <1>10, <2>1 DEF InitrdFile2
<1>11. CASE SetupAppend
  BY <1>11 DEF SetupAppend
<1>12. CASE StartImage
  BY <1>12 DEF StartImage
<1>13. CASE Spin \/ UNCHANGED vars
  BY <1>13 DEF Spin, vars
<1> QED BY <1>1, <1>2, <1>3, <1>4, <1>5, <1>6, <1>7, <1>8, <1>9, <1>10, <1>11, <1>12, <1>13
        DEF Next, Program, Kernel, Devicetree, Initrd

\* A kernel is started with its entry's devicetree and initrd, unless the firmware
\* refused a call for reasons of its own.
THEOREM KernelHasItsEnvironment == Spec => []EnvironmentComplete
<1>1. Init => Provided
  BY DEF Init, Provided, PastDevicetree, PastInitrd, AfterImage
<1>2. IInv /\ Provided /\ [Next]_vars => Provided'
  BY ProvidedStep
<1>3. Provided => EnvironmentComplete
  BY DEF Provided, PastDevicetree, PastInitrd, AfterImage, DevicetreePath, EnvironmentComplete
<1> QED BY <1>1, <1>2, <1>3, Invariance, PTL DEF Spec

-----------------------------------------------------------------------------
(***************************************************************************)
(* Refinement: the loader does nothing that BootMenu does not allow.       *)
(***************************************************************************)

\* The loader starts where the boot menu starts.
LEMMA MenuInit == Init => Menu!Init
BY DEF Init, ServicesInit, Menu!Init, Menu!Nothing, Phase, Firmware, Loading,
       Location

\* Every step of the loader is one of the boot menu or changes nothing in it.
LEMMA MenuStep ==
  ASSUME IInv, IInv', [Next]_vars
  PROVE  [Menu!Next]_(Menu!menuVars)
<1> USE DEF Menu!menuVars, Menu!Nothing, Phase, Loading, Location,
            controlVars, deviceVars, firmwareVars, Goto, Fail
<1>1. CASE LoadCfg
  BY <1>1 DEF LoadCfg, Goto, controlVars, firmwareVars, Menu!Next,
     Menu!Halt
<1>2. CASE ShowMenu
  BY <1>2 DEF ShowMenu, Goto, firmwareVars, SettledDefault, Menu!Next,
     Menu!Show, Menu!Entries, IInv, TypeOK
<1>3. CASE Reply
  BY <1>3, ConfigFacts DEF Reply, Select, Goto, firmwareVars,
     ArmedAfterInput, Menu!Next, Menu!Pick, Menu!Try, Menu!Ignore,
     Menu!Entries, IInv, TypeOK
<1>4. CASE Timeout
  BY <1>4 DEF Timeout, Select, Goto, firmwareVars, ArmedAfterInput,
     ChoiceOnTimeout, Menu!Next, Menu!Expire, Menu!Try, Menu!Ignore,
     Menu!Entries, IInv, TypeOK
<1>5. CASE KernelPair
  BY <1>5 DEF KernelPair, OutErr, Fail, Alloc, Menu!Next, Menu!Reject
<1>6. CASE KernelSize
  BY <1>6 DEF KernelSize, OutErr, Fail, Menu!Next, Menu!Reject
<1>7. CASE KernelPages
  BY <1>7 DEF KernelPages, OutErr, Fail, Alloc, Menu!Next, Menu!Reject
<1>8. CASE KernelLoad
  BY <1>8 DEF KernelLoad, FreeKernel, Fail, Menu!Next, Menu!Reject
<1>9. CASE LoadImage
  BY <1>9 DEF LoadImage, FreeKernelBase, Fail, Load, LoadedHandle,
     Menu!Next, Menu!Reject
<1>10. CASE FdtPair
  BY <1>10 DEF FdtPair, Alloc
<1>11. CASE FdtSize
  BY <1>11 DEF FdtSize, UnloadImage, Fail, Unload, Alloc, FreedOnFdtSize,
     Menu!Next, Menu!Reject
<1>12. CASE FdtLoad
  BY <1>12 DEF FdtLoad, UnloadImage, Fail, Unload, FreedOnFdtLoad,
     Menu!Next, Menu!Reject
<1>13. CASE FdtInstall
  BY <1>13 DEF FdtInstall, FreedOnceInstalled, Menu!Next,
     Menu!InstallDevicetree
<1>14. CASE InitrdPair
  BY <1>14 DEF InitrdPair, Alloc
<1>15. CASE InitrdSize
  BY <1>15 DEF InitrdSize, RejectInitrd, UnloadImage, Fail, Unload,
     Menu!Next, Menu!Reject
<1>16. CASE InitrdPages
  BY <1>16 DEF InitrdPages, RejectInitrd, UnloadImage, Fail, Unload, Alloc,
     Menu!Next, Menu!Reject
<1>17. CASE InitrdLoad
  BY <1>17 DEF InitrdLoad, RejectInitrd, UnloadImage, Fail, Unload,
     Menu!Next, Menu!Reject
<1>18. CASE InitrdSetup
  BY <1>18 DEF InitrdSetup, Alloc
<1>19. CASE InitrdFile2
  BY <1>19 DEF InitrdFile2, UninstallDevicePath
<1>20. CASE SetupAppend
  BY <1>20 DEF SetupAppend
<1>21. CASE StartImage
  BY <1>21 DEF StartImage, Goto, controlVars, firmwareVars, Menu!Next,
     Menu!Boot, Menu!Packages, IInv, Hanging, AfterImage
<1>22. CASE ImageReturns
  BY <1>22 DEF ImageReturns, Goto, controlVars, firmwareVars, Menu!Next,
     Menu!Halt
<1>23. CASE Panic
  BY <1>23 DEF Panic, Panics, Goto, controlVars, firmwareVars, Menu!Next,
     Menu!Halt
<1>24. CASE Spin
  BY <1>24 DEF Spin, vars
<1>25. CASE UNCHANGED vars
  BY <1>25 DEF vars
<1>26. QED
  BY <1>1, <1>2, <1>3, <1>4, <1>5, <1>6, <1>7, <1>8, <1>9, <1>10, <1>11,
     <1>12, <1>13, <1>14, <1>15, <1>16, <1>17, <1>18, <1>19, <1>20, <1>21,
     <1>22, <1>23, <1>24, <1>25 DEF Next, Program, Kernel, Devicetree,
     Initrd

\* The loader implements the boot menu: an entry is picked by the user or by an
\* uninterrupted countdown only, each pick ends in one rejection or one start,
\* and a kernel is handed nothing of another attempt but a devicetree.
THEOREM LoaderImplementsBootMenu == Spec => ImplementsBootMenu
BY MenuInit, MenuStep, Invariance, PTL DEF Spec, Menu!Spec, ImplementsBootMenu
=============================================================================
