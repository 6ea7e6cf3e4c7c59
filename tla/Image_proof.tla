---------------------------- MODULE Image_proof ----------------------------
(***************************************************************************)
(* Theorems about Image, for every image size, every set of configured     *)
(* sizes, every modulus and every fault: IInv says what the steps of one   *)
(* call know about the files, and what a guest's disks have in common.     *)
(***************************************************************************)
EXTENDS Image, TLAPS

(* The values that the actions give to disks are disks.                     *)
LEMMA Disks ==
  /\ Absent \in Disk
  /\ \A n \in Nat : Junk(n) \in Disk /\ Blank(n) \in Disk
  /\ \A d \in 1 .. ImageGib : Copied(d) \in Disk /\ Copied(d).data = d
  /\ \A d \in 0 .. ImageGib : Cut(d) \subseteq Disk
BY ConstantsOK DEF Disk, Absent, Junk, Blank, Copied, Cut

(* A size in GiB stays a natural number of GiB when its bytes wrap.         *)
LEMMA BytesNat == \A gib \in Nat : Bytes(gib) \in Nat
BY ConstantsOK DEF Bytes

(* Resizing and verifying a disk give a disk, and verification keeps one    *)
(* that opens like a disk.                                                  *)
LEMMA ResizedDisk ==
  ASSUME NEW d \in Disk, NEW n \in Nat
  PROVE  Resized(d, n) \in Disk
BY ConstantsOK DEF Resized, Disk

LEMMA VerifiedDisk ==
  ASSUME NEW d \in Disk
  PROVE  /\ Verified(d) \in Disk
         /\ LooksLikeDiskImage(d) => Verified(d) = d
BY Disks DEF Verified, LooksLikeDiskImage

-----------------------------------------------------------------------------

\* Past a check, the file that was checked opens like a disk.
Checked ==
  /\ pc \in {"root", "copy", "size_root", "check_root", "pool", "size_pool", "ok"}
       => LooksLikeDiskImage(base)
  /\ pc \in {"pool", "size_pool", "ok"} => LooksLikeDiskImage(root)

\* The disks of a guest are such that a start finds them there and takes them.
Kept ==
  /\ "root" \in used => LooksLikeDiskImage(root) /\ pc \notin {"copy", "size_root"}
  /\ "pool" \in used => Exists(pool) /\ pc # "size_pool"

PoolMade == pc \in {"size_pool", "ok"} => Exists(pool)

IInv == TypeOK /\ Checked /\ Kept /\ PoolMade

LEMMA IInvInit == Init => IInv
BY ConstantsOK, Disks
DEF Init, IInv, TypeOK, Checked, Kept, PoolMade, Label

LEMMA IInvNext == IInv /\ [Next]_vars => IInv'
<1> SUFFICES ASSUME IInv, [Next]_vars
             PROVE  IInv'
  OBVIOUS
<1> USE DEF IInv, TypeOK, Checked, Kept, PoolMade, Label, Goto
<1>1. CASE Call \/ BaseCached \/ StartFails \/ Interrupt \/ Edit
  BY <1>1 DEF Call, BaseCached, StartFails, Interrupt, Edit
<1>2. CASE Fetch
  BY <1>2, Disks, ConstantsOK DEF Fetch
<1>3. CASE FetchJunk \/ FetchFails
  BY <1>3, Disks DEF FetchJunk, FetchFails
<1>4. CASE FetchCut
  BY <1>4, Disks, ConstantsOK DEF FetchCut
<1>5. CASE CheckBase
  BY <1>5, VerifiedDisk DEF CheckBase
<1>6. CASE RootCached
  BY <1>6 DEF RootCached, LooksLikeDiskImage, Exists
<1>7. CASE Copy
  BY <1>7 DEF Copy
<1>8. CASE CopyCut
  <2>1. base.data \in 0 .. ImageGib
    BY DEF Disk
  <2> QED BY <1>8, <2>1, Disks DEF CopyCut
<1>9. CASE SizeRoot
  <2>1. Bytes(cfg.root) \in Nat
    BY BytesNat, ConstantsOK
  <2> QED BY <1>9, <2>1, ResizedDisk DEF SizeRoot
<1>10. CASE CheckRoot
  BY <1>10, VerifiedDisk DEF CheckRoot
<1>11. CASE PoolCached
  BY <1>11 DEF PoolCached
<1>12. CASE CreatePool
  BY <1>12, Disks DEF CreatePool, Blank, Exists
<1>13. CASE SizePool
  <2>1. Bytes(cfg.pool) \in Nat
    BY BytesNat, ConstantsOK
  <2>2. Exists(pool) => Exists(pool')
    BY <1>13 DEF SizePool, Resized, Exists
  <2> QED BY <1>13, <2>1, <2>2, ResizedDisk DEF SizePool
<1>14. CASE Boot
  BY <1>14 DEF Boot
<1>15. CASE Delete
  BY <1>15, Disks DEF Delete
<1>16. CASE UNCHANGED vars
  BY <1>16 DEF vars
<1> QED
  BY <1>1, <1>2, <1>3, <1>4, <1>5, <1>6, <1>7, <1>8, <1>9, <1>10, <1>11, <1>12,
     <1>13, <1>14, <1>15, <1>16
  DEF Next, Step

LEMMA Invariance == Spec => []IInv
BY IInvInit, IInvNext, PTL DEF Spec

-----------------------------------------------------------------------------

(* The state always has the types of TypeOK.                                *)
THEOREM TypeCorrect == Spec => []TypeOK
BY Invariance, PTL DEF IInv

(* Whatever the server sends, wherever calls are cut short and whatever     *)
(* sizes are configured: ensure_images returns Ok only with a base image    *)
(* and a root disk that open like disks.                                    *)
THEOREM OpensWhenOk == Spec => []OkOpens
<1>1. IInv => OkOpens
  BY DEF IInv, Checked, OkOpens
<1> QED BY <1>1, Invariance, PTL

(* A start never copies over, resizes or removes the disks of a guest.      *)
THEOREM GuestDisksKept == Spec => KeepsGuestDisks
<1> DEFINE Untouched ==
      /\ "root" \in used /\ "root" \in used' => root' = root
      /\ "pool" \in used /\ "pool" \in used' => pool' = pool
<1>1. IInv /\ [Next]_vars => [Untouched]_vars
  <2> SUFFICES ASSUME IInv, Next
               PROVE  Untouched
    BY DEF vars
  <2> USE DEF IInv, Kept
  <2>1. CASE SizeRoot \/ Copy \/ CopyCut
    BY <2>1 DEF SizeRoot, Copy, CopyCut
  <2>2. CASE CheckRoot
    BY <2>2, VerifiedDisk DEF CheckRoot, TypeOK
  <2>3. CASE CreatePool \/ SizePool
    BY <2>3 DEF CreatePool, SizePool
  <2>4. CASE Delete
    BY <2>4 DEF Delete
  <2>5. CASE UNCHANGED <<root, pool>>
    BY <2>5
  <2> QED
    BY <2>1, <2>2, <2>3, <2>4, <2>5
    DEF Next, Step, Call, BaseCached, Fetch, FetchJunk, FetchFails, FetchCut,
        CheckBase, RootCached, PoolCached, Boot, StartFails, Interrupt, Edit
<1> QED BY <1>1, Invariance, PTL DEF Spec, KeepsGuestDisks

-----------------------------------------------------------------------------
(* What the files hold as long as no call is cut short.                     *)

Undisturbed ==
  ~disturbed /\ SizesFit =>
    /\ LooksLikeDiskImage(base) => base = Copied(ImageGib)
    /\ pc = "size_root" => root = Copied(ImageGib)
    /\ pc # "size_root" /\ LooksLikeDiskImage(root)
         => root.data = ImageGib /\ root.len = cfg.root
    /\ pc # "size_pool" /\ Exists(pool) => pool.len = cfg.pool

(* Sizes that fit keep their bytes and are accepted, and the image survives *)
(* the resize.                                                              *)
LEMMA Fitting ==
  ASSUME TypeOK, SizesFit
  PROVE  /\ Bytes(cfg.root) = cfg.root /\ Bytes(cfg.pool) = cfg.pool
         /\ Accepted(cfg.root) /\ Accepted(cfg.pool)
         /\ Resized(Copied(ImageGib), cfg.root).data = ImageGib
<1>1. \A w \in Nat : \A n \in Nat : n < w => n % w = n
  OBVIOUS
<1>2. /\ cfg.root \in Nat /\ cfg.pool \in Nat
      /\ ImageGib \in Nat /\ Wrap \in Nat
  <2>1. cfg.root \in Gib /\ cfg.pool \in Gib
    BY DEF TypeOK
  <2> QED BY <2>1, ConstantsOK
<1>3. cfg.root >= ImageGib /\ cfg.root < Wrap /\ cfg.pool < Wrap
  BY <1>2 DEF SizesFit, Accepted
<1>4. Bytes(cfg.root) = cfg.root /\ Bytes(cfg.pool) = cfg.pool
  BY <1>1, <1>2, <1>3 DEF Bytes
<1>5. Resized(Copied(ImageGib), cfg.root).data = ImageGib
  BY <1>2, <1>3 DEF Resized, Copied
<1> QED BY <1>4, <1>5 DEF SizesFit

LEMMA UndisturbedInit == Init => Undisturbed
BY DEF Init, Undisturbed, LooksLikeDiskImage, Exists, Absent, Junk, Blank

LEMMA UndisturbedNext == IInv /\ Undisturbed /\ [Next]_vars => Undisturbed'
<1> SUFFICES ASSUME IInv, Undisturbed, [Next]_vars, ~disturbed', SizesFit'
             PROVE  /\ LooksLikeDiskImage(base)' => base' = Copied(ImageGib)
                    /\ pc' = "size_root" => root' = Copied(ImageGib)
                    /\ pc' # "size_root" /\ LooksLikeDiskImage(root)'
                         => root'.data = ImageGib /\ root'.len = cfg'.root
                    /\ pc' # "size_pool" /\ Exists(pool)' => pool'.len = cfg'.pool
  BY DEF Undisturbed
<1>1. CASE Delete
  BY <1>1 DEF Delete, LooksLikeDiskImage, Exists, Absent
<1>2. ASSUME UNCHANGED <<cfg, disturbed>>
      PROVE  ~disturbed /\ SizesFit
  BY <1>2 DEF SizesFit
<1> USE DEF Undisturbed, Goto, LooksLikeDiskImage, Exists
<1>3. CASE Call \/ BaseCached \/ RootCached \/ PoolCached \/ Boot \/ StartFails
  BY <1>2, <1>3 DEF Call, BaseCached, RootCached, PoolCached, Boot, StartFails
<1>4. CASE Fetch \/ FetchJunk \/ FetchFails
  BY <1>2, <1>4 DEF Fetch, FetchJunk, FetchFails, Absent, Junk
<1>5. CASE CheckBase \/ CheckRoot
  BY <1>2, <1>5 DEF CheckBase, CheckRoot, Verified, Absent
<1>6. CASE Copy
  BY <1>2, <1>6 DEF Copy, IInv, Checked
<1>7. CASE SizeRoot
  <2>1. root' = Resized(Copied(ImageGib), cfg.root)
    BY <1>2, <1>7, Fitting DEF SizeRoot, IInv
  <2>2. root'.data = ImageGib /\ root'.len = cfg.root
    BY <1>2, <1>7, <2>1, Fitting DEF SizeRoot, IInv, Resized
  <2> QED BY <1>2, <1>7, <2>2 DEF SizeRoot
<1>8. CASE CreatePool
  BY <1>2, <1>8 DEF CreatePool
<1>9. CASE SizePool
  <2>1. pool'.len = cfg.pool
    BY <1>2, <1>9, Fitting DEF SizePool, IInv, Resized
  <2> QED BY <1>2, <1>9, <2>1 DEF SizePool
<1>10. CASE FetchCut \/ CopyCut \/ Interrupt \/ Edit
  BY <1>10 DEF FetchCut, CopyCut, Interrupt, Edit
<1>11. CASE UNCHANGED vars
  BY <1>2, <1>11 DEF vars
<1> QED
  BY <1>1, <1>3, <1>4, <1>5, <1>6, <1>7, <1>8, <1>9, <1>10, <1>11 DEF Next, Step

(* With calls that run to their end and sizes that fit, ensure_images returns *)
(* Ok only with the whole image on a root disk, and a pool, of the configured *)
(* sizes: failed downloads, error pages and poisoned caches never show.       *)
THEOREM CompleteWhenUndisturbed == Spec => []OkComplete
<1>1. IInv /\ Undisturbed => OkComplete
  BY DEF IInv, Checked, PoolMade, Undisturbed, OkComplete
<1> QED
  BY <1>1, Invariance, UndisturbedInit, UndisturbedNext, PTL DEF Spec

(* Where every size that load_config lets pass holds the image and is one   *)
(* that set_len accepts, no call is cut short and config.toml is not        *)
(* edited, a start that gets past the images has the image on its root disk *)
(* in one piece.  Init includes the cached error pages of older versions.   *)
THEOREM RootHoldsImageWhenSizesFit ==
  /\ \A gib \in Gib : ImageGib <= gib /\ Accepted(gib)
  /\ Faults \cap {"interrupt", "edit"} = {}
  => (Spec => []OkRootHoldsImage)
<1> SUFFICES ASSUME \A gib \in Gib : ImageGib <= gib /\ Accepted(gib),
                    Faults \cap {"interrupt", "edit"} = {}
             PROVE  Spec => []OkRootHoldsImage
  OBVIOUS
<1>1. Init => ~disturbed
  BY DEF Init
<1>2. ~disturbed /\ [Next]_vars => ~disturbed'
  BY DEF Next, Step, vars, Call, BaseCached, Fetch, FetchJunk, FetchFails, FetchCut,
         CheckBase, RootCached, Copy, CopyCut, SizeRoot, CheckRoot, PoolCached,
         CreatePool, SizePool, Boot, StartFails, Interrupt, Delete, Edit
<1>3. TypeOK => SizesFit
  BY DEF TypeOK, SizesFit
<1>4. TypeOK /\ ~disturbed /\ OkComplete => OkRootHoldsImage
  BY <1>3 DEF OkComplete, OkRootHoldsImage
<1> QED BY <1>1, <1>2, <1>4, TypeCorrect, CompleteWhenUndisturbed, PTL DEF Spec
=============================================================================
