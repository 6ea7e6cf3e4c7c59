------------------------------- MODULE Image -------------------------------
(***************************************************************************)
(* ensure_images of src/src/image.rs: the cached base image, the root disk *)
(* copied from it and the blank pool disk, over many starts that fail, are *)
(* interrupted and are repeated.  One call runs at a time.                 *)
(*                                                                         *)
(* Sizes count in GiB.  A disk is described by how it opens (`head`), how  *)
(* much of the image's content it holds (`data`) and its length (`len`).   *)
(***************************************************************************)
EXTENDS Integers

CONSTANTS
  ImageGib,  \* size of the base image
  Gib,       \* sizes the user may write in config.toml
  Wrap,      \* 2^34 in the code: the bytes of that many GiB do not fit a u64,
             \* and those of half as many do not fit a file offset
  Faults     \* "interrupt": a call may end early; "junk": the server may send
             \* a page that is no image; "edit": config.toml is edited later on

ASSUME ConstantsOK ==
  /\ ImageGib \in Nat \ {0} /\ Wrap \in Nat \ {0} /\ 2 * ImageGib < Wrap
  /\ Gib \subseteq Nat
  /\ Faults \subseteq {"interrupt", "junk", "edit"}

VARIABLES
  cfg,   \* root_disk_gib and pool_disk_gib of config.toml
  base,  \* images/debian-12-genericcloud-*.raw
  root,  \* root.raw
  pool,  \* pool.raw
  used,  \* the disks a guest has written to
  pc,    \* control state of the call
  disturbed  \* history: since the directory is there, a call was cut short or
             \* config.toml was edited

vars == <<cfg, base, root, pool, used, pc, disturbed>>

Absent == [head |-> "absent", data |-> 0, len |-> 0]
Junk(n) == [head |-> "junk", data |-> 0, len |-> n]
Blank(n) == [head |-> "blank", data |-> 0, len |-> n]
Copied(d) == [head |-> "table", data |-> d, len |-> d]

\* What a copy or a download leaves when it is cut short: nothing, less than a
\* header, or a file that opens like the image but misses the end of it.
Cut(d) == {Absent, Junk(0)} \cup {Copied(i) : i \in 1 .. d - 1}

Disk == [head : {"absent", "junk", "blank", "table"},
         data : 0 .. ImageGib, len : Nat]

Label == {"idle", "base", "fetch", "check_base", "root", "copy", "size_root",
          "check_root", "pool", "size_pool", "ok"}

TypeOK ==
  /\ cfg \in [root : Gib, pool : Gib]
  /\ base \in Disk /\ root \in Disk /\ pool \in Disk
  /\ used \subseteq {"root", "pool"}
  /\ pc \in Label
  /\ disturbed \in BOOLEAN

\* A fresh directory, or what was made of an HTTP error page before curl was
\* called with --fail: a cached page, and a root disk padded to its size.
Init ==
  /\ cfg \in [root : Gib, pool : Gib]
  /\ \/ base = Absent /\ root = Absent /\ pool = Absent
     \/ base = Junk(0) /\ root = Junk(cfg.root) /\ pool = Blank(cfg.pool)
  /\ used = {}
  /\ pc = "idle"
  /\ disturbed = FALSE

-----------------------------------------------------------------------------

Exists(d) == d.head # "absent"

\* Mutant: computed as i64.
Bytes_Signed(gib) ==
  IF 2 * (gib % Wrap) < Wrap THEN gib % Wrap ELSE (gib % Wrap) - Wrap

\* size_gib * 1024 * 1024 * 1024 in the u64 of a release build.
Bytes(gib) == gib % Wrap

\* set_len refuses a length of 2^63 bytes and more.
Accepted(n) == 2 * n < Wrap

\* It cuts the file or pads it with zeros.
Resized(d, n) ==
  [head |-> IF d.head = "table" /\ n = 0 THEN "junk" ELSE d.head,
   data |-> IF d.data < n THEN d.data ELSE n,
   len |-> n]

LooksLikeDiskImage(d) == d.head = "table"

\* Mutant: the rejected file stays.
Verified_KeepJunk(d) == d

\* verify_disk_image: a file without a partition table is removed.
Verified(d) == IF LooksLikeDiskImage(d) THEN d ELSE Absent

Goto(to) == pc' = to

\* load_config runs before ensure_images and rejects a size of zero.
Call ==
  /\ pc = "idle"
  /\ cfg.root # 0 /\ cfg.pool # 0
  /\ Goto("base")
  /\ UNCHANGED <<cfg, base, root, pool, used, disturbed>>

BaseCached ==
  /\ pc = "base"
  /\ Goto(IF Exists(base) THEN "check_base" ELSE "fetch")
  /\ UNCHANGED <<cfg, base, root, pool, used, disturbed>>

\* curl --fail exits with success: the image, or a page sent as a success.
Fetch ==
  /\ pc = "fetch"
  /\ base' = Copied(ImageGib)
  /\ Goto("check_base")
  /\ UNCHANGED <<cfg, root, pool, used, disturbed>>

FetchJunk ==
  /\ "junk" \in Faults
  /\ pc = "fetch"
  /\ base' \in {Absent, Junk(0)}
  /\ Goto("check_base")
  /\ UNCHANGED <<cfg, root, pool, used, disturbed>>

\* Mutant: what curl left stays.
FetchFails_KeepsFile ==
  /\ pc = "fetch"
  /\ base' \in Cut(ImageGib)
  /\ Goto("idle")
  /\ UNCHANGED <<cfg, root, pool, used, disturbed>>

\* curl fails, and what it left of the file is removed, or cannot be run.
FetchFails ==
  /\ pc = "fetch"
  /\ base' = Absent
  /\ Goto("idle")
  /\ UNCHANGED <<cfg, root, pool, used, disturbed>>

\* curl and malleus are killed.
FetchCut ==
  /\ "interrupt" \in Faults
  /\ pc = "fetch"
  /\ base' \in Cut(ImageGib)
  /\ Goto("idle")
  /\ disturbed' = TRUE
  /\ UNCHANGED <<cfg, root, pool, used>>

CheckBase ==
  /\ pc = "check_base"
  /\ base' = Verified(base)
  /\ Goto(IF LooksLikeDiskImage(base) THEN "root" ELSE "idle")
  /\ UNCHANGED <<cfg, root, pool, used, disturbed>>

\* Mutant: every start copies the base image.
RootCached_Never ==
  /\ pc = "root"
  /\ Goto("copy")
  /\ UNCHANGED <<cfg, base, root, pool, used, disturbed>>

\* Mutant: only a fresh copy is verified.
RootCached_Unverified ==
  /\ pc = "root"
  /\ Goto(IF Exists(root) THEN "pool" ELSE "copy")
  /\ UNCHANGED <<cfg, base, root, pool, used, disturbed>>

RootCached ==
  /\ pc = "root"
  /\ Goto(IF Exists(root) THEN "check_root" ELSE "copy")
  /\ UNCHANGED <<cfg, base, root, pool, used, disturbed>>

\* fs::copy of the base image to root.raw ...
Copy ==
  /\ pc = "copy"
  /\ root' = base
  /\ Goto("size_root")
  /\ UNCHANGED <<cfg, base, pool, used, disturbed>>

CopyCut ==
  /\ "interrupt" \in Faults
  /\ pc = "copy"
  /\ root' \in Cut(base.data)
  /\ Goto("idle")
  /\ disturbed' = TRUE
  /\ UNCHANGED <<cfg, base, pool, used>>

\* ... and set_len to the configured size; the copy stays when that is refused.
SizeRoot ==
  /\ pc = "size_root"
  /\ IF Accepted(Bytes(cfg.root))
     THEN root' = Resized(root, Bytes(cfg.root)) /\ Goto("check_root")
     ELSE UNCHANGED root /\ Goto("idle")
  /\ UNCHANGED <<cfg, base, pool, used, disturbed>>

CheckRoot ==
  /\ pc = "check_root"
  /\ root' = Verified(root)
  /\ Goto(IF LooksLikeDiskImage(root) THEN "pool" ELSE "idle")
  /\ UNCHANGED <<cfg, base, pool, used, disturbed>>

PoolCached ==
  /\ pc = "pool" /\ Exists(pool)
  /\ Goto("ok")
  /\ UNCHANGED <<cfg, base, root, pool, used, disturbed>>

\* File::create and set_len.
CreatePool ==
  /\ pc = "pool" /\ ~Exists(pool)
  /\ pool' = Blank(0)
  /\ Goto("size_pool")
  /\ UNCHANGED <<cfg, base, root, used, disturbed>>

SizePool ==
  /\ pc = "size_pool"
  /\ IF Accepted(Bytes(cfg.pool))
     THEN pool' = Resized(pool, Bytes(cfg.pool)) /\ Goto("ok")
     ELSE UNCHANGED pool /\ Goto("idle")
  /\ UNCHANGED <<cfg, base, root, used, disturbed>>

\* ensure_images has returned Ok: start boots a guest, or fails later on.
Boot ==
  /\ pc = "ok"
  /\ used' = {"root", "pool"}
  /\ Goto("idle")
  /\ UNCHANGED <<cfg, base, root, pool, disturbed>>

StartFails ==
  /\ pc = "ok"
  /\ Goto("idle")
  /\ UNCHANGED <<cfg, base, root, pool, used, disturbed>>

\* The call ends between two steps: it is killed, or a system call fails.
Interrupt ==
  /\ "interrupt" \in Faults
  /\ pc # "idle"
  /\ Goto("idle")
  /\ disturbed' = TRUE
  /\ UNCHANGED <<cfg, base, root, pool, used>>

\* `malleus delete`.
Delete ==
  /\ pc = "idle"
  /\ base' = Absent /\ root' = Absent /\ pool' = Absent
  /\ used' = {}
  /\ disturbed' = FALSE
  /\ UNCHANGED <<cfg, pc>>

Edit ==
  /\ "edit" \in Faults
  /\ pc = "idle"
  /\ cfg' \in [root : Gib, pool : Gib]
  /\ disturbed' = TRUE
  /\ UNCHANGED <<base, root, pool, used, pc>>

Step ==
  \/ Call \/ BaseCached \/ Fetch \/ FetchJunk \/ FetchFails \/ CheckBase
  \/ RootCached \/ Copy \/ SizeRoot \/ CheckRoot
  \/ PoolCached \/ CreatePool \/ SizePool \/ Boot \/ StartFails

Next == Step \/ FetchCut \/ CopyCut \/ Interrupt \/ Delete \/ Edit

Spec == Init /\ [][Next]_vars

\* The user keeps calling `start`, each call goes on, and a download that is
\* tried again and again succeeds some time.
FairSpec == Spec /\ WF_vars(Step) /\ SF_vars(Fetch)

-----------------------------------------------------------------------------
(* Properties.                                                             *)

\* A start that gets past the images boots a guest from a root disk that opens
\* like a disk, and keeps a base image that does, even after HTTP error pages,
\* interrupted downloads and copies, and sizes that wrap to zero.
OkOpens ==
  pc = "ok" => LooksLikeDiskImage(base) /\ LooksLikeDiskImage(root)

\* The disks of a guest are never copied over, resized or removed by a later
\* start, whatever happened to the cache or to config.toml in the meantime.
KeepsGuestDisks ==
  [][/\ "root" \in used /\ "root" \in used' => root' = root
     /\ "pool" \in used /\ "pool" \in used' => pool' = pool]_vars

\* Sizes that hold the image and that set_len accepts as they are.
SizesFit == ImageGib <= cfg.root /\ Accepted(cfg.root) /\ Accepted(cfg.pool)

\* As long as no start is cut short and config.toml stays as it is, a start that
\* gets past the images has the whole image on a root disk and a pool of the
\* configured sizes, although downloads fail and error pages are served.
OkComplete ==
  pc = "ok" /\ ~disturbed /\ SizesFit =>
    /\ base = Copied(ImageGib)
    /\ root.data = ImageGib /\ root.len = cfg.root
    /\ pool.len = cfg.pool

\* A size that load_config accepts and that does not wrap to zero.
SizesWork == cfg.root # 0 /\ cfg.pool # 0 /\ Bytes(cfg.root) # 0

\* A bad artifact is not reused by every later run: once calls are no longer
\* interrupted, a user who repeats `start` gets past the images again and again,
\* whatever earlier calls left behind.
Recovers == <>[][Step]_vars /\ <>[]SizesWork => []<>(pc = "ok")

\* The image is on the root disk in one piece.  Not every size that passes
\* validation does that, only one that holds the image and that set_len accepts:
\* see RootHoldsImageWhenSizesFit of Image_proof.
OkRootHoldsImage == pc = "ok" => root.data = ImageGib
=============================================================================
