------------------------------ MODULE BootRom ------------------------------
(***************************************************************************)
(* The boot ROM: main() of bootrom.c, the boot source chain of             *)
(* bootsource.c, rumboot_bootimage_execute() of bootimage.c and the host   *)
(* mode loop, with what runs beside them: the code of the loaded images,   *)
(* the secondary CPU clusters, and a host that writes images into the SPL  *)
(* area through JTAG, EDCL or RMAP.                                        *)
(*                                                                         *)
(* The ROM is one thread of control; `pc' says where it is.                *)
(*                                                                         *)
(*   boot -> chain <-> enable -> init -> header -> payload -> crc -> quiesce*)
(*             |                                                |     |    *)
(*             v       execute -> place -> start -> running   failed <-+   *)
(*           host <------- back <--------------------+------- poll         *)
(*                                                                         *)
(* `caller' says to whom try_source_once() or execute() returns: to the    *)
(* chain, to bootsource_try_by_id() called from host mode, or to the host  *)
(* mode loop itself.                                                       *)
(***************************************************************************)
EXTENDS BootImage

CONSTANTS
    NumSources,     \* entries before the sentinel in the boot source table
    Align,          \* source -> plugin->align
    Offset0,        \* source -> offset of its first image
    Media,          \* source -> (offset -> image found there)
    MaxSize,        \* size of the SPL area
    Residue,        \* images a previous run may have left in the SPL area
    Upload,         \* images the host may upload
    KillHook,       \* clusters with a kill() hook
    PollHook,       \* clusters with a poll() hook
    PollMask        \* poll() hooks return an exit code modulo this

Source == 1 .. NumSources
NULL   == 0                       \* a NULL boot source, and that of host mode
Idle   == "none"                  \* no memory: nothing runs on a cluster

\* The SPL area of every board's linker script is a whole number of blocks.
SplAligned == \A s \in Source : Align[s] # 0 => MaxSize % Align[s] = 0

ASSUME RomAssumption ==
    /\ NumSources \in Nat \ {0}
    /\ Align \in [Source -> Nat]
    /\ Offset0 \in [Source -> Nat]
    /\ \A s \in Source : \A o \in DOMAIN Media[s] : Media[s][o] \in Name
    /\ MaxSize \in Nat /\ MaxSize >= HdrSize
    /\ SplAligned
    /\ Residue \subseteq Name /\ Residue # {}
    /\ Upload \subseteq Name
    /\ KillHook \subseteq Cluster
    /\ PollHook \subseteq Cluster \ {0}
    /\ PollMask \in Nat \ {0}
    /\ Idle \notin Region

VARIABLES
    pc,         \* control point of the ROM
    caller,     \* who gets the result: "chain", "byid" or "host"
    src,        \* current boot source, NULL in host mode
    off,        \* offset of the next read from it
    dev,        \* source -> which of its hooks are in force
    spl,        \* what the SPL area holds
    ret,        \* the value being returned
    cur,        \* the image execute() works on
    core,       \* secondary cluster -> memory its program runs from
    top,        \* end of the highest write a load made to the SPL area
    clobbered,  \* clusters whose running program was overwritten
    up          \* progress of a host upload: "idle" or "body"

vars == <<pc, caller, src, off, dev, spl, ret, cur, core, top, clobbered, up>>

\* Negated results of xmodem_get(): cancelled, out of sync, retries exceeded.
XmodemError == 1 .. 3

Secondary == Cluster \ {0}
LoadPc    == {"init", "header", "payload", "crc", "quiesce"}
ExecPc    == {"execute", "place", "start", "running", "poll"}
HostPc    == {"host", "hosthdr", "hostdata", "hostreject"}
Pc        == {"boot", "chain", "enable", "failed", "back"}
                 \cup LoadPc \cup ExecPc \cup HostPc

\* The `device' field, a legacy copy of the boot source for the image to read, is
\* left out: the ROM only writes it.
SplArea == [ img : Name, magic : Int, intact : BOOLEAN, fresh : BOOLEAN ]

TypeOK ==
    /\ pc \in Pc
    /\ caller \in {"chain", "byid", "host"}
    /\ src \in 0 .. NumSources + 1
    /\ off \in Nat
    /\ dev \in [Source -> SUBSET {"enabled", "initialised"}]
    /\ spl \in SplArea
    /\ ret \in Int
    /\ cur \in Name
    /\ core \in [Secondary -> Memory \cup {Idle}]
    /\ top \in Nat
    /\ clobbered \subseteq Secondary
    /\ up \in {"idle", "body"}

-----------------------------------------------------------------------------
(* Helpers.                                                                *)

Holds(i) == [ img |-> i, magic |-> Img[i].magic, intact |-> Img[i].datacrc,
              fresh |-> TRUE ]

\* Mutant: ids counted from one.
find_source_from_one(id) == IF id \in Source THEN id ELSE NULL

\* The table ends with a sentinel; ids past it find nothing.
find_source_by_id(id) == IF id + 1 \in Source THEN id + 1 ELSE NULL

\* Mutant: the plugin is shut down, the device stays enabled.
deinit_plugin_only(hooks) == hooks \ {"initialised"}

bootsource_deinit(hooks) == hooks \ {"initialised", "enabled"}

\* Mutants: the offset of the caller is never updated; it goes back.
offset_by_value(o, count) == o
offset_back(o, count) == o - count

\* `*offset += count'.
Advance(o, count) == o + count

\* Mutant: the magic survives.
keep_magic(a) == [a EXCEPT !.fresh = FALSE]

\* An SPL area whose image execute() has taken over.
Used(a) ==
    [ img |-> a.img, magic |-> 0, intact |-> a.intact, fresh |-> FALSE ]

\* Mutant: the status word is not written.
no_status(a, code) == a

\* `magic = -ret': the status word that replaces the magic.
Status(a, code) == [a EXCEPT !.magic = -code]

\* Memory m is written: programs that run from it are lost.
Overwrites(m) ==
    clobbered' = clobbered \cup { c \in Secondary : core[c] = m }

HeaderAt(s, o) == IF o \in DOMAIN Media[s] THEN Media[s][o] ELSE Blank

Goto(p) == pc' = p

Return(p, code) == Goto(p) /\ ret' = code

-----------------------------------------------------------------------------
Init ==
    /\ pc = "boot"
    /\ caller = "chain"
    /\ src = NULL
    /\ off = 0
    /\ dev = [s \in Source |-> {}]
    /\ spl \in { Holds(i) : i \in Residue }
    /\ ret = 0
    /\ cur = Blank
    /\ core = [c \in Secondary |-> Idle]
    /\ top = 0
    /\ clobbered = {}
    /\ up = "idle"

(***************************************************************************)
(* main(): the configuration pins decide between host mode and the chain.  *)
(***************************************************************************)
Boot ==
    /\ pc = "boot"
    /\ \/ Goto("host") /\ caller' = "host" /\ UNCHANGED src
       \/ Goto("chain") /\ src' = 1 /\ UNCHANGED caller
    /\ UNCHANGED <<off, dev, spl, ret, cur, core, top, clobbered, up>>

-----------------------------------------------------------------------------
(* bootsource_try_chain(): the while test.                                 *)

ChainNext ==
    /\ pc = "chain"
    /\ src \in Source
    /\ off' = Offset0[src]
    /\ Goto("enable")
    /\ UNCHANGED <<caller, src, dev, spl, ret, cur, core, top, clobbered, up>>

ChainEnds ==
    /\ pc = "chain"
    /\ src \notin Source
    /\ Goto("host")
    /\ caller' = "host"
    /\ src' = NULL
    /\ UNCHANGED <<off, dev, spl, ret, cur, core, top, clobbered, up>>

-----------------------------------------------------------------------------
(* bootsource_init(): enable, then the plugin's init; each may fail.       *)

Enable ==
    /\ pc = "enable"
    /\ dev' = [dev EXCEPT ![src] = @ \cup {"enabled"}]
    /\ Goto("init")
    /\ UNCHANGED <<caller, src, off, spl, ret, cur, core, top, clobbered, up>>

EnableFails ==
    /\ pc = "enable"
    /\ dev' = [dev EXCEPT ![src] = @ \ {"enabled"}]
    /\ Return("failed", -EBADSOURCE)
    /\ UNCHANGED <<caller, src, off, spl, cur, core, top, clobbered, up>>

InitPlugin ==
    /\ pc = "init"
    /\ dev' = [dev EXCEPT ![src] = @ \cup {"initialised"}]
    /\ off' = round_up_to_align(off, Align[src])
    /\ Goto("header")
    /\ UNCHANGED <<caller, src, spl, ret, cur, core, top, clobbered, up>>

InitPluginFails ==
    /\ pc = "init"
    /\ dev' = [dev EXCEPT ![src] = bootsource_deinit(@)]
    /\ Return("failed", -EBADSOURCE)
    /\ UNCHANGED <<caller, src, off, spl, cur, core, top, clobbered, up>>

-----------------------------------------------------------------------------
(* bootsource_load_img().                                                  *)

\* The header is read whole ...
ReadHeader ==
    /\ pc = "header"
    /\ LET count == HeaderRead(Align[src]) IN
         /\ spl' = [Holds(HeaderAt(src, off)) EXCEPT !.intact = FALSE]
         /\ off' = Advance(off, count)
         /\ top' = IF count > top THEN count ELSE top
    /\ Overwrites(SPL)
    /\ Goto("payload")
    /\ UNCHANGED <<caller, src, dev, ret, cur, core, up>>

\* ... or the read comes back short, with part of the header in memory.
ReadHeaderShort ==
    /\ pc = "header"
    /\ spl' = [spl EXCEPT !.intact = FALSE]
    /\ Overwrites(SPL)
    /\ Return("quiesce", -EIO)
    /\ UNCHANGED <<caller, src, off, dev, cur, core, top, up>>

\* The verdict on the header, and its length rounded up to whole blocks.
Verdict    == check_header(spl.img, spl.magic)
PaddedData == round_up_to_align(Verdict, Align[src])

\* Mutant: the size is checked before it is rounded up.
FitsUnpadded == Verdict + HdrSize <= MaxSize

Fits == PaddedData + HdrSize <= MaxSize

RejectHeader ==
    /\ pc = "payload"
    /\ \/ Verdict < 0 /\ Return("quiesce", Verdict)
       \/ /\ Verdict >= 0
          /\ ~Fits
          /\ Return("quiesce", -ETOOBIG)
    /\ UNCHANGED <<caller, src, off, dev, spl, cur, core, top, clobbered, up>>

\* A short or failing read goes unnoticed here: the CRC "will sort it out".
ReadData ==
    /\ pc = "payload"
    /\ Verdict >= 0
    /\ Fits
    /\ \E ok \in BOOLEAN :
         spl' = [spl EXCEPT !.intact = ok /\ Img[spl.img].datacrc]
    /\ off' = Advance(off, PaddedData)
    /\ LET end == HeaderRead(Align[src]) + PaddedData IN
         top' = IF end > top THEN end ELSE top
    /\ Overwrites(SPL)
    /\ Goto("crc")
    /\ UNCHANGED <<caller, src, dev, ret, cur, core, up>>

CheckData ==
    /\ pc = "crc"
    /\ Return("quiesce", check_data(spl.img, spl.intact))
    /\ UNCHANGED <<caller, src, off, dev, spl, cur, core, top, clobbered, up>>

-----------------------------------------------------------------------------
(* bootsource_try_source_once(), from the return of load_img() on: the     *)
(* device is shut down before anything else happens.                       *)

Quiesce ==
    /\ pc = "quiesce"
    /\ dev' = [dev EXCEPT ![src] = bootsource_deinit(@)]
    /\ IF ret # 0
         THEN /\ spl' = Status(spl, ret)
              /\ Goto("failed")
         ELSE /\ Goto("execute")
              /\ UNCHANGED spl
    /\ UNCHANGED <<caller, src, off, ret, cur, core, top, clobbered, up>>

-----------------------------------------------------------------------------
(* rumboot_bootimage_execute().                                            *)

\* Mutant: KILL is ignored.
KillsNone(i) == {}

\* The cluster that image i has killed before it is put in place.
Kills(i) ==
    { c \in KillHook : "KILL" \in Img[i].flags /\ c = TargetCluster(i) }

\* The magic is wiped before anything else.
Execute ==
    /\ pc = "execute"
    /\ cur' = spl.img
    /\ spl' = Used(spl)
    /\ IF TargetCluster(spl.img) \in Cluster
         THEN Goto("place") /\ UNCHANGED ret
         ELSE Return("back", -EBADCLUSTERID)
    /\ core' = [c \in Secondary |-> IF c \in Kills(spl.img) THEN Idle ELSE core[c]]
    /\ UNCHANGED <<caller, src, off, dev, top, clobbered, up>>

\* A signed image is decrypted in place, then its signature is verified.
Refuse ==
    /\ pc = "place"
    /\ Img[cur].secured /\ Img[cur].signature # 0
    /\ spl' = [spl EXCEPT !.intact = FALSE]
    /\ Return("back", Img[cur].signature)
    /\ Overwrites(SPL)
    /\ UNCHANGED <<caller, src, off, dev, cur, core, top, up>>

\* Relocation, decapsulation, decompression.
Moves(i) == Img[i].flags \cap {"RELOCATE", "DECAPS", "COMPRESS"} # {}

Place ==
    /\ pc = "place"
    /\ Img[cur].secured => Img[cur].signature = 0
    /\ LET lost   == "COMPRESS" \in Img[cur].flags /\ ~Img[cur].unpacks
           writes == { m \in Memory : \/ Moves(cur) /\ m = Destination(cur)
                                      \/ Img[cur].secured /\ m = SPL }
           used   == IF SPL \in writes THEN [spl EXCEPT !.intact = FALSE] ELSE spl
           bared  == [Holds(Img[cur].inner) EXCEPT !.intact = @ /\ ~lost]
       IN
         /\ clobbered' = clobbered \cup { c \in Secondary : core[c] \in writes }
         /\ spl' \in { a \in {used, bared} :
                       /\ a = bared => DecapsInPlace(cur)
                       /\ a = used  => ~DecapsInPlace(cur) \/ lost }
         /\ IF lost THEN Return("back", -EBADDATACRC)
            ELSE IF "DATA" \in Img[cur].flags THEN Return("back", 0)
            ELSE Goto("start") /\ UNCHANGED ret
    /\ UNCHANGED <<caller, src, off, dev, cur, core, top, up>>

\* cpu->start() of the boot CPU is a call of the image's entry point.
StartOwn ==
    /\ pc = "start"
    /\ TargetCluster(cur) = 0
    /\ Goto("running")
    /\ UNCHANGED <<caller, src, off, dev, spl, ret, cur, core, top, clobbered, up>>

\* An image that runs in the SPL area may have changed its own data.
ImageReturns ==
    /\ pc = "running"
    /\ \E code \in Img[cur].exit : Return("back", code)
    /\ spl' \in {spl, [spl EXCEPT !.intact = FALSE]}
    /\ UNCHANGED <<caller, src, off, dev, cur, core, top, clobbered, up>>

\* On a secondary cluster the program runs beside the ROM from here on.
StartSecondary ==
    /\ pc = "start"
    /\ TargetCluster(cur) # 0
    /\ LET c == TargetCluster(cur) IN
         IF Img[cur].starts # 0
           THEN Return("back", Img[cur].starts) /\ UNCHANGED core
           ELSE /\ core' = [core EXCEPT ![c] = Destination(cur)]
                /\ IF "SYNC" \in Img[cur].flags /\ c \in PollHook
                     THEN Goto("poll") /\ UNCHANGED ret
                     ELSE Return("back", 0)
    /\ UNCHANGED <<caller, src, off, dev, spl, cur, top, clobbered, up>>

\* poll() forwards the console until the program's exit code arrives.
PollReturns ==
    /\ pc = "poll"
    /\ core' = [core EXCEPT ![TargetCluster(cur)] = Idle]
    /\ \E code \in Img[cur].exit : Return("back", code % PollMask)
    /\ UNCHANGED <<caller, src, off, dev, spl, cur, top, clobbered, up>>

-----------------------------------------------------------------------------
(* Back in the caller: "failed" when the load failed, "back" when          *)
(* execute() returned.                                                     *)

\* bootsource_try_single() and the body of bootsource_try_chain().
ResumeChain ==
    /\ pc \in {"failed", "back"}
    /\ caller = "chain"
    /\ \/ /\ ret = 0
          /\ Goto("enable")
          /\ UNCHANGED <<src, caller>>
       \/ /\ ret > 0
          /\ src' = find_source_by_id(ret - 1)
          /\ Goto("chain")
          /\ UNCHANGED caller
       \/ /\ ret = -ETOHOST
          /\ src' = NULL
          /\ caller' = "host"
          /\ Goto("host")
       \/ /\ ret < 0 /\ ret # -ETOHOST
          /\ src' = src + 1
          /\ Goto("chain")
          /\ UNCHANGED caller
    /\ UNCHANGED <<off, dev, spl, ret, cur, core, top, clobbered, up>>

\* bootsource_try_by_id() makes one attempt; host mode ignores its result.
ResumeById ==
    /\ pc \in {"failed", "back"}
    /\ caller = "byid"
    /\ Goto("host")
    /\ caller' = "host"
    /\ src' = NULL
    /\ UNCHANGED <<off, dev, spl, ret, cur, core, top, clobbered, up>>

ResumeHost ==
    /\ pc = "back"
    /\ caller = "host"
    /\ LET s == find_source_by_id(ret - 1) IN
         IF ret > 0 /\ s # NULL
           THEN /\ src' = s
                /\ off' = Offset0[s]
                /\ caller' = "byid"
                /\ Goto("enable")
           ELSE /\ Goto("host")
                /\ UNCHANGED <<src, off, caller>>
    /\ UNCHANGED <<dev, spl, ret, cur, core, top, clobbered, up>>

-----------------------------------------------------------------------------
(* hostmode_loop().                                                        *)

\* No 'X' on the console.
NoKey ==
    /\ pc = "host"
    /\ Goto("hosthdr")
    /\ UNCHANGED <<caller, src, off, dev, spl, ret, cur, core, top, clobbered, up>>

\* 'X': a complete XMODEM transfer, or one that failed half way.
XmodemUpload ==
    /\ pc = "host"
    /\ up = "idle"
    /\ \E i \in Upload :
         \/ spl' = Holds(i)
         \/ \E e \in XmodemError :
              spl' = [Holds(i) EXCEPT !.intact = FALSE, !.magic = e]
    /\ Overwrites(SPL)
    /\ Goto("hosthdr")
    /\ UNCHANGED <<caller, src, off, dev, ret, cur, core, top, up>>

HostCheckHeader ==
    /\ pc = "hosthdr"
    /\ \/ Verdict = -EBADMAGIC /\ Goto("host") /\ UNCHANGED ret
       \/ Verdict < 0 /\ Verdict # -EBADMAGIC /\ Return("hostreject", Verdict)
       \/ Verdict >= 0 /\ Goto("hostdata") /\ UNCHANGED ret
    /\ UNCHANGED <<caller, src, off, dev, spl, cur, core, top, clobbered, up>>

HostCheckData ==
    /\ pc = "hostdata"
    /\ IF check_data(spl.img, spl.intact) = 0
         THEN Goto("execute") /\ UNCHANGED ret
         ELSE Return("hostreject", -EBADDATACRC)
    /\ UNCHANGED <<caller, src, off, dev, spl, cur, core, top, clobbered, up>>

\* The status word that the host reads.
HostReject ==
    /\ pc = "hostreject"
    /\ spl' = Status(spl, ret)
    /\ Goto("host")
    /\ UNCHANGED <<caller, src, off, dev, ret, cur, core, top, clobbered, up>>

-----------------------------------------------------------------------------
(* The environment.                                                        *)

(***************************************************************************)
(* A host that uploads through JTAG, EDCL or RMAP as LOADER.md recommends: *)
(* everything but the first word, then the first word.  It starts only     *)
(* when the ROM polls the SPL area and has consumed what was there.        *)
(***************************************************************************)
HostWritesBody ==
    /\ pc \in HostPc
    /\ up = "idle"
    /\ ~IsMagic(spl.magic)
    /\ \E i \in Upload :
         spl' = [Holds(i) EXCEPT !.magic = spl.magic, !.fresh = spl.fresh]
    /\ up' = "body"
    /\ Overwrites(SPL)
    /\ UNCHANGED <<pc, caller, src, off, dev, ret, cur, core, top>>

HostWritesMagic ==
    /\ up = "body"
    /\ spl' = [spl EXCEPT !.magic = Img[spl.img].magic, !.fresh = TRUE]
    /\ up' = "idle"
    /\ UNCHANGED <<pc, caller, src, off, dev, ret, cur, core, top, clobbered>>

\* A program on a secondary cluster ends while nobody polls it.
CoreFinishes(c) ==
    /\ core[c] # Idle
    /\ ~(pc = "poll" /\ c = TargetCluster(cur))
    /\ core' = [core EXCEPT ![c] = Idle]
    /\ UNCHANGED <<pc, caller, src, off, dev, spl, ret, cur, top, clobbered, up>>

-----------------------------------------------------------------------------
(* The specification.                                                      *)

LoadStep ==
    \/ ChainNext \/ ChainEnds
    \/ Enable \/ EnableFails \/ InitPlugin \/ InitPluginFails
    \/ ReadHeader \/ ReadHeaderShort \/ RejectHeader \/ ReadData \/ CheckData
    \/ Quiesce

ExecStep ==
    \/ Execute \/ Refuse \/ Place \/ StartOwn \/ StartSecondary
    \/ ResumeChain \/ ResumeById \/ ResumeHost

HostStep ==
    \/ NoKey \/ XmodemUpload \/ HostCheckHeader \/ HostCheckData \/ HostReject

Rom == Boot \/ LoadStep \/ ExecStep \/ HostStep

Environment ==
    \/ ImageReturns \/ PollReturns
    \/ HostWritesBody \/ HostWritesMagic
    \/ \E c \in Secondary : CoreFinishes(c)

Next == Rom \/ Environment

Spec == Init /\ [][Next]_vars

\* The ROM never stops; FairSpec adds images that return to it.
RomSpec  == Spec /\ WF_vars(Rom)
FairSpec == RomSpec /\ WF_vars(ImageReturns \/ PollReturns)

-----------------------------------------------------------------------------
(* The order the ROM tries things in, as BootPolicy states it.             *)

\* The codes execute() can return.
ReturnCode ==
    {0, -EBADCLUSTERID, -EBADDATACRC}
      \cup UNION { {Img[i].signature, Img[i].starts} \cup Img[i].exit
                     \cup { c % PollMask : c \in Img[i].exit } : i \in Name }

\* The codes a load can fail with.  A length that reads as a negative number
\* is one of them, whatever that number means elsewhere.
FailureCode ==
    { -e : e \in {EBADMAGIC, EBADVERSION, EBADHDRCRC, EBADCHIPID, EBADENTRY,
                  EBADHEADER, EBADDATACRC, ETOOBIG, EBADSOURCE, EIO,
                  EBADCLUSTERID} }
      \cup { n \in { AsSigned(Img[i].datalen) : i \in Name } : n < 0 }

\* The refinement mapping.
PolicyHome ==
    IF pc = "boot" THEN "reset"
    ELSE IF caller = "chain" /\ src \in Source THEN "chain"
    ELSE "host"

PolicyWhere == IF src \in Source THEN src ELSE NULL

Over == pc \in {"failed", "back"}

PolicyJob ==
    CASE Over             -> "done"
      [] pc \in ExecPc  -> "run"
      [] OTHER           -> "seek"

PolicyResult == IF Over THEN ret ELSE 0

Policy ==
    INSTANCE BootPolicy WITH
        Code    <- ReturnCode,
        Failure <- FailureCode,
        ToHost  <- -ETOHOST,
        home    <- PolicyHome,
        where   <- PolicyWhere,
        job     <- PolicyJob,
        result  <- PolicyResult

-----------------------------------------------------------------------------
(* Properties.                                                             *)

(***************************************************************************)
(* Through every failure, redirection and return to host mode the ROM      *)
(* tries devices and images in the order of BootPolicy: in the chain 0     *)
(* stays with the device, N > 0 goes to the N-th, -ETOHOST to host mode    *)
(* and any other code on, -1 included; from host mode N > 0 makes one      *)
(* attempt at the N-th device.                                             *)
(***************************************************************************)
FollowsPolicy == Policy!Spec

(***************************************************************************)
(* bootsource.c, try_source_once(): "Deinit here before error checking,    *)
(* since we may execute the image next".  Whenever a device's hooks are in *)
(* force the ROM is loading from that very device: no image, no host mode  *)
(* and no other device ever meets one that was left enabled, on any path   *)
(* through the failures of bootsource_init() and bootsource_load_img().    *)
(***************************************************************************)
Quiesced == \A s \in Source : dev[s] # {} => s = src /\ pc \in LoadPc

(***************************************************************************)
(* Whatever reaches execute(), from a device, from XMODEM or from a host   *)
(* writing memory while the ROM polls it, has a header that passes every   *)
(* check and data whose CRC was good when they were last written; nothing  *)
(* is started whose signature did not verify.                              *)
(***************************************************************************)
RunsVerifiedCode ==
    /\ pc = "execute" => /\ check_header(spl.img, spl.magic) > 0
                         /\ spl.intact
    /\ pc \in {"start", "running", "poll"} =>
           (Img[cur].secured => Img[cur].signature = 0)

(***************************************************************************)
(* execute() wipes the magic: what was executed once is executed again     *)
(* only if it was loaded or uploaded again, also when the ROM falls back   *)
(* to polling the same memory in host mode.                                *)
(***************************************************************************)
RunsOnce == pc = "execute" => spl.fresh

(***************************************************************************)
(* boot.h on try_source_once(): maxsize is the "Maximum size of image and  *)
(* header".  load_img() compares it with the header and the padded data,   *)
(* but what it writes starts with whole blocks for the header: a load      *)
(* stays inside the SPL area only because its size is a multiple of the    *)
(* block size too.                                                         *)
(***************************************************************************)
WritesWithinSpl == top <= MaxSize

(***************************************************************************)
(* KILL takes effect before the ROM writes the memory the old program runs *)
(* from: an asynchronous program on a secondary cluster is never           *)
(* overwritten while it runs by the images that follow it.                 *)
(***************************************************************************)
AsyncCodeIntact == clobbered = {}

(***************************************************************************)
(* The images of one device are tried once each: until the chain leaves    *)
(* the device the read offset never moves back, every attempt moves it on, *)
(* and after an image was read whole the next attempt starts behind it.    *)
(***************************************************************************)
OffsetAdvances ==
    [][ (src' = src /\ src # NULL /\ pc # "chain")
          => /\ off' >= off
             /\ pc = "header" /\ pc' = "payload" => off' > off
             /\ pc = "payload" /\ pc' = "crc"
                  => off' >= off - HeaderRead(Align[src]) + HdrSize
                                 + Img[spl.img].datalen ]_vars

(***************************************************************************)
(* The chain terminates: on and on through devices and images, the ROM     *)
(* gets to host mode, unless the images themselves keep redirecting it.    *)
(***************************************************************************)
ChainEndsInHost == []<>(pc = "back" /\ ret > 0) \/ <>(pc \in HostPc)

(***************************************************************************)
(* doc/bootrom.asciidoc, on the code an image returns: "== -1", forced     *)
(* transition to host mode; "< -1", the chain goes on with the next        *)
(* source.  bootsource_try_chain() compares with -ETOHOST, which is -11:   *)
(* an image that returns -1 to the chain is followed by the next device.   *)
(***************************************************************************)
MinusOneForcesHost ==
    [][ pc = "back" /\ pc' # "back" /\ caller = "chain" /\ ret = -1
          => PolicyHome' = "host" ]_vars

(***************************************************************************)
(* A host that has published an image by writing the magic finds the magic *)
(* replaced: by a status when the image is refused, by 0 once execute()    *)
(* has it, also when execute() then refuses it.  There is one exception:   *)
(* the length of an image may read as -EBADMAGIC, the code that hostmode_  *)
(* loop() takes for "no image yet"; it leaves such an image in place, and  *)
(* a later one is needed, through XMODEM, to get rid of it.                *)
(***************************************************************************)
LooksAbsent(a) == IsMagic(a.magic) /\ check_header(a.img, a.magic) = -EBADMAGIC

UploadConsumed ==
    (pc \in HostPc /\ IsMagic(spl.magic) /\ ~LooksAbsent(spl))
        ~> (~IsMagic(spl.magic) \/ LooksAbsent(spl))

=============================================================================
