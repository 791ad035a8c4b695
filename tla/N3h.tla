-------------------------------- MODULE N3h ---------------------------------
(***************************************************************************)
(* Finding, downloading and verifying the n3h executable                   *)
(* (net/src/ipc/n3h.rs), which ipc_spawn does before it starts the         *)
(* networking process.  Several conductors of one user share the binaries  *)
(* directory, so their calls of get_verify_n3h interleave on the same      *)
(* artifact file and the same extracted application; a call may be cut     *)
(* short at any step, and is made again when the conductor is restarted.   *)
(*                                                                         *)
(* A file is the sequence of its blocks.  `Good' is the release whose hash *)
(* is pinned, `Page' an error page of the web server (reqwest::get does    *)
(* not fail on an HTTP status), shorter than the release.                  *)
(***************************************************************************)
EXTENDS Integers, Sequences, FiniteSets

CONSTANTS
    Proc,       \* the conductors that start at about the same time
    MaxFaults   \* bound: crashes, broken downloads, error pages, failed commands

VARIABLES
    target,     \* [os, arch, nix]: what the conductor was built for and runs in
    fuse,       \* an AppImage can mount itself here
    inPath,     \* the n3h of the PATH: "none", "wrong" or "right" version
    file,       \* blocks of the artifact file; <<>> when there is none
    app,        \* extracted application: "none", "partial" or "good"
    mounted,    \* the disk image is attached to ./dmg-mount
    proc,       \* [Proc -> the state of its get_verify_n3h call]
    spoilt,     \* a verified file was overwritten by somebody's error page
    faults

vars == <<target, fuse, inPath, file, app, mounted, proc, spoilt, faults>>

Good == <<"g1", "g2">>
Page == <<"e1">>

-----------------------------------------------------------------------------
(* The pinned release: which artifacts n3h_pin.json lists.                 *)

N3H_INFO == [linux |-> [a \in {"ia32", "x64", "arm", "arm64"} |-> {"appimage", "tar"}],
             mac |-> [a \in {"x64"} |-> {"dmg"}],
             win |-> [a \in {"x64"} |-> {"exe"}]]

get_artifact_info(os, arch, pkg) ==
    /\ os \in DOMAIN N3H_INFO
    /\ arch \in DOMAIN N3H_INFO[os]
    /\ pkg \in N3H_INFO[os][arch]

\* The builds get_os_arch has a name for.
Targets ==
    [os : {"linux"}, arch : {"ia32", "x64", "arm", "arm64"}, nix : BOOLEAN]
        \union [os : {"win", "mac"}, arch : {"x64"}, nix : {FALSE}]

get_os_arch ==
    CASE target.os = "linux" -> IF target.nix THEN "tar" ELSE "appimage"
      [] target.os = "win" -> "exe"
      [] target.os = "mac" -> "dmg"

-----------------------------------------------------------------------------
Call(pc) == [pc |-> pc, seen |-> <<>>, body |-> <<>>, at |-> 0, args |-> <<>>]

Init ==
    /\ target \in Targets
    /\ fuse \in BOOLEAN
    /\ target.os = "linux" \/ fuse
    /\ inPath \in {"none", "wrong", "right"}
    /\ file = <<>>
    /\ app = "none"
    /\ mounted = FALSE
    /\ proc = [p \in Proc |-> Call("idle")]
    /\ spoilt = FALSE
    /\ faults = 0

At(p, pc) == proc[p].pc = pc
Goes(p, pc) == proc' = [proc EXCEPT ![p] = Call(pc)]
Fails(p) == Goes(p, "failed")

Fault == faults < MaxFaults /\ faults' = faults + 1

\* check_n3h_version runs the program with --version, and once more with
\* --appimage-extract-and-run; `runs' says whether the program works at all.
check_n3h_version(runs, appimage) ==
    IF ~runs THEN {}
    ELSE IF appimage /\ ~fuse THEN {<<"--appimage-extract-and-run">>}
    ELSE {<<>>}

Answers(p, results) ==
    \/ /\ results = {}
       /\ Fails(p)
    \/ \E args \in results :
           proc' = [proc EXCEPT ![p] = [Call("ok") EXCEPT !.args = args]]

\* The n3h of the PATH is used when its version is the pinned one; otherwise
\* the pinned artifact for this build is wanted.
StartFromPath(p) ==
    /\ At(p, "idle")
    /\ IF inPath = "right" THEN Answers(p, check_n3h_version(TRUE, FALSE))
       ELSE IF get_artifact_info(target.os, target.arch, get_os_arch) THEN Goes(p, "check")
       ELSE Fails(p)
    /\ UNCHANGED <<target, fuse, inPath, file, app, mounted, spoilt, faults>>

\* check_hash reads the file block by block while others may write it.
ReadBlock(p) ==
    /\ proc[p].pc \in {"check", "verify"}
    /\ Len(proc[p].seen) < Len(file)
    /\ proc' = [proc EXCEPT ![p].seen = Append(@, file[Len(@) + 1])]
    /\ UNCHANGED <<target, fuse, inPath, file, app, mounted, spoilt, faults>>

check_hash(p) == proc[p].seen = Good

\* Where a call goes on once the artifact has the pinned hash.
Unpacks ==
    IF target.os = "mac" THEN "dmg" ELSE IF target.nix THEN "nix" ELSE "version"

KeepsDamaged(p) ==
    /\ proc[p].pc \in {"check", "verify"}
    /\ Len(proc[p].seen) >= Len(file)
    /\ CASE At(p, "check") /\ proc[p].seen # <<>> -> Goes(p, Unpacks)
         [] At(p, "check") /\ proc[p].seen = <<>> -> Goes(p, "get")
         [] OTHER -> Goes(p, Unpacks)
    /\ UNCHANGED <<target, fuse, inPath, file, app, mounted, spoilt, faults>>

\* A good file is kept; a bad or missing one is downloaded; a bad download
\* is an error.
Hashed(p) ==
    /\ proc[p].pc \in {"check", "verify"}
    /\ Len(proc[p].seen) >= Len(file)
    /\ IF check_hash(p) THEN Goes(p, Unpacks)
       ELSE IF At(p, "check") THEN Goes(p, "get")
       ELSE Fails(p)
    /\ UNCHANGED <<target, fuse, inPath, file, app, mounted, spoilt, faults>>

\* The file is opened for writing without truncating it, then the URL is
\* requested: no answer, the release, or a page.
Request(p) ==
    /\ At(p, "get")
    /\ \/ /\ proc' = [proc EXCEPT ![p] = [Call("copy") EXCEPT !.body = Good]]
          /\ UNCHANGED faults
       \/ /\ Fault
          /\ \/ proc' = [proc EXCEPT ![p] = [Call("copy") EXCEPT !.body = Page]]
             \/ Fails(p)
    /\ UNCHANGED <<target, fuse, inPath, file, app, mounted, spoilt>>

Overwritten(f, i, b) == [j \in 1 .. (IF i > Len(f) THEN i ELSE Len(f)) |-> IF j = i THEN b ELSE f[j]]

Trusts(q) == proc[q].pc \in {"dmg", "attached", "copied", "nix", "extracted", "version"}

\* The caller reads, or has accepted, the file that an error page now spoils.
Spoils(p) ==
    /\ proc[p].body = Page
    /\ \E q \in Proc : Trusts(q) \/ proc[q].seen # <<>>

\* res.copy_to: the next block is written at this handle's own offset.
CopyBlock(p) ==
    /\ At(p, "copy")
    /\ proc[p].at < Len(proc[p].body)
    /\ file' = Overwritten(file, proc[p].at + 1, proc[p].body[proc[p].at + 1])
    /\ proc' = [proc EXCEPT ![p].at = @ + 1]
    /\ spoilt' = (spoilt \/ Spoils(p))
    /\ UNCHANGED <<target, fuse, inPath, app, mounted, faults>>

CopyEnds(p) ==
    /\ At(p, "copy")
    /\ \/ /\ proc[p].at = Len(proc[p].body)
          /\ Goes(p, "verify")
          /\ UNCHANGED faults
       \/ /\ Fault
          /\ Fails(p)
    /\ UNCHANGED <<target, fuse, inPath, file, app, mounted, spoilt>>

-----------------------------------------------------------------------------
\* extract_dmg: only when there is no n3h.app yet.
Attach(p) ==
    /\ At(p, "dmg")
    /\ IF app # "none" THEN Goes(p, "version") /\ UNCHANGED mounted
       ELSE IF mounted THEN Fails(p) /\ UNCHANGED mounted
       ELSE Goes(p, "attached") /\ mounted' = TRUE
    /\ UNCHANGED <<target, fuse, inPath, file, app, spoilt, faults>>

\* `cp -a' runs with ignore_errors: a copy that fails half way goes on too.
CopyApp(p) ==
    /\ At(p, "attached")
    /\ \/ /\ app = "none"
          /\ app' = "partial"
          /\ UNCHANGED <<proc, faults>>
       \/ /\ app = "partial"
          /\ app' = "good"
          /\ Goes(p, "copied")
          /\ UNCHANGED faults
       \/ /\ app = "partial"
          /\ Fault
          /\ Goes(p, "copied")
          /\ UNCHANGED app
    /\ UNCHANGED <<target, fuse, inPath, file, mounted, spoilt>>

Detach(p) ==
    /\ At(p, "copied")
    /\ \/ /\ mounted' = FALSE
          /\ Goes(p, "version")
          /\ UNCHANGED faults
       \/ /\ Fault
          /\ Fails(p)
          /\ UNCHANGED mounted
    /\ UNCHANGED <<target, fuse, inPath, file, app, spoilt>>

\* On nix the archive is extracted again by every call, over what is there.
NixExtract(p) ==
    /\ At(p, "nix")
    /\ app' = "partial"
    /\ Goes(p, "extracted")
    /\ UNCHANGED <<target, fuse, inPath, file, mounted, spoilt, faults>>

NixExtracted(p) ==
    /\ At(p, "extracted")
    /\ \/ /\ app' = "good"
          /\ Goes(p, "version")
          /\ UNCHANGED faults
       \/ /\ Fault
          /\ Fails(p)
          /\ UNCHANGED app
    /\ UNCHANGED <<target, fuse, inPath, file, mounted, spoilt>>

\* What the last version check runs: the application, or the file itself,
\* which cannot be executed while somebody has it open for writing.
Executable ==
    IF Unpacks = "version"
    THEN file = Good /\ ~ \E q \in Proc : At(q, "copy")
    ELSE app = "good"

Version(p) ==
    /\ At(p, "version")
    /\ Answers(p, check_n3h_version(Executable, get_os_arch = "appimage"))
    /\ UNCHANGED <<target, fuse, inPath, file, app, mounted, spoilt, faults>>

-----------------------------------------------------------------------------
\* ipc_spawn's error ends the conductor; the user starts it again.
Restart(p) ==
    /\ At(p, "failed")
    /\ Goes(p, "idle")
    /\ UNCHANGED <<target, fuse, inPath, file, app, mounted, spoilt, faults>>

Crash(p) ==
    /\ proc[p].pc \notin {"idle", "failed", "ok"}
    /\ Fault
    /\ Fails(p)
    /\ UNCHANGED <<target, fuse, inPath, file, app, mounted, spoilt>>

Step(p) ==
    \/ StartFromPath(p) \/ ReadBlock(p) \/ Hashed(p) \/ Request(p) \/ CopyBlock(p)
    \/ CopyEnds(p) \/ Attach(p) \/ CopyApp(p) \/ Detach(p) \/ NixExtract(p)
    \/ NixExtracted(p) \/ Version(p) \/ Restart(p)

Next == \E p \in Proc : Step(p) \/ Crash(p)

Spec == Init /\ [][Next]_vars

FairSpec == Spec /\ \A p \in Proc : WF_vars(Step(p))

-----------------------------------------------------------------------------
\* What get_verify_n3h runs from its own directory has the pinned hash: the
\* file it unpacks or executes is the pinned release, unless another
\* conductor, which had found the file incomplete before that, was given an error
\* page and wrote that over the verified file (the file is opened without
\* truncation, download at n3h.rs:329, and checked before it is unpacked).
OnlyVerified ==
    \A p \in Proc : Trusts(p) => file = Good \/ spoilt

Broken == target.os = "mac" /\ (app = "partial" \/ (mounted /\ app = "none"))
Contended == target.nix /\ Cardinality({p \in Proc : ~At(p, "ok")}) > 1
Runnable == (\A p \in Proc : At(p, "ok")) \/ Broken \/ Contended

\* Every conductor ends up with a runnable n3h of the pinned version, however
\* downloads, crashes and the other conductor's calls interleaved: a bad or
\* cut file is replaced by the next call.  Two states are not repaired by
\* the code: on the Mac, an application directory left half copied, or an
\* image left attached (extract_dmg at n3h.rs:260); and on nix two calls can
\* keep extracting over each other.
BecomesRunnable == []<>Runnable
=============================================================================
