------------------------------ MODULE GenPatch ------------------------------
(***************************************************************************)
(* libs/ra-onchain/libs/GenPatchFiles.py: for every vendored file listed   *)
(* in sources.json, main downloads the file of the listed commit to        *)
(* <name>.<commit><ext>, and if it differs from the vendored file writes   *)
(* `diff -u` of the two to <name>.patch, then removes the download.  A     *)
(* file whose .patch already names the commit on its first line is         *)
(* skipped.                                                                *)
(*                                                                         *)
(* Between runs a developer edits vendored files and moves sources.json to *)
(* other commits.  A run may stop on a failed download (RuntimeError) or   *)
(* be killed at any point, also part way through writing the patch.        *)
(* Contents are values; a patch is the pair it was made from, whether it   *)
(* was written whole, and the commit its first line names.  File names and *)
(* commits are strings, as the version check is a substring test on the   *)
(* first line; diff's timestamp on that line is left out.                  *)
(***************************************************************************)
EXTENDS Naturals, Sequences

CONSTANTS
    FileSeq,     \* configs['fileSrc'], in order
    Versions,    \* commits sources.json may name
    Contents,    \* contents a vendored file may have
    Upstream(_), \* the content of the upstream file at a commit
    InitVer,     \* the commit sources.json names at first
    Faults,      \* "raise": a download fails; "kill": the process dies
    MaxFaults,
    MaxRuns,     \* runs of main
    MaxChanges   \* edits and commit moves between runs

Files == {FileSeq[i] : i \in DOMAIN FileSeq}

NoPatch == [exists |-> FALSE, tag |-> "", whole |-> FALSE, from |-> <<"", "">>]
\* open(patchFile, 'wb') truncated it and nothing was written yet.
EmptyPatch == [NoPatch EXCEPT !.exists = TRUE]
\* The whole `diff -u` output, whose first line names the commit's file.
Patch(v, up, d) == [exists |-> TRUE, tag |-> v, whole |-> TRUE, from |-> <<up, d>>]
\* Killed within f.write(stdout): the first line made it to disk.
Torn(v, up, d) == [Patch(v, up, d) EXCEPT !.whole = FALSE]

\* verTag in patchFirstLine: the commit occurs in the line.
Occurs(v, line) == \E k \in 0..Len(line) - Len(v) : SubSeq(line, k + 1, k + Len(v)) = v

\* The first line of `diff -u tmpFile destFile`: --- <name>.<commit><ext>,
\* as tmpFile is named; an empty patch file reads as "".
FirstLine(f, p) == IF p.tag = "" THEN "" ELSE "--- " \o f \o "." \o p.tag \o ".c"

VARIABLES
    ver,      \* sources.json: the commit of each file
    dest,     \* the vendored files
    patch,    \* the .patch files
    tmp,      \* the commits whose download <name>.<commit><ext> is on disk
    i,        \* main is at FileSeq[i], or 0 when it is not running
    step,     \* where _GenPatchForSingleFile is
    clean,    \* main's last run went through every file, and nothing changed since
    runs, faults, changes

vars == <<ver, dest, patch, tmp, i, step, clean, runs, faults, changes>>

F == FileSeq[i]

Init ==
    /\ ver = [f \in Files |-> InitVer]
    /\ dest \in [Files -> Contents]
    /\ patch = [f \in Files |-> NoPatch]
    /\ tmp = [f \in Files |-> {}]
    /\ i = 0 /\ step = "check"
    /\ clean = FALSE
    /\ runs = 0 /\ faults = 0 /\ changes = 0

\* The developer edits a vendored file, or moves it to another commit.
Change ==
    /\ i = 0 /\ changes < MaxChanges
    /\ \E f \in Files :
          \/ \E c \in Contents \ {dest[f]} : dest' = [dest EXCEPT ![f] = c] /\ UNCHANGED ver
          \/ \E v \in Versions \ {ver[f]} : ver' = [ver EXCEPT ![f] = v] /\ UNCHANGED dest
    /\ changes' = changes + 1 /\ clean' = FALSE
    /\ UNCHANGED <<patch, tmp, i, step, runs, faults>>

StartMain ==
    /\ i = 0 /\ runs < MaxRuns
    /\ i' = 1 /\ step' = "check" /\ runs' = runs + 1 /\ clean' = FALSE
    /\ UNCHANGED <<ver, dest, patch, tmp, faults, changes>>

\* Mutant: the loop runs one index past the list.
NextFileLate ==
    IF i = Len(FileSeq) + 1 THEN i' = 0 /\ clean' = TRUE ELSE i' = i + 1 /\ UNCHANGED clean

\* On to the next file, or main returns.
NextFile ==
    IF i = Len(FileSeq) THEN i' = 0 /\ clean' = TRUE ELSE i' = i + 1 /\ UNCHANGED clean

\* Mutant: any existing patch counts as done.
CheckAnyPatch ==
    /\ i # 0 /\ step = "check"
    /\ IF patch[F].exists
       THEN NextFile /\ UNCHANGED step
       ELSE step' = "fetch" /\ UNCHANGED <<i, clean>>
    /\ UNCHANGED <<ver, dest, patch, tmp, runs, faults, changes>>

\* if os.path.exists(patchFile) and verTag in patchFirstLine: return
Check ==
    /\ i # 0 /\ step = "check"
    /\ IF patch[F].exists /\ Occurs(ver[F], FirstLine(F, patch[F]))
       THEN NextFile /\ UNCHANGED step
       ELSE step' = "fetch" /\ UNCHANGED <<i, clean>>
    /\ UNCHANGED <<ver, dest, patch, tmp, runs, faults, changes>>

\* Read the vendored file, requests.get the commit's file; on failure raise
\* RuntimeError, which ends main; else write it to the temporary file.
Fetch ==
    /\ i # 0 /\ step = "fetch"
    /\ \/ tmp' = [tmp EXCEPT ![F] = @ \cup {ver[F]}] /\ step' = "compare" /\ UNCHANGED <<i, faults>>
       \/ /\ "raise" \in Faults /\ faults < MaxFaults
          /\ faults' = faults + 1 /\ i' = 0 /\ UNCHANGED <<tmp, step>>
    /\ UNCHANGED <<ver, dest, patch, clean, runs, changes>>

\* Mutant: os.remove indented into the if, so an unchanged file keeps its
\* download.
CompareSkipRemove ==
    /\ i # 0 /\ step = "compare"
    /\ IF Upstream(ver[F]) # dest[F]
       THEN /\ patch' = [patch EXCEPT ![F] = Patch(ver[F], Upstream(ver[F]), dest[F])]
            /\ step' = "remove" /\ UNCHANGED <<i, clean>>
       ELSE NextFile /\ step' = "check" /\ UNCHANGED patch
    /\ UNCHANGED <<ver, dest, tmp, runs, faults, changes>>

\* Compare the sha256 of the two; if they differ, diff -u and write the
\* patch (open 'wb', then f.write(stdout)).
Compare ==
    /\ i # 0 /\ step = "compare"
    /\ IF Upstream(ver[F]) # dest[F]
       THEN patch' = [patch EXCEPT ![F] = Patch(ver[F], Upstream(ver[F]), dest[F])]
       ELSE UNCHANGED patch
    /\ step' = "remove"
    /\ UNCHANGED <<ver, dest, tmp, i, clean, runs, faults, changes>>

\* os.remove(tmpFile).
Remove ==
    /\ i # 0 /\ step = "remove"
    /\ tmp' = [tmp EXCEPT ![F] = @ \ {ver[F]}]
    /\ NextFile /\ step' = "check"
    /\ UNCHANGED <<ver, dest, patch, runs, faults, changes>>

\* The process is killed.  Killed within writing the temporary file, it is
\* on disk; killed within writing the patch, the patch is empty or has its
\* first lines only.
Kill ==
    /\ i # 0 /\ "kill" \in Faults /\ faults < MaxFaults
    /\ faults' = faults + 1 /\ i' = 0
    /\ \/ UNCHANGED <<tmp, patch>>
       \/ step = "fetch" /\ tmp' = [tmp EXCEPT ![F] = @ \cup {ver[F]}] /\ UNCHANGED patch
       \/ /\ step = "compare" /\ Upstream(ver[F]) # dest[F]
          /\ patch' \in {[patch EXCEPT ![F] = EmptyPatch],
                         [patch EXCEPT ![F] = Torn(ver[F], Upstream(ver[F]), dest[F])]}
          /\ UNCHANGED tmp
    /\ UNCHANGED <<ver, dest, step, clean, runs, changes>>

\* No more runs or changes.
Done == i = 0 /\ runs = MaxRuns /\ UNCHANGED vars

Next == Change \/ StartMain \/ Check \/ Fetch \/ Compare \/ Remove \/ Kill \/ Done

Spec == Init /\ [][Next]_vars

-----------------------------------------------------------------------------
(* Properties *)

TypeOK ==
    /\ ver \in [Files -> Versions] /\ dest \in [Files -> Contents]
    /\ tmp \in [Files -> SUBSET Versions]
    /\ \A f \in Files : patch[f].exists => patch[f].tag \in Versions \cup {""}
    /\ i \in 0..Len(FileSeq)
    /\ step \in {"check", "fetch", "compare", "remove"}
    /\ clean \in BOOLEAN

\* After a run of main that went through every file, each vendored file
\* that differs from its commit's upstream file has a patch naming that
\* commit and made from its upstream file, even when earlier runs failed,
\* were killed, or saw another commit.
PatchesNameCommit ==
    clean => \A f \in Files :
        Upstream(ver[f]) # dest[f] =>
            /\ patch[f].exists /\ patch[f].tag = ver[f]
            /\ patch[f].from[1] = Upstream(ver[f])

\* "patch file already exists for this version": after a run of main that
\* went through every file, the patch of each file that differs from its
\* upstream is the whole output of diff, so that it applies.
PatchesWhole ==
    clean => \A f \in Files : Upstream(ver[f]) # dest[f] => patch[f].whole

\* After a run of main that went through every file, the download of a
\* file's current commit is still on disk only where the patch already
\* names that commit: os.remove runs for every file main diffs, and a
\* download left by a kill before the patch was written is fetched again
\* and removed by the next run; only a kill between writing the patch and
\* os.remove leaves one behind, which the version check then skips.
StrayDownloadsPatched ==
    clean => \A f \in Files :
        ver[f] \in tmp[f] => patch[f].exists /\ patch[f].tag = ver[f]

=============================================================================
