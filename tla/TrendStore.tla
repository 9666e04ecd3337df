----------------------------- MODULE TrendStore -----------------------------
(***************************************************************************)
(* The usage trend three boards keep on a card: every half hour a sample   *)
(* is added and the file replaced, through a temporary file and a backup,  *)
(* by Board::sample_trend.  A step of a replacement may fail, and power or *)
(* the card may go between any two steps.                                  *)
(*                                                                         *)
(* A history is the number of its newest sample; 0 is an empty or invalid  *)
(* file, Missing no file.  A card is read without errors, and rename does  *)
(* not replace a file that exists (FAT).                                   *)
(***************************************************************************)
EXTENDS Integers, FiniteSetsExt

CONSTANTS Board,       \* "epaper", "read_pico" or "rlcd"
          Buckets,     \* half hours that are counted
          MaxSwaps     \* cards that are exchanged

\* The boards that look for the file before they remove its backup.
ConstantsOK == Board \in {"read_pico", "rlcd"} /\ Buckets \in Nat /\ MaxSwaps \in Nat

Missing == -1

VARIABLES files,      \* what is on the card
          trend,      \* the newest sample in memory (v.trend)
          loaded,     \* trend_loaded_
          bucket,     \* the half hour of the estimated epoch; 0 is no epoch
          pc,         \* the next step of sample_trend
          card        \* cards seen so far

vars == <<files, trend, loaded, bucket, pc, card>>

Steps == {"idle", "write", "stat", "remove", "keep", "install"}

TypeOK ==
    /\ files \in [{"bin", "bak", "tmp"} -> Missing..Buckets]
    /\ trend \in 0..Buckets
    /\ loaded \in BOOLEAN
    /\ bucket \in 0..Buckets
    /\ pc \in Steps
    /\ card \in 0..MaxSwaps

Init ==
    /\ files = [f \in {"bin", "bak", "tmp"} |-> Missing]
    /\ trend = 0
    /\ loaded = FALSE
    /\ bucket = 0
    /\ pc = "idle"
    /\ card = 0

\* Mistake: the backup is taken although it may be missing.
AnyBackup(fs) == IF fs["bin"] > 0 THEN fs["bin"] ELSE fs["bak"]

\* What the load of the next boot shows: the file, or else its backup.
Found(fs) == IF fs["bin"] > 0 THEN fs["bin"] ELSE Max({fs["bak"], 0})

\* rename() fails when its source is missing or its target exists.
Renamed(fs, from, to) == [fs EXCEPT ![to] = fs[from], ![from] = Missing]
CanRename(from, to) == files[from] # Missing /\ files[to] = Missing

Time ==
    /\ pc = "idle" /\ bucket < Buckets
    /\ bucket' = bucket + 1
    /\ UNCHANGED <<files, trend, loaded, pc, card>>

(***************************************************************************)
(* sample_trend: the first call loads, a call in a new half hour with an   *)
(* encrypted link starts a replacement.  ePaper 3.97 commits the sample to *)
(* memory first, the other boards when the file is replaced.               *)
(***************************************************************************)
Load ==
    /\ pc = "idle" /\ ~loaded
    /\ loaded' = TRUE
    /\ trend' = Found(files)
    /\ UNCHANGED <<files, bucket, pc, card>>

Sample ==
    /\ pc = "idle" /\ loaded /\ bucket > trend
    /\ pc' = "write"
    /\ trend' = IF Board = "epaper" THEN bucket ELSE trend
    /\ UNCHANGED <<files, loaded, bucket, card>>

\* Opening, writing or closing the temporary file ends the call on failure.
Write ==
    /\ pc = "write"
    /\ \/ /\ files' = [files EXCEPT !["tmp"] = bucket]
          /\ pc' = IF Board = "epaper" THEN "remove" ELSE "stat"
       \/ /\ \/ files' = [files EXCEPT !["tmp"] = 0]
             \/ UNCHANGED files
          /\ pc' = "idle"
    /\ UNCHANGED <<trend, loaded, bucket, card>>

\* Mistake: the backup makes room although the file may be missing.
AlwaysRemoves == "remove"

\* The backup is left alone until there is a file to replace it.
Replaces == IF files["bin"] = Missing THEN "install" ELSE "remove"

Stat ==
    /\ pc = "stat"
    /\ pc' \in {Replaces, "install"}     \* stat() itself may fail
    /\ UNCHANGED <<files, trend, loaded, bucket, card>>

Remove ==
    /\ pc = "remove"
    /\ pc' = "keep"
    /\ \/ files' = [files EXCEPT !["bak"] = Missing]
       \/ UNCHANGED files
    /\ UNCHANGED <<trend, loaded, bucket, card>>

\* Read Pico ends the call when the old file cannot be kept.
Keep ==
    /\ pc = "keep"
    /\ \/ /\ CanRename("bin", "bak")
          /\ files' = Renamed(files, "bin", "bak")
          /\ pc' = "install"
       \/ /\ pc' = IF Board = "read_pico" THEN "idle" ELSE "install"
          /\ UNCHANGED files
    /\ UNCHANGED <<trend, loaded, bucket, card>>

\* Mistake: the sample is in memory before the file has its name.
CommitsFirst(done) == files["tmp"]

\* The sample that memory shows when the last rename is done, or failed.
Commits(done) == IF done THEN files["tmp"] ELSE trend

Install ==
    /\ pc = "install"
    /\ \/ /\ CanRename("tmp", "bin")
          /\ files' = Renamed(files, "tmp", "bin")
          /\ trend' = Commits(TRUE)
       \/ /\ UNCHANGED files
          /\ trend' = Commits(FALSE)
    /\ pc' = "idle"
    /\ UNCHANGED <<loaded, bucket, card>>

\* The battery goes, or the board restarts, between any two steps.
Crash ==
    /\ pc' = "idle" /\ loaded' = FALSE /\ trend' = 0
    /\ files' \in {files} \cup
            (IF pc = "write" THEN {[files EXCEPT !["tmp"] = 0]} ELSE {})
    /\ UNCHANGED <<bucket, card>>

\* Read Pico follows its card: another card starts another history.
Swap ==
    /\ Board = "read_pico" /\ card < MaxSwaps /\ pc = "idle"
    /\ card' = card + 1
    /\ loaded' = FALSE
    /\ \E n \in {Missing} \cup 1..bucket :
           files' = [files EXCEPT !["bin"] = n, !["bak"] = Missing]
    /\ UNCHANGED <<trend, bucket, pc>>

Next == \/ Time \/ Load \/ Sample \/ Write \/ Stat \/ Remove \/ Keep
        \/ Install \/ Crash \/ Swap

Spec == Init /\ [][Next]_vars

\* Whatever step fails and whenever power goes, the history a boot finds on
\* a card never falls back: the backup is there whenever the file is not.
NothingIsForgotten == card' = card => Found(files') >= Found(files)

\* A sample that is on the screen is on the card (board.cpp:246 of the RLCD
\* board): a failed write leaves its half hour open for the next poll.
ShownIsStored == loaded /\ pc = "idle" => trend <= Found(files)
=============================================================================
