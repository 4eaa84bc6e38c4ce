--------------------------- MODULE Factory_proofs ---------------------------
(***************************************************************************)
(* Laboratories are never given a problem again (NoRepeats), and whatever  *)
(* is in the store is a pack as the season declares it, vouched for by the *)
(* chain (StoredPackAsDeclared): for every season, every text, every       *)
(* critic, any number of days, and wherever the process dies.              *)
(***************************************************************************)
EXTENDS Factory, FiniteSetTheorems, WellFoundedInduction, TLAPS

Threshold == Generation.duplicate_threshold_ppm

Lookback == Generation.dedup_lookback_days

(* The store has forgotten nothing it was to keep                          *)
Kept == Durable \/ crashes = 0

Building == phase \in {"generating", "built", "published", "written", "recorded"}

Apart(one, other, threshold) ==
  \A p \in one, q \in other : ~Alike(p, q, threshold) /\ ~Alike(q, p, threshold)

AllApart(pack, threshold) ==
  \A i, j \in DOMAIN pack : i # j => ~Alike(PrintOf(pack[i]), PrintOf(pack[j]), threshold)

Types ==
  /\ launch \in DOMAIN Launches /\ day \in Int /\ crashes \in Nat
  /\ challenges \in Seq(Range(challenges))
  /\ \A d \in DOMAIN used : d \in Int /\ d <= day
  /\ \A p \in DOMAIN prints : prints[p] \in Int

(* The problems of a recent round are in the store for as long as a later  *)
(* round is to be compared with them ...                                   *)
UsedKept ==
  Kept => \A d \in DOMAIN used : day - d < Lookback =>
    \A p \in used[d] : p \in DOMAIN prints /\ (Durable => prints[p] >= d + Lookback)

(* ... so they are in the history a candidate is compared with, as are the *)
(* problems accepted before it                                             *)
HistoryHolds ==
  phase = "generating" =>
    /\ PrintsOf(challenges) \subseteq history
    /\ Kept => \A d \in DOMAIN used : d < day /\ day - d < Lookback => used[d] \subseteq history

NothingYet == ~Building => challenges = <<>>

PackApart == AllApart(challenges, Threshold)

PackNew ==
  Building /\ Kept =>
    \A d \in DOMAIN used : d < day /\ day - d < Lookback =>
      Apart(used[d], PrintsOf(challenges), Threshold)

(* What is stored was built, and is in the fingerprints before it is used  *)
StoredApart == \A pack \in stored : AllApart(pack, Threshold)

StoredIsBuilt == phase \in {"written", "recorded"} => stored = {challenges}

Recorded ==
  phase = "recorded" =>
    \A p \in PrintsOf(challenges) :
      p \in DOMAIN prints /\ (Durable => prints[p] >= day + Lookback)

UsedApart ==
  Kept => \A d, e \in DOMAIN used : d < e /\ e - d < Lookback => Apart(used[d], used[e], Threshold)

IInv ==
  /\ Types /\ UsedKept /\ HistoryHolds /\ NothingYet /\ PackApart /\ PackNew
  /\ StoredApart /\ StoredIsBuilt /\ Recorded /\ UsedApart

-----------------------------------------------------------------------------
(* Likeness has no direction *)
LEMMA SimilaritySymmetric ==
  ASSUME NEW p, NEW q
  PROVE  Similarity(p, q) = Similarity(q, p)
<1>1. \A l, r : JaccardPpm(l, r) = JaccardPpm(r, l)
  <2> SUFFICES ASSUME NEW l, NEW r
               PROVE  JaccardPpm(l, r) = JaccardPpm(r, l)
    OBVIOUS
  <2>1. l \cap r = r \cap l /\ l \cup r = r \cup l
    OBVIOUS
  <2> QED
    BY <2>1, Zenon DEF JaccardPpm
<1> QED
  BY <1>1, Zenon DEF Similarity

LEMMA AlikeSymmetric ==
  ASSUME NEW p, NEW q, NEW t, ~Alike(p, q, t)
  PROVE  ~Alike(q, p, t)
  BY SimilaritySymmetric, Zenon DEF Alike

(* What passes is like nothing in the history                              *)
LEMMA PassesIsNew ==
  ASSUME NEW body, Passes(body), NEW q \in history
  PROVE  ~Alike(PrintOf(body), q, Threshold) /\ ~Alike(q, PrintOf(body), Threshold)
<1>1. ~IsDuplicate(PrintOf(body), history, Threshold)
  BY Zenon DEF Passes, Threshold
<1>2. ~Alike(PrintOf(body), q, Threshold)
  BY <1>1, Zenon DEF IsDuplicate, Alike
<1> QED
  BY <1>2, AlikeSymmetric

LEMMA Appended ==
  ASSUME NEW s, s \in Seq(Range(s)), NEW e
  PROVE  LET t == Append(s, e)
         IN  /\ t \in Seq(Range(t))
             /\ DOMAIN t = (DOMAIN s) \cup {Len(s) + 1}
             /\ \A i \in DOMAIN s : t[i] = s[i]
             /\ t[Len(s) + 1] = e
             /\ Len(s) + 1 \notin DOMAIN s
<1> DEFINE S == Range(s) \cup {e}
<1> DEFINE t == Append(s, e)
<1>1. s \in Seq(S)
  OBVIOUS
<1>2. /\ t \in Seq(S)
      /\ DOMAIN s = 1 .. Len(s) /\ Len(s) \in Nat
      /\ DOMAIN t = 1 .. Len(s) + 1
      /\ \A i \in DOMAIN s : t[i] = s[i]
      /\ t[Len(s) + 1] = e
  BY <1>1
<1>3. t \in Seq(Range(t))
  BY <1>2 DEF Range
<1> QED
  BY <1>2, <1>3

LEMMA NothingListed ==
  /\ <<>> \in Seq(Range(<<>>))
  /\ PrintsOf(<<>>) = {}
  /\ \A t : AllApart(<<>>, t)
  BY DEF PrintsOf, AllApart, Range

LEMMA SameSeason ==
  ASSUME UNCHANGED launch
  PROVE  Threshold' = Threshold /\ Lookback' = Lookback /\ Durable' = Durable
  BY DEF Threshold, Lookback, Durable, Generation, season, args

-----------------------------------------------------------------------------
LEMMA IInvInit == Init => IInv
<1> SUFFICES ASSUME Init PROVE IInv
  OBVIOUS
<1>1. DOMAIN prints = {} /\ DOMAIN used = {}
  BY DEF Init, Nothing
<1>2. /\ launch \in DOMAIN Launches /\ day = 1 /\ crashes = 0
      /\ challenges = <<>> /\ phase = "off" /\ stored = {}
  BY DEF Init, NothingBuilt
<1> QED
  BY <1>1, <1>2, NothingListed
     DEF IInv, Types, UsedKept, HistoryHolds, NothingYet, PackApart, PackNew, StoredApart,
         StoredIsBuilt, Recorded, UsedApart, Building

(* What a step that touches neither the store nor the past leaves alone    *)
Past == <<launch, day, used, crashes, prints>>

LEMMA PastKept ==
  ASSUME IInv, UNCHANGED Past
  PROVE  /\ UsedKept' /\ UsedApart'
         /\ challenges' \in Seq(Range(challenges')) => Types'
         /\ UNCHANGED stored => StoredApart'
<1>1. Threshold' = Threshold /\ Lookback' = Lookback /\ Durable' = Durable
  BY SameSeason DEF Past
<1> QED
  BY <1>1 DEF IInv, Past, Types, UsedKept, UsedApart, StoredApart, Kept

(* A build that is forgotten leaves nothing to be apart                    *)
LEMMA Forgotten ==
  ASSUME IInv, UNCHANGED Past, UNCHANGED stored, ForgetBuild,
         phase' \notin {"generating", "written", "recorded"}
  PROVE  IInv'
<1>1. challenges' = <<>>
  BY DEF ForgetBuild
<1>2. PackApart' /\ PackNew' /\ challenges' \in Seq(Range(challenges'))
  BY <1>1, NothingListed DEF PackApart, PackNew, Apart
<1>3. HistoryHolds' /\ NothingYet' /\ StoredIsBuilt' /\ Recorded'
  BY <1>1 DEF HistoryHolds, NothingYet, StoredIsBuilt, Recorded
<1> QED
  BY <1>2, <1>3, PastKept DEF IInv

LEMMA LoseKeeps ==
  ASSUME IInv, NEW reason, Lose(reason)
  PROVE  IInv'
  BY Forgotten DEF Lose, Past, store

(* A step that leaves the pack as it is, and the history while it is built *)
LEMMA PackKept ==
  ASSUME IInv, UNCHANGED Past, UNCHANGED challenges,
         phase = "generating" => UNCHANGED history,
         phase' = "generating" => phase = "generating",
         Building' <=> Building
  PROVE  Types' /\ HistoryHolds' /\ NothingYet' /\ PackApart' /\ PackNew'
<1>1. Threshold' = Threshold /\ Lookback' = Lookback /\ Durable' = Durable
  BY SameSeason DEF Past
<1>2. Types'
  BY PastKept DEF IInv, Types
<1>3. HistoryHolds'
  BY <1>1 DEF IInv, Past, HistoryHolds, Kept
<1>4. NothingYet' /\ PackApart' /\ PackNew'
  BY <1>1 DEF IInv, Past, NothingYet, PackApart, PackNew, Kept
<1> QED
  BY <1>2, <1>3, <1>4

LEMMA LookbackType ==
  ASSUME launch \in DOMAIN Launches
  PROVE  Lookback \in Int
  BY FactoryAssumption DEF Lookback, Generation, season

(* A pack is planned with everything a recent round used in the history    *)
LEMMA PlanKeeps ==
  ASSUME IInv, Plan
  PROVE  IInv'
<1>1. UNCHANGED Past /\ UNCHANGED <<stored, challenges>> /\ phase' = "generating"
  BY DEF Plan, Past, store
<1>2. PICK expired \in SUBSET Expiring : history' = DOMAIN prints \ expired
  BY DEF Plan, Fingerprints
<1>3. challenges' = <<>>
  BY <1>1 DEF Plan, IInv, NothingYet, Building
<1>4. Threshold' = Threshold /\ Lookback' = Lookback /\ Durable' = Durable
  BY <1>1, SameSeason DEF Past
<1>5. Lookback \in Int
  BY LookbackType DEF IInv, Types
<1>6. ASSUME Kept, NEW d \in DOMAIN used, day - d < Lookback
      PROVE  used[d] \subseteq history'
  <2> SUFFICES ASSUME NEW p \in used[d] PROVE p \in history'
    OBVIOUS
  <2>1. p \in DOMAIN prints /\ (Durable => prints[p] >= d + Lookback)
    BY <1>6 DEF IInv, UsedKept
  <2>2. p \notin Expiring
    BY <2>1, <1>5, <1>6 DEF Expiring, IInv, Types
  <2> QED
    BY <1>2, <2>1, <2>2
<1>7. HistoryHolds'
  BY <1>1, <1>3, <1>4, <1>6, NothingListed DEF HistoryHolds, Past, Kept
<1>8. PackApart' /\ PackNew' /\ challenges' \in Seq(Range(challenges'))
  BY <1>3, NothingListed DEF PackApart, PackNew, Apart
<1>9. NothingYet' /\ StoredIsBuilt' /\ Recorded'
  BY <1>1, <1>3 DEF NothingYet, StoredIsBuilt, Recorded
<1> QED
  BY <1>1, <1>7, <1>8, <1>9, PastKept DEF IInv

(* What is accepted is apart from the history, so from the pack so far and *)
(* from every recent round                                                 *)
LEMMA AcceptKeeps ==
  ASSUME IInv, Accept
  PROVE  IInv'
<1>1. PICK text \in DOMAIN Content :
        /\ Passes(AsBody(text))
        /\ challenges' = Append(challenges, AsBody(text))
        /\ history' = history \cup {PrintOf(AsBody(text))}
  BY DEF Accept
<1> DEFINE new == AsBody(text)
<1>2. UNCHANGED Past /\ UNCHANGED stored /\ phase = "generating" /\ phase' = "generating"
  BY DEF Accept, Candidate, Past, store
<1>3. Threshold' = Threshold /\ Lookback' = Lookback /\ Durable' = Durable
  BY <1>2, SameSeason DEF Past
<1>4. /\ challenges' \in Seq(Range(challenges'))
      /\ DOMAIN challenges' = (DOMAIN challenges) \cup {Len(challenges) + 1}
      /\ \A i \in DOMAIN challenges : challenges'[i] = challenges[i]
      /\ challenges'[Len(challenges) + 1] = new
      /\ Len(challenges) + 1 \notin DOMAIN challenges
  BY <1>1, Appended DEF IInv, Types
<1>5. PrintsOf(challenges') = PrintsOf(challenges) \cup {PrintOf(new)}
  <2> HIDE DEF new
  <2> QED
    BY <1>4 DEF PrintsOf
<1>6. PrintsOf(challenges) \subseteq history
  BY <1>2 DEF IInv, HistoryHolds
<1>7. ASSUME NEW q \in history
      PROVE  /\ ~Alike(PrintOf(new), q, Threshold)
             /\ ~Alike(q, PrintOf(new), Threshold)
  BY <1>1, PassesIsNew
<1> HIDE DEF new
<1>8. HistoryHolds'
  BY <1>1, <1>2, <1>3, <1>5, <1>6 DEF IInv, HistoryHolds, Past, Kept, new
<1>9. PackApart'
  <2> SUFFICES ASSUME NEW i \in DOMAIN challenges', NEW j \in DOMAIN challenges', i # j
               PROVE  ~Alike(PrintOf(challenges'[i]), PrintOf(challenges'[j]), Threshold)
    BY <1>3 DEF PackApart, AllApart
  <2>1. CASE i \in DOMAIN challenges /\ j \in DOMAIN challenges
    BY <2>1, <1>4 DEF IInv, PackApart, AllApart
  <2>2. ASSUME NEW k \in DOMAIN challenges
        PROVE  PrintOf(challenges[k]) \in history
    BY <1>6 DEF PrintsOf
  <2>3. CASE i \notin DOMAIN challenges
    BY <2>2, <2>3, <1>4, <1>7
  <2>4. CASE j \notin DOMAIN challenges
    BY <2>2, <2>4, <1>4, <1>7
  <2> QED
    BY <2>1, <2>3, <2>4
<1>10. PackNew'
  <2> SUFFICES ASSUME Kept, NEW d \in DOMAIN used, d < day, day - d < Lookback
               PROVE  Apart(used[d], PrintsOf(challenges'), Threshold)
    BY <1>2, <1>3 DEF PackNew, Kept, Past
  <2>1. used[d] \subseteq history
    BY <1>2 DEF IInv, HistoryHolds
  <2>2. Apart(used[d], PrintsOf(challenges), Threshold)
    BY <1>2 DEF IInv, PackNew, Building
  <2> QED
    BY <2>1, <2>2, <1>5, <1>7 DEF Apart
<1>11. NothingYet' /\ StoredIsBuilt' /\ Recorded'
  BY <1>2 DEF NothingYet, Building, StoredIsBuilt, Recorded
<1> QED
  BY <1>2, <1>4, <1>8, <1>9, <1>10, <1>11, PastKept DEF IInv

LEMMA BuildStepKeeps ==
  ASSUME IInv, Reject \/ LeaveUnfilled \/ Built \/ Publish
  PROVE  IInv'
<1>1. /\ UNCHANGED Past /\ UNCHANGED <<stored, challenges, history>>
      /\ phase' = "generating" => phase = "generating"
      /\ Building /\ Building'
      /\ phase' \notin {"written", "recorded"}
  BY DEF Reject, LeaveUnfilled, Built, AllTried, Publish, Candidate, Past, store, build, Building
<1>2. Types' /\ HistoryHolds' /\ NothingYet' /\ PackApart' /\ PackNew'
  BY <1>1, PackKept
<1>3. StoredIsBuilt' /\ Recorded'
  BY <1>1 DEF StoredIsBuilt, Recorded
<1> QED
  BY <1>1, <1>2, <1>3, PastKept DEF IInv

LEMMA WritePackKeeps ==
  ASSUME IInv, WritePack
  PROVE  IInv'
<1>1. /\ UNCHANGED Past /\ UNCHANGED <<challenges, history>> /\ stored' = {challenges}
      /\ phase = "published" /\ phase' = "written"
  BY DEF WritePack, Past, build
<1>2. Types' /\ HistoryHolds' /\ NothingYet' /\ PackApart' /\ PackNew'
  BY <1>1, PackKept DEF Building
<1>3. StoredIsBuilt' /\ Recorded'
  BY <1>1 DEF StoredIsBuilt, Recorded
<1>4. StoredApart'
  BY <1>1, <1>2 DEF StoredApart, PackApart
<1> QED
  BY <1>1, <1>2, <1>3, <1>4, PastKept DEF IInv

(* Fingerprints that are there already are only kept longer                *)
LEMMA RecordKeeps ==
  ASSUME IInv, RecordFingerprints
  PROVE  IInv'
<1>1. /\ UNCHANGED <<launch, day, used, crashes, stored, challenges>>
      /\ phase = "written" /\ phase' = "recorded"
      /\ prints' = [p \in PrintsOf(challenges) \cup DOMAIN prints |->
                      IF p \in PrintsOf(challenges) THEN day + Lookback ELSE prints[p]]
  BY DEF RecordFingerprints, build, Lookback
<1>2. Threshold' = Threshold /\ Lookback' = Lookback /\ Durable' = Durable
  BY <1>1, SameSeason
<1>3. Lookback \in Int
  BY LookbackType DEF IInv, Types
<1>4. Types'
  BY <1>1, <1>3 DEF IInv, Types
<1>5. Recorded'
  BY <1>1, <1>2, <1>3 DEF IInv, Types, Recorded
<1>6. UsedKept'
  <2> SUFFICES ASSUME Kept, NEW d \in DOMAIN used, day - d < Lookback, NEW p \in used[d]
               PROVE  p \in DOMAIN prints' /\ (Durable => prints'[p] >= d + Lookback)
    BY <1>1, <1>2 DEF UsedKept, Kept
  <2>1. p \in DOMAIN prints /\ (Durable => prints[p] >= d + Lookback)
    BY DEF IInv, UsedKept
  <2>2. CASE p \in PrintsOf(challenges)
    BY <1>1, <1>3, <2>2 DEF IInv, Types
  <2>3. CASE p \notin PrintsOf(challenges)
    BY <1>1, <2>1, <2>3
  <2> QED
    BY <2>2, <2>3
<1>7. HistoryHolds' /\ NothingYet' /\ PackApart' /\ PackNew'
  BY <1>1, <1>2 DEF IInv, HistoryHolds, NothingYet, PackApart, PackNew, Building, Kept
<1>8. StoredApart' /\ StoredIsBuilt' /\ UsedApart'
  BY <1>1, <1>2 DEF IInv, StoredApart, StoredIsBuilt, UsedApart, Kept
<1> QED
  BY <1>4, <1>5, <1>6, <1>7, <1>8 DEF IInv

(* A round goes on with a pack that is in the fingerprints and apart from  *)
(* every recent one                                                        *)
LEMMA ReturnKeeps ==
  ASSUME IInv, Return
  PROVE  IInv'
<1>1. /\ UNCHANGED <<launch, day, prints, stored, crashes>>
      /\ phase = "recorded" /\ phase' = "done" /\ challenges' = <<>>
  BY DEF Return, store, ForgetBuild
<1>2. stored = {challenges}
  BY <1>1 DEF IInv, StoredIsBuilt
<1>3. used' = [d \in DOMAIN used \cup {day} |->
                 IF d = day THEN PrintsOf(challenges) ELSE used[d]]
  BY <1>2 DEF Return
<1>4. Threshold' = Threshold /\ Lookback' = Lookback /\ Durable' = Durable
  BY <1>1, SameSeason
<1>5. Lookback \in Int
  BY LookbackType DEF IInv, Types
<1>6. Types'
  BY <1>1, <1>3, NothingListed DEF IInv, Types
<1>7. UsedKept'
  <2> SUFFICES ASSUME Kept, NEW d \in DOMAIN used', day - d < Lookback, NEW p \in used'[d]
               PROVE  p \in DOMAIN prints /\ (Durable => prints[p] >= d + Lookback)
    BY <1>1, <1>4 DEF UsedKept, Kept
  <2>1. CASE d = day
    BY <1>1, <1>3, <2>1 DEF IInv, Recorded
  <2>2. CASE d # day
    BY <1>3, <2>2 DEF IInv, UsedKept
  <2> QED
    BY <2>1, <2>2
<1>8. UsedApart'
  <2> SUFFICES ASSUME Kept, NEW d \in DOMAIN used', NEW e \in DOMAIN used',
                      d < e, e - d < Lookback
               PROVE  Apart(used'[d], used'[e], Threshold)
    BY <1>1, <1>4 DEF UsedApart, Kept
  <2>1. d \in Int /\ e \in Int /\ e <= day /\ d # day
    BY <1>1, <1>6 DEF Types
  <2>2. CASE e = day
    <3>1. Apart(used[d], PrintsOf(challenges), Threshold)
      BY <1>1, <1>3, <2>1, <2>2 DEF IInv, PackNew, Building
    <3> QED
      BY <1>3, <2>1, <2>2, <3>1
  <2>3. CASE e # day
    BY <1>3, <2>1, <2>3 DEF IInv, UsedApart
  <2> QED
    BY <2>2, <2>3
<1>9. HistoryHolds' /\ NothingYet' /\ PackApart' /\ PackNew'
  BY <1>1, NothingListed DEF HistoryHolds, NothingYet, PackApart, PackNew, Building
<1>10. StoredApart' /\ StoredIsBuilt' /\ Recorded'
  BY <1>1, <1>4 DEF IInv, StoredApart, StoredIsBuilt, Recorded
<1> QED
  BY <1>6, <1>7, <1>8, <1>9, <1>10 DEF IInv

(* A crash loses the build; without Redis also what was to be kept         *)
LEMMA CrashKeeps ==
  ASSUME IInv, Crash
  PROVE  IInv'
<1>1. /\ UNCHANGED <<launch, day, used>> /\ crashes' = crashes + 1
      /\ phase' = "off" /\ challenges' = <<>>
      /\ stored' = (IF Durable THEN stored ELSE {})
      /\ prints' = (IF Durable THEN prints ELSE Nothing)
  BY DEF Crash, ForgetBuild
<1>2. Threshold' = Threshold /\ Lookback' = Lookback /\ Durable' = Durable
  BY <1>1, SameSeason
<1>3. Kept' => Durable /\ prints' = prints
  BY <1>1, <1>2 DEF IInv, Types, Kept
<1>4. Types'
  BY <1>1, NothingListed DEF IInv, Types, Nothing
<1>5. UsedKept' /\ UsedApart'
  BY <1>1, <1>2, <1>3 DEF IInv, UsedKept, UsedApart, Kept
<1>6. HistoryHolds' /\ NothingYet' /\ PackApart' /\ PackNew'
  BY <1>1, NothingListed DEF HistoryHolds, NothingYet, PackApart, PackNew, Building
<1>7. StoredApart' /\ StoredIsBuilt' /\ Recorded'
  BY <1>1, <1>2 DEF IInv, StoredApart, StoredIsBuilt, Recorded
<1> QED
  BY <1>4, <1>5, <1>6, <1>7 DEF IInv

(* A day passes: what runs out is older than any round that still counts   *)
LEMMA NextDayKeeps ==
  ASSUME IInv, NextDay
  PROVE  IInv'
<1>1. PICK d \in day + 1 .. MaxDay :
        /\ day' = d
        /\ prints' = [p \in {q \in DOMAIN prints : Durable => prints[q] >= d} |-> prints[p]]
        /\ used' = [k \in {e \in DOMAIN used : d - e < Lookback} |-> used[k]]
  BY DEF NextDay, Lookback
<1>2. /\ UNCHANGED <<launch, crashes, challenges>> /\ phase' = "idle" /\ stored' = {}
      /\ challenges = <<>>
  BY DEF NextDay, build, IInv, NothingYet, Building
<1>3. Threshold' = Threshold /\ Lookback' = Lookback /\ Durable' = Durable
  BY <1>2, SameSeason
<1>4. Lookback \in Int /\ d \in Int /\ d > day
  BY <1>1, LookbackType DEF IInv, Types
<1>5. Types'
  BY <1>1, <1>2, <1>4 DEF IInv, Types
<1>6. UsedKept'
  <2> SUFFICES ASSUME Kept, NEW e \in DOMAIN used, d - e < Lookback, NEW p \in used[e]
               PROVE  p \in DOMAIN prints' /\ (Durable => prints'[p] >= e + Lookback)
    BY <1>1, <1>2, <1>3 DEF UsedKept, Kept
  <2>1. e \in Int /\ day \in Int
    BY DEF IInv, Types
  <2>2. p \in DOMAIN prints /\ (Durable => prints[p] >= e + Lookback)
    BY <1>4, <2>1 DEF IInv, UsedKept
  <2>3. Durable => prints[p] >= d
    BY <1>4, <2>1, <2>2 DEF IInv, Types
  <2> QED
    BY <1>1, <2>2, <2>3
<1>7. UsedApart'
  BY <1>1, <1>2, <1>3 DEF IInv, UsedApart, Kept
<1>8. HistoryHolds' /\ NothingYet' /\ PackApart' /\ PackNew'
  BY <1>2, NothingListed DEF HistoryHolds, NothingYet, PackApart, PackNew, Building
<1>9. StoredApart' /\ StoredIsBuilt' /\ Recorded'
  BY <1>2 DEF StoredApart, StoredIsBuilt, Recorded
<1> QED
  BY <1>5, <1>6, <1>7, <1>8, <1>9 DEF IInv

LEMMA LaunchKeeps ==
  ASSUME IInv, Launch
  PROVE  IInv'
<1>1. /\ UNCHANGED Past /\ UNCHANGED <<stored, challenges, history>>
      /\ ~Building /\ ~Building'
      /\ phase \notin {"generating", "written", "recorded"}
      /\ phase' \notin {"generating", "written", "recorded"}
  BY DEF Launch, Past, store, build, Building
<1>2. Types' /\ HistoryHolds' /\ NothingYet' /\ PackApart' /\ PackNew'
  BY <1>1, PackKept
<1>3. StoredIsBuilt' /\ Recorded'
  BY <1>1 DEF StoredIsBuilt, Recorded
<1> QED
  BY <1>1, <1>2, <1>3, PastKept DEF IInv

LEMMA StutterKeeps ==
  ASSUME IInv, UNCHANGED vars
  PROVE  IInv'
<1>1. /\ UNCHANGED Past /\ UNCHANGED <<stored, challenges, history, phase>>
  BY DEF vars, Past, store, build
<1>2. Types' /\ HistoryHolds' /\ NothingYet' /\ PackApart' /\ PackNew'
  BY <1>1, PackKept DEF Building
<1>3. Durable' = Durable /\ Lookback' = Lookback
  BY <1>1, SameSeason DEF Past
<1>4. StoredIsBuilt' /\ Recorded'
  BY <1>1, <1>3 DEF IInv, StoredIsBuilt, Recorded, Past
<1> QED
  BY <1>1, <1>2, <1>4, PastKept DEF IInv

LEMMA IInvNext == IInv /\ [Next]_vars => IInv'
<1> SUFFICES ASSUME IInv, [Next]_vars PROVE IInv'
  OBVIOUS
<1>1. CASE Reject \/ LeaveUnfilled \/ Built \/ Publish
  BY <1>1, BuildStepKeeps
<1>2. CASE NotShipped \/ AnotherPackStored \/ Fail
  BY <1>2, LoseKeeps DEF NotShipped, AnotherPackStored, Fail
<1> QED
  BY <1>1, <1>2, LaunchKeeps, PlanKeeps, AcceptKeeps, WritePackKeeps, RecordKeeps, ReturnKeeps,
     CrashKeeps, NextDayKeeps, StutterKeeps DEF Next

(* No two problems alike are put in one pack, nor given out by two rounds  *)
(* less than the lookback apart: neither after a crash, nor when a round   *)
(* was lost half way, nor when the store lets a fingerprint go the day it  *)
(* may.                                                                    *)
THEOREM ProblemsAreNew == Spec => []NoRepeats
<1>1. Spec => []IInv
  BY IInvInit, IInvNext, PTL DEF Spec
<1>2. IInv => NoRepeats
  BY DEF IInv, StoredApart, UsedApart, AllApart, Apart, Kept, NoRepeats, Threshold, Lookback
<1> QED
  BY <1>1, <1>2, PTL

-----------------------------------------------------------------------------
(* What starts never fails a day *)

(* A set of indices has a largest                                          *)
LEMMA LargestIndex ==
  ASSUME NEW n \in Nat, NEW T \in SUBSET (1 .. n), T # {}
  PROVE  Max(T) \in T
<1>1. PICK R : IsWellFoundedOn(R, Nat) /\ \A x, y \in Nat : x < y => <<x, y>> \in R
  <2> DEFINE less == {ss \in Nat \X Nat : ss[1] < ss[2]}
  <2>1. IsWellFoundedOn(less, Nat)
    BY NatLessThanWellFounded, Zenon DEF OpToRel
  <2>2. \A x, y \in Nat : x < y => <<x, y>> \in less
    OBVIOUS
  <2> HIDE DEF less
  <2> QED
    BY <2>1, <2>2
<1> DEFINE U == {n - i : i \in T}
<1>2. U \subseteq Nat /\ U # {}
  <2>1. \A i \in T : n - i \in Nat
    OBVIOUS
  <2> QED
    BY <2>1, Zenon
<1>3. PICK u \in U : \A v \in U : ~(<<v, u>> \in R)
  <2> HIDE DEF U
  <2>1. IsWellFoundedOn(R, Nat)
    BY <1>1
  <2> QED
    BY <2>1, <1>2, WFMin, Zenon
<1>4. PICK m \in T : u = n - m
  OBVIOUS
<1>5. \A i \in T : m >= i
  <2> TAKE i \in T
  <2>1. n - i \in U /\ n - i \in Nat /\ u \in Nat
    BY <1>2
  <2>2. ~(n - i < u)
    BY <1>1, <1>3, <2>1
  <2> QED
    BY <1>4, <2>2
<1> QED
  BY <1>5, Zenon DEF Max

(* In a season that starts every generator has a slot                      *)
LEMMA EveryGeneratorDealt ==
  ASSUME NEW s, NEW a, Starts(s, a),
         s.challenge_generation.generators \in Seq(Generators(s))
  PROVE  /\ Planned(s) /\ FamilyPool(s) = DeclaredSlots(s)
         /\ a.probe \/ s.challenge_generation.allow_unprobed_packs
         /\ SumFunction(FamilyPool(s)) \in Nat
         /\ DOMAIN DeclaredSlots(s) = GeneratorFamilies(s)
         /\ \A family \in GeneratorFamilies(s) : DeclaredSlots(s)[family] >= 1
<1> DEFINE all == s.challenge_generation.generators
<1>1. Validates(s, a) /\ ParsesSeason(s)
  BY DEF Starts
<1>2. SumFunction(FamilyPool(s)) \in Nat
  <2>1. s.taxonomy.challenges_per_day \in 1 .. 64
    BY <1>1 DEF ParsesSeason, ParsesTaxonomy
  <2>2. SumFunction(FamilyPool(s)) = s.taxonomy.challenges_per_day
    BY <1>1, Zenon DEF Validates, Planned
  <2>3. \A k \in 1 .. 64 : k \in Nat
    OBVIOUS
  <2> QED
    BY <2>1, <2>2, <2>3, Zenon
<1>3. \A g \in Generators(s) : g.slots >= 1
  BY <1>1 DEF ParsesSeason, ParsesGeneration, ParsesGenerator, Positive, Generators
<1>4. ASSUME NEW family \in GeneratorFamilies(s)
      PROVE  DeclaredSlots(s)[family] >= 1
  <2> DEFINE own == {i \in DOMAIN all : all[i].family = family}
  <2>1. Len(all) \in Nat /\ DOMAIN all = 1 .. Len(all)
    OBVIOUS
  <2>2. PICK g \in Generators(s) : g.family = family
    BY DEF GeneratorFamilies
  <2>3. \E i \in DOMAIN all : all[i] = g
    BY DEF Generators, Range
  <2>4. own # {} /\ own \in SUBSET (1 .. Len(all))
    BY <2>1, <2>2, <2>3
  <2>5. Max(own) \in own
    <3> HIDE DEF own
    <3> QED
      BY <2>1, <2>4, LargestIndex
  <2>6. GeneratorOf(s, family) \in Generators(s)
    BY <2>5 DEF GeneratorOf, Generators, Range
  <2> QED
    BY <1>3, <2>6 DEF DeclaredSlots
<1> QED
  BY <1>1, <1>2, <1>4 DEF Validates, DeclaredSlots

Started == phase \notin {"off", "refused"} => launch \in DOMAIN Launches /\ Starts(season, args)

(* Every slot belongs to a generator, in the numbers the pool holds        *)
SlotsDealt ==
  phase = "generating" =>
    \E n \in Nat :
      /\ DOMAIN slots = 1 .. n /\ Len(slots) = n
      /\ n = SumFunction(FamilyPool(season))
      /\ [i \in 1 .. n |-> slots[i].family] \in Deals(FamilyPool(season))

(* Until a slot is left unfilled each problem is in the place of its slot  *)
InPlace ==
  phase = "generating" =>
    /\ unfilled \in Nat
    /\ challenges \in Seq(Range(challenges))
    /\ Len(challenges) + unfilled <= Len(slots)
    /\ unfilled = 0 => \A i \in DOMAIN challenges : challenges[i].family = slots[i].family

Blank == ~Building => challenges = <<>> /\ unfilled = 0

SInv ==
  /\ launch \in DOMAIN Launches
  /\ Started /\ SlotsDealt /\ InPlace /\ Blank
  /\ SeasonNeverFailsADay

LEMMA SInvInit == Init => SInv
  BY DEF Init, NothingBuilt, SInv, Started, SlotsDealt, InPlace, Blank, SeasonNeverFailsADay

(* What is known of the season a day is planned in                         *)
LEMMA StartedSeason ==
  ASSUME SInv, phase \notin {"off", "refused"}
  PROVE  /\ Planned(season) /\ FamilyPool(season) = DeclaredSlots(season) /\ Probed
         /\ SumFunction(FamilyPool(season)) \in Nat
         /\ DOMAIN DeclaredSlots(season) = GeneratorFamilies(season)
         /\ \A family \in GeneratorFamilies(season) : DeclaredSlots(season)[family] >= 1
<1>1. Starts(season, args) /\ launch \in DOMAIN Launches
  BY DEF SInv, Started
<1>2. season.challenge_generation.generators \in Seq(Generators(season))
  BY <1>1, FactoryAssumption, Zenon DEF season, Generators
<1>3. args.probe \/ season.challenge_generation.allow_unprobed_packs
  BY <1>1, <1>2, EveryGeneratorDealt, Zenon
<1> QED
  BY <1>1, <1>2, <1>3, EveryGeneratorDealt, Zenon DEF Probed, Generation

(* A pack in which every slot was filled counts as the season declares     *)
LEMMA CountsAreDeclared ==
  ASSUME SInv, AllTried, unfilled = 0
  PROVE  PerGenerator(challenges) = DeclaredSlots(season)
<1>1. PICK n \in Nat :
        /\ DOMAIN slots = 1 .. n /\ Len(slots) = n
        /\ n = SumFunction(FamilyPool(season))
        /\ [i \in 1 .. n |-> slots[i].family] \in Deals(FamilyPool(season))
  BY Zenon DEF SInv, SlotsDealt, AllTried
<1> DEFINE deal == [i \in 1 .. n |-> slots[i].family]
<1>2. /\ DOMAIN challenges = 1 .. n
      /\ \A i \in 1 .. n : challenges[i].family = deal[i]
  <2>1. /\ challenges \in Seq(Range(challenges)) /\ Len(challenges) <= n
        /\ Len(challenges) + 1 > n
        /\ \A i \in DOMAIN challenges : challenges[i].family = slots[i].family
    BY <1>1 DEF SInv, InPlace, AllTried, At
  <2>2. Len(challenges) = n /\ DOMAIN challenges = 1 .. Len(challenges)
    BY <2>1
  <2> QED
    BY <2>1, <2>2
<1>3. /\ deal \in [1 .. n -> GeneratorFamilies(season)]
      /\ \A family \in GeneratorFamilies(season) :
           Cardinality({i \in 1 .. n : deal[i] = family}) = DeclaredSlots(season)[family]
  <2> HIDE DEF deal
  <2>1. /\ FamilyPool(season) = DeclaredSlots(season)
        /\ DOMAIN DeclaredSlots(season) = GeneratorFamilies(season)
    BY StartedSeason DEF AllTried
  <2>2. /\ deal \in [1 .. n -> DOMAIN FamilyPool(season)]
        /\ \A family \in DOMAIN FamilyPool(season) :
             Cardinality({i \in DOMAIN deal : deal[i] = family}) = FamilyPool(season)[family]
    BY <1>1, Zenon DEF Deals, deal
  <2>3. DOMAIN deal = 1 .. n
    BY <2>2
  <2> QED
    BY <2>1, <2>2, <2>3, Zenon
<1>4. \A family :
        {i \in DOMAIN challenges : challenges[i].family = family} = {i \in 1 .. n : deal[i] = family}
  <2> HIDE DEF deal
  <2> QED
    BY <1>2
<1> HIDE DEF deal
<1>5. \A family \in GeneratorFamilies(season) : \E i \in 1 .. n : deal[i] = family
  <2> SUFFICES ASSUME NEW family \in GeneratorFamilies(season),
                      {i \in 1 .. n : deal[i] = family} = {}
               PROVE  FALSE
    OBVIOUS
  <2>1. Cardinality({i \in 1 .. n : deal[i] = family}) = 0
    BY FS_EmptySet, Zenon
  <2>2. DeclaredSlots(season)[family] >= 1
    BY StartedSeason DEF AllTried
  <2>3. DeclaredSlots(season)[family] = 0
    BY <1>3, <2>1, Zenon
  <2> QED
    BY <2>2, <2>3
<1>6. {c.family : c \in Range(challenges)} = GeneratorFamilies(season)
  BY <1>2, <1>3, <1>5 DEF Range
<1>7. PerGenerator(challenges) =
        [family \in GeneratorFamilies(season) |-> DeclaredSlots(season)[family]]
  BY <1>3, <1>4, <1>6, Zenon DEF PerGenerator
<1>8. DeclaredSlots(season) =
        [family \in GeneratorFamilies(season) |-> DeclaredSlots(season)[family]]
  BY Zenon DEF DeclaredSlots
<1> QED
  BY <1>7, <1>8, Zenon

LEMMA SameStart ==
  ASSUME UNCHANGED launch
  PROVE  season' = season /\ args' = args
  BY DEF season, args

(* Outside the build only the phase and the reason can matter              *)
LEMMA ElsewhereKeeps ==
  ASSUME SInv, UNCHANGED launch, phase' # "generating",
         phase \notin {"off", "refused"} \/ phase' \in {"off", "refused"},
         Building' \/ (challenges' = <<>> /\ unfilled' = 0),
         why' \notin {"plan", "counts", "unprobed"}
  PROVE  SInv'
  BY SameStart DEF SInv, Started, SlotsDealt, InPlace, Blank, SeasonNeverFailsADay

LEMMA SPlanKeeps ==
  ASSUME SInv, Plan
  PROVE  SInv'
<1>1. PICK families \in Deals(FamilyPool(season)) :
        \E domains \in Deals(season.taxonomy.stratification) :
          slots' = [i \in DOMAIN families |->
                      [domain |-> domains[i], family |-> families[i],
                       critic |-> CriticFamilies(season)[families[i]]]]
  BY Zenon DEF Plan
<1>2. /\ UNCHANGED <<launch, why>> /\ phase = "idle" /\ phase' = "generating"
      /\ challenges' = challenges /\ unfilled' = unfilled
  BY DEF Plan
<1>3. season' = season /\ args' = args
  BY <1>2, SameStart
<1>4. PICK n \in Nat : n = SumFunction(FamilyPool(season))
  BY <1>2, StartedSeason, Zenon
<1>5. families \in [1 .. n -> DOMAIN FamilyPool(season)]
  BY <1>1, <1>4, Zenon DEF Deals
<1>6. /\ DOMAIN slots' = 1 .. n
      /\ \A i \in 1 .. n : slots'[i].family = families[i]
  BY <1>1, <1>5
<1>7. Len(slots') = n
  <2>1. slots' = [i \in 1 .. n |-> slots'[i]]
    BY <1>1, <1>5
  <2> QED
    BY <2>1
<1>8. [i \in 1 .. n |-> slots'[i].family] = families
  BY <1>5, <1>6
<1>9. SlotsDealt'
  <2>1. n = SumFunction(FamilyPool(season'))
    BY <1>3, <1>4, Zenon
  <2>2. [i \in 1 .. n |-> slots'[i].family] \in Deals(FamilyPool(season'))
    BY <1>1, <1>3, <1>8, Zenon
  <2> QED
    BY <1>6, <1>7, <2>1, <2>2, Zenon DEF SlotsDealt
<1>10. challenges' = <<>> /\ unfilled' = 0
  BY <1>2 DEF SInv, Blank, Building
<1>11. InPlace' /\ Blank'
  BY <1>2, <1>7, <1>10, NothingListed DEF InPlace, Blank, Building
<1>12. Started' /\ SeasonNeverFailsADay'
  BY <1>2, <1>3 DEF SInv, Started, SeasonNeverFailsADay
<1> QED
  BY <1>2, <1>9, <1>11, <1>12 DEF SInv

(* While slots are filled the plan stays, and so does the start            *)
LEMMA FillingKeeps ==
  ASSUME SInv, Candidate \/ (phase = "generating" /\ At <= Len(slots)),
         UNCHANGED <<launch, phase, why, slots>>
  PROVE  Started' /\ SlotsDealt' /\ Blank' /\ SeasonNeverFailsADay' /\ launch' \in DOMAIN Launches
<1>1. season' = season /\ args' = args
  BY SameStart
<1>2. phase = "generating" /\ phase' = "generating"
  BY DEF Candidate
<1> QED
  BY <1>1, <1>2 DEF SInv, Started, SlotsDealt, Blank, Building, SeasonNeverFailsADay

LEMMA SAcceptKeeps ==
  ASSUME SInv, Accept
  PROVE  SInv'
<1>1. PICK text \in DOMAIN Content : challenges' = Append(challenges, AsBody(text))
  BY DEF Accept
<1> DEFINE new == AsBody(text)
<1>2. /\ phase = "generating" /\ At <= Len(slots)
      /\ UNCHANGED <<launch, phase, why, slots, unfilled>>
  BY DEF Accept, Candidate
<1>3. new.family = slots[Len(challenges) + unfilled + 1].family
  BY DEF AsBody, Slot, At
<1>4. /\ unfilled \in Nat /\ challenges \in Seq(Range(challenges))
      /\ unfilled = 0 => \A i \in DOMAIN challenges : challenges[i].family = slots[i].family
  BY <1>2 DEF SInv, InPlace
<1>5. Len(challenges) + unfilled + 1 <= Len(slots)
  BY <1>2 DEF At
<1> HIDE DEF new
<1>6. /\ challenges' \in Seq(Range(challenges'))
      /\ DOMAIN challenges' = (DOMAIN challenges) \cup {Len(challenges) + 1}
      /\ \A i \in DOMAIN challenges : challenges'[i] = challenges[i]
      /\ challenges'[Len(challenges) + 1] = new
      /\ Len(challenges') = Len(challenges) + 1 /\ Len(challenges) \in Nat
  BY <1>1, <1>4, Appended DEF new
<1>7. unfilled = 0 => \A i \in DOMAIN challenges' : challenges'[i].family = slots[i].family
  BY <1>3, <1>4, <1>6
<1>8. \E n \in Nat : Len(slots) = n
  BY <1>2, Zenon DEF SInv, SlotsDealt
<1>9. InPlace'
  BY <1>2, <1>4, <1>5, <1>6, <1>7, <1>8 DEF InPlace
<1> QED
  BY <1>2, <1>9, FillingKeeps DEF SInv

LEMMA SRejectKeeps ==
  ASSUME SInv, Reject
  PROVE  SInv'
<1>1. /\ Candidate /\ UNCHANGED <<launch, phase, why, slots, unfilled, challenges>>
  BY DEF Reject
<1>2. InPlace'
  BY <1>1 DEF SInv, InPlace
<1> QED
  BY <1>1, <1>2, FillingKeeps DEF SInv

LEMMA SLeaveUnfilledKeeps ==
  ASSUME SInv, LeaveUnfilled
  PROVE  SInv'
<1>1. /\ phase = "generating" /\ At <= Len(slots) /\ unfilled' = unfilled + 1
      /\ UNCHANGED <<launch, phase, why, slots, challenges>>
  BY DEF LeaveUnfilled
<1>2. \E n \in Nat : Len(slots) = n
  BY <1>1, Zenon DEF SInv, SlotsDealt
<1>3. Len(challenges) \in Nat
  BY <1>1 DEF SInv, InPlace
<1>4. InPlace'
  BY <1>1, <1>2, <1>3 DEF SInv, InPlace, At
<1> QED
  BY <1>1, <1>4, FillingKeeps DEF SInv

(* Neither the counts, nor the plan, nor the probe is ever the reason      *)
LEMMA SLosesKeep ==
  ASSUME SInv, NotShipped \/ AnotherPackStored \/ Fail
  PROVE  SInv'
<1>1. PICK reason : Lose(reason) /\ reason \notin {"plan", "counts", "unprobed"}
  <2>1. CASE NotShipped
    <3>1. unfilled > 0 \/ (unfilled = 0 /\ FALSE)
      <4>1. unfilled \in Nat
        BY <2>1 DEF NotShipped, AllTried, SInv, InPlace
      <4>2. unfilled # 0
        BY <2>1, CountsAreDeclared, <4>1 DEF NotShipped
      <4> QED
        BY <4>1, <4>2
    <3> QED
      BY <2>1, <3>1 DEF NotShipped
  <2>2. CASE AnotherPackStored
    <3>1. Lose("another pack")
      BY <2>2, Zenon DEF AnotherPackStored
    <3>2. "another pack" \notin {"plan", "counts", "unprobed"}
      OBVIOUS
    <3> QED
      BY <3>1, <3>2, Zenon
  <2>3. CASE Fail
    <3>1. Planned(season) /\ Probed
      BY <2>3, StartedSeason DEF Fail
    <3>2. Lose("failure")
      BY <2>3, <3>1, Zenon DEF Fail
    <3> QED
      BY <3>2
  <2> QED
    BY <2>1, <2>2, <2>3
<1>2. /\ UNCHANGED launch /\ phase' = "lost" /\ why' = reason
      /\ challenges' = <<>> /\ unfilled' = 0
  BY <1>1 DEF Lose, ForgetBuild
<1>3. phase \notin {"off", "refused"}
  BY DEF NotShipped, AllTried, AnotherPackStored, Fail
<1> QED
  BY <1>1, <1>2, <1>3, ElsewhereKeeps

LEMMA SRestKeeps ==
  ASSUME SInv, Built \/ Publish \/ WritePack \/ RecordFingerprints \/ Return \/ Crash \/ NextDay
  PROVE  SInv'
<1>1. why' \notin {"plan", "counts", "unprobed"}
  BY DEF SInv, SeasonNeverFailsADay, Built, Publish, WritePack, RecordFingerprints, Return,
         Crash, NextDay
<1>2. /\ UNCHANGED launch /\ phase' # "generating" /\ phase \notin {"off", "refused"}
      /\ Building' \/ (challenges' = <<>> /\ unfilled' = 0)
  BY DEF SInv, Blank, Built, AllTried, Publish, WritePack, RecordFingerprints, Return, Crash,
         NextDay, ForgetBuild, Building, build
<1> QED
  BY <1>1, <1>2, ElsewhereKeeps

LEMMA SLaunchKeeps ==
  ASSUME SInv, Launch
  PROVE  SInv'
<1>1. /\ UNCHANGED <<launch, why, challenges, unfilled>> /\ phase = "off"
      /\ phase' \in {"refused", "lost", "idle"}
      /\ phase' # "refused" => Starts(season, args)
  BY Zenon DEF Launch, build
<1>2. season' = season /\ args' = args
  BY <1>1, SameStart
<1>3. Started'
  BY <1>1, <1>2, Zenon DEF SInv, Started
<1>4. SlotsDealt' /\ InPlace' /\ Blank' /\ SeasonNeverFailsADay'
  BY <1>1 DEF SInv, SlotsDealt, InPlace, Blank, Building, SeasonNeverFailsADay
<1> QED
  BY <1>1, <1>3, <1>4 DEF SInv

LEMMA SInvNext == SInv /\ [Next]_vars => SInv'
<1> SUFFICES ASSUME SInv, [Next]_vars PROVE SInv'
  OBVIOUS
<1>1. CASE NotShipped \/ AnotherPackStored \/ Fail
  BY <1>1, SLosesKeep
<1>2. CASE Built \/ Publish \/ WritePack \/ RecordFingerprints \/ Return \/ Crash \/ NextDay
  BY <1>2, SRestKeeps
<1>3. CASE UNCHANGED vars
  <2>1. season' = season /\ args' = args
    BY <1>3, SameStart DEF vars
  <2> QED
    BY <1>3, <2>1
       DEF vars, build, SInv, Started, SlotsDealt, InPlace, Blank, Building, SeasonNeverFailsADay
<1> QED
  BY <1>1, <1>2, <1>3, SLaunchKeeps, SPlanKeeps, SAcceptKeeps, SRejectKeeps, SLeaveUnfilledKeeps
     DEF Next

(* A validator that started never loses a round to its season: whatever    *)
(* the plan, the counts of the finished pack or the missing probe could    *)
(* refuse, the start has refused, for every season there can be.           *)
THEOREM StartedSeasonsHold == Spec => []SeasonNeverFailsADay
<1>1. Spec => []SInv
  BY SInvInit, SInvNext, PTL DEF Spec
<1> QED
  BY <1>1, PTL DEF SInv

-----------------------------------------------------------------------------
(* The stored pack is as declared: SInv has the counts of the generators;  *)
(* here are the domains, the critics and the filters.                      *)

AsDeclared(pack) ==
  /\ Len(pack) = season.taxonomy.challenges_per_day
  /\ \A d \in DOMAIN season.taxonomy.stratification :
       Cardinality({i \in DOMAIN pack : pack[i].domain = d}) = season.taxonomy.stratification[d]
  /\ PerGenerator(pack) = DeclaredSlots(season)
  /\ \A i \in DOMAIN pack :
       /\ pack[i].critic = CriticFamilies(season)[pack[i].family]
       /\ <<launch, pack[i].text, pack[i].domain>> \in Sound
  /\ Probed

(* The plan deals the domains and gives every slot its critic              *)
SlotsPlanned ==
  phase = "generating" =>
    /\ [i \in 1 .. Len(slots) |-> slots[i].domain] \in Deals(season.taxonomy.stratification)
    /\ \A i \in 1 .. Len(slots) : slots[i].critic = CriticFamilies(season)[slots[i].family]

(* What was accepted passed the filters as a problem of its slot           *)
Filtered ==
  phase = "generating" =>
    /\ \A i \in DOMAIN challenges :
         /\ challenges[i].critic = CriticFamilies(season)[challenges[i].family]
         /\ <<launch, challenges[i].text, challenges[i].domain>> \in Sound
    /\ unfilled = 0 => \A i \in DOMAIN challenges : challenges[i].domain = slots[i].domain

FinishedAsDeclared ==
  phase \in {"built", "published", "written", "recorded"} => AsDeclared(challenges)

OnChain == phase = "published" => challenges \in published

PInv == SInv /\ SlotsPlanned /\ Filtered /\ FinishedAsDeclared /\ OnChain /\ StoredPackAsDeclared

LEMMA PInvInit == Init => PInv
<1> SUFFICES ASSUME Init PROVE PInv
  OBVIOUS
<1>1. phase = "off" /\ stored = {}
  BY DEF Init
<1> QED
  BY <1>1, SInvInit
     DEF PInv, SlotsPlanned, Filtered, FinishedAsDeclared, OnChain, StoredPackAsDeclared

StoredAsDeclared == \A pack \in stored : pack \in published /\ AsDeclared(pack)

LEMMA StoredInParts == StoredPackAsDeclared <=> StoredAsDeclared
  BY Zenon DEF StoredPackAsDeclared, StoredAsDeclared, AsDeclared

LEMMA SameDeclared ==
  ASSUME UNCHANGED launch, NEW pack
  PROVE  AsDeclared(pack)' <=> AsDeclared(pack)
<1>1. season' = season /\ args' = args
  BY SameStart
<1>2. Probed' <=> Probed
  BY <1>1 DEF Probed, Generation
<1> QED
  BY <1>1, <1>2, Zenon DEF AsDeclared, PerGenerator

(* A season that starts has as many domain slots as generator slots        *)
LEMMA PoolsMatch ==
  ASSUME SInv, phase \notin {"off", "refused"}
  PROVE  /\ SumFunction(season.taxonomy.stratification) = season.taxonomy.challenges_per_day
         /\ SumFunction(FamilyPool(season)) = season.taxonomy.challenges_per_day
<1>1. Starts(season, args)
  BY DEF SInv, Started
<1> QED
  BY <1>1, Zenon DEF Starts, Builds, ValidTaxonomy, Validates, Planned

(* With every slot tried and none left unfilled, each holds its problem    *)
LEMMA AllPlaced ==
  ASSUME SInv, AllTried, unfilled = 0
  PROVE  /\ Len(challenges) = Len(slots)
         /\ DOMAIN challenges = 1 .. Len(slots)
         /\ Len(slots) = SumFunction(FamilyPool(season))
<1>1. PICK n \in Nat : Len(slots) = n /\ n = SumFunction(FamilyPool(season))
  BY Zenon DEF SInv, SlotsDealt, AllTried
<1>2. /\ challenges \in Seq(Range(challenges)) /\ Len(challenges) <= n
      /\ Len(challenges) + 1 > n
  BY <1>1 DEF SInv, InPlace, AllTried, At
<1>3. Len(challenges) = n /\ DOMAIN challenges = 1 .. n
  BY <1>2
<1> QED
  BY <1>1, <1>3, Zenon

LEMMA BuiltIsDeclared ==
  ASSUME PInv, Built
  PROVE  AsDeclared(challenges)
<1>1. /\ SInv /\ AllTried /\ unfilled = 0
      /\ PerGenerator(challenges) = DeclaredSlots(season)
  BY DEF PInv, Built
<1>2. /\ Len(challenges) = Len(slots) /\ DOMAIN challenges = 1 .. Len(slots)
      /\ Len(slots) = SumFunction(FamilyPool(season))
  BY <1>1, AllPlaced, Zenon
<1>3. phase = "generating"
  BY <1>1 DEF AllTried
<1>4. Len(challenges) = season.taxonomy.challenges_per_day
  BY <1>1, <1>2, <1>3, PoolsMatch, Zenon
<1> DEFINE strat == season.taxonomy.stratification
           deal  == [i \in 1 .. Len(slots) |-> slots[i].domain]
<1>5. \A i \in 1 .. Len(slots) : challenges[i].domain = deal[i]
  BY <1>1, <1>2, <1>3 DEF PInv, Filtered
<1>6. /\ DOMAIN deal = 1 .. Len(slots)
      /\ deal \in Deals(strat)
  BY <1>3 DEF PInv, SlotsPlanned
<1> HIDE DEF deal
<1>7. \A d \in DOMAIN strat : Cardinality({i \in DOMAIN deal : deal[i] = d}) = strat[d]
  BY <1>6, Zenon DEF Deals
<1>8. \A d : {i \in DOMAIN challenges : challenges[i].domain = d} = {i \in DOMAIN deal : deal[i] = d}
  BY <1>2, <1>5, <1>6
<1>9. \A d \in DOMAIN strat :
        Cardinality({i \in DOMAIN challenges : challenges[i].domain = d}) = strat[d]
  BY <1>7, <1>8, Zenon
<1>10. \A i \in DOMAIN challenges :
         /\ challenges[i].critic = CriticFamilies(season)[challenges[i].family]
         /\ <<launch, challenges[i].text, challenges[i].domain>> \in Sound
  BY <1>3, Zenon DEF PInv, Filtered
<1>11. Probed
  BY <1>1, <1>3, StartedSeason
<1> QED
  BY <1>1, <1>4, <1>9, <1>10, <1>11, Zenon DEF AsDeclared

-----------------------------------------------------------------------------
(* The store and the chain's record of it stay, and the build is not under *)
(* way: nothing else can matter                                            *)
LEMMA IdleKeeps ==
  ASSUME PInv, SInv', UNCHANGED <<launch, published, stored>>,
         phase' \notin {"generating", "built", "published", "written", "recorded"}
  PROVE  PInv'
<1>1. StoredAsDeclared
  BY StoredInParts DEF PInv
<1>2. StoredAsDeclared'
  BY <1>1, SameDeclared, Zenon DEF StoredAsDeclared
<1>3. StoredPackAsDeclared'
  BY <1>2, StoredInParts, PTL
<1> QED
  BY <1>3 DEF PInv, SlotsPlanned, Filtered, FinishedAsDeclared, OnChain

(* While slots are filled neither the plan nor the store changes           *)
LEMMA FillingKeepsPlan ==
  ASSUME PInv, phase = "generating", UNCHANGED <<launch, phase, slots, published, stored>>
  PROVE  SlotsPlanned' /\ FinishedAsDeclared' /\ OnChain' /\ StoredPackAsDeclared'
<1>1. StoredAsDeclared
  BY StoredInParts DEF PInv
<1>2. StoredAsDeclared'
  BY <1>1, SameDeclared, Zenon DEF StoredAsDeclared
<1>3. StoredPackAsDeclared'
  BY <1>2, StoredInParts, PTL
<1>4. season' = season
  BY SameStart
<1> QED
  BY <1>3, <1>4 DEF PInv, SlotsPlanned, FinishedAsDeclared, OnChain

LEMMA PPlanKeeps ==
  ASSUME PInv, Plan, SInv'
  PROVE  PInv'
<1>1. PICK families \in Deals(FamilyPool(season)), domains \in Deals(season.taxonomy.stratification) :
        slots' = [i \in DOMAIN families |->
                    [domain |-> domains[i], family |-> families[i],
                     critic |-> CriticFamilies(season)[families[i]]]]
  BY Zenon DEF Plan
<1>2. /\ UNCHANGED <<launch, published, stored>> /\ phase = "idle" /\ phase' = "generating"
      /\ UNCHANGED challenges
  BY DEF Plan, store
<1>3. season' = season
  BY <1>2, SameStart
<1>4. PICK n \in Nat : /\ n = SumFunction(FamilyPool(season))
                       /\ n = SumFunction(season.taxonomy.stratification)
  BY <1>2, PoolsMatch, StartedSeason, Zenon DEF PInv
<1>5. /\ families \in [1 .. n -> DOMAIN FamilyPool(season)]
      /\ domains \in [1 .. n -> DOMAIN season.taxonomy.stratification]
  BY <1>1, <1>4, Zenon DEF Deals
<1>6. /\ slots' = [i \in 1 .. n |-> slots'[i]]
      /\ \A i \in 1 .. n : /\ slots'[i].family = families[i] /\ slots'[i].domain = domains[i]
                           /\ slots'[i].critic = CriticFamilies(season)[families[i]]
  BY <1>1, <1>5
<1>7. Len(slots') = n
  BY <1>6
<1>8. [i \in 1 .. Len(slots') |-> slots'[i].domain] = domains
  BY <1>5, <1>6, <1>7
<1>9. SlotsPlanned'
  <2>1. [i \in 1 .. Len(slots') |-> slots'[i].domain] \in Deals(season'.taxonomy.stratification)
    BY <1>1, <1>3, <1>8, Zenon
  <2>2. \A i \in 1 .. Len(slots') : slots'[i].critic = CriticFamilies(season')[slots'[i].family]
    BY <1>3, <1>6, <1>7
  <2> QED
    BY <2>1, <2>2, Zenon DEF SlotsPlanned
<1>10. Filtered'
  <2>1. challenges' = <<>>
    BY <1>2 DEF PInv, SInv, Blank, Building
  <2> QED
    BY <2>1, NothingListed DEF Filtered
<1>11. StoredAsDeclared'
  <2>1. StoredAsDeclared
    BY StoredInParts DEF PInv
  <2> QED
    BY <1>2, <2>1, SameDeclared, Zenon DEF StoredAsDeclared
<1>12. StoredPackAsDeclared'
  BY <1>11, StoredInParts, PTL
<1> QED
  BY <1>2, <1>9, <1>10, <1>12 DEF PInv, FinishedAsDeclared, OnChain

LEMMA PAcceptKeeps ==
  ASSUME PInv, Accept, SInv'
  PROVE  PInv'
<1>1. PICK text \in DOMAIN Content :
        Passes(AsBody(text)) /\ challenges' = Append(challenges, AsBody(text))
  BY DEF Accept
<1> DEFINE new == AsBody(text)
<1>2. /\ phase = "generating" /\ At <= Len(slots)
      /\ UNCHANGED <<launch, phase, slots, unfilled, published, stored>>
  BY DEF Accept, Candidate, store
<1>3. season' = season
  BY <1>2, SameStart
<1>4. /\ challenges \in Seq(Range(challenges)) /\ unfilled \in Nat
      /\ \E n \in Nat : Len(slots) = n
  BY <1>2 DEF PInv, SInv, InPlace, SlotsDealt
<1>5. At = Len(challenges) + unfilled + 1 /\ At \in 1 .. Len(slots)
  BY <1>2, <1>4 DEF At
<1>6. /\ new.critic = slots[At].critic /\ new.family = slots[At].family
      /\ new.domain = slots[At].domain
  BY DEF AsBody, Slot
<1>7. new.critic = CriticFamilies(season)[new.family]
  BY <1>2, <1>5, <1>6 DEF PInv, SlotsPlanned
<1>8. <<launch, new.text, new.domain>> \in Sound
  BY <1>1 DEF Passes
<1> HIDE DEF new
<1>9. /\ DOMAIN challenges' = (DOMAIN challenges) \cup {Len(challenges) + 1}
      /\ \A i \in DOMAIN challenges : challenges'[i] = challenges[i]
      /\ challenges'[Len(challenges) + 1] = new
  BY <1>1, <1>4, Appended DEF new
<1>10. \A i \in DOMAIN challenges' :
         /\ challenges'[i].critic = CriticFamilies(season)[challenges'[i].family]
         /\ <<launch, challenges'[i].text, challenges'[i].domain>> \in Sound
  BY <1>2, <1>7, <1>8, <1>9, Zenon DEF PInv, Filtered
<1>11. unfilled = 0 => \A i \in DOMAIN challenges' : challenges'[i].domain = slots[i].domain
  <2> SUFFICES ASSUME unfilled = 0, NEW i \in DOMAIN challenges'
               PROVE  challenges'[i].domain = slots[i].domain
    OBVIOUS
  <2>1. CASE i = Len(challenges) + 1
    <3>1. At = i
      BY <1>4, <1>5, <2>1
    <3> QED
      BY <1>6, <1>9, <2>1, <3>1
  <2>2. CASE i \in DOMAIN challenges
    BY <1>2, <1>9, <2>2 DEF PInv, Filtered
  <2> QED
    BY <1>9, <2>1, <2>2
<1>12. Filtered'
  BY <1>2, <1>3, <1>10, <1>11, Zenon DEF Filtered
<1> QED
  BY <1>2, <1>12, FillingKeepsPlan DEF PInv

LEMMA PFillKeeps ==
  ASSUME PInv, Reject \/ LeaveUnfilled, SInv'
  PROVE  PInv'
<1>1. /\ phase = "generating"
      /\ UNCHANGED <<launch, phase, slots, challenges, published, stored>>
      /\ unfilled' \in {unfilled, unfilled + 1}
  BY DEF Reject, LeaveUnfilled, Candidate, store
<1>2. season' = season
  BY <1>1, SameStart
<1>3. unfilled \in Nat
  BY <1>1 DEF PInv, SInv, InPlace
<1>4. unfilled' = 0 => unfilled = 0
  BY <1>1, <1>3
<1>5. Filtered'
  BY <1>1, <1>2, <1>4 DEF PInv, Filtered
<1> QED
  BY <1>1, <1>5, FillingKeepsPlan DEF PInv

(* A finished pack is published and then stored as it is                   *)
LEMMA PCommitKeeps ==
  ASSUME PInv, Built \/ Publish \/ WritePack \/ RecordFingerprints, SInv'
  PROVE  PInv'
<1>1. /\ UNCHANGED <<launch, challenges>> /\ phase' \in {"built", "published", "written", "recorded"}
      /\ published \subseteq published'
  BY DEF Built, Publish, WritePack, RecordFingerprints, build, store
<1>2. AsDeclared(challenges)
  BY BuiltIsDeclared DEF PInv, FinishedAsDeclared, Publish, WritePack, RecordFingerprints
<1>3. FinishedAsDeclared'
  BY <1>1, <1>2, SameDeclared, Zenon DEF FinishedAsDeclared
<1>4. OnChain'
  BY <1>1 DEF PInv, OnChain, Built, Publish, WritePack, RecordFingerprints
<1>5. stored' \subseteq stored \/ (stored' = {challenges} /\ challenges \in published)
  BY DEF PInv, OnChain, Built, Publish, WritePack, RecordFingerprints, store
<1>6. StoredAsDeclared
  BY StoredInParts DEF PInv
<1>7. \A pack \in stored' : pack \in published' /\ AsDeclared(pack)
  BY <1>1, <1>2, <1>5, <1>6 DEF StoredAsDeclared
<1>8. StoredAsDeclared'
  BY <1>1, <1>7, SameDeclared, Zenon DEF StoredAsDeclared
<1>9. StoredPackAsDeclared'
  BY <1>8, StoredInParts, PTL
<1>10. SlotsPlanned' /\ Filtered'
  BY <1>1 DEF SlotsPlanned, Filtered
<1> QED
  BY <1>3, <1>4, <1>9, <1>10 DEF PInv

(* A crash that empties the store, or a day that begins with none          *)
LEMMA PEmptiesKeep ==
  ASSUME PInv, Crash \/ NextDay, SInv'
  PROVE  PInv'
<1>1. /\ UNCHANGED launch /\ phase' \in {"off", "idle"}
      /\ stored' = {} \/ UNCHANGED <<published, stored>>
  BY DEF Crash, NextDay
<1>2. CASE stored' = {}
  BY <1>1, <1>2
     DEF PInv, SlotsPlanned, Filtered, FinishedAsDeclared, OnChain, StoredPackAsDeclared
<1>3. CASE UNCHANGED <<published, stored>>
  BY <1>1, <1>3, IdleKeeps
<1> QED
  BY <1>1, <1>2, <1>3

LEMMA PRestKeeps ==
  ASSUME PInv, Launch \/ NotShipped \/ AnotherPackStored \/ Fail \/ Return, SInv'
  PROVE  PInv'
<1>1. /\ UNCHANGED <<launch, published, stored>>
      /\ phase' \in {"refused", "lost", "idle", "done"}
  BY Zenon DEF Launch, NotShipped, AnotherPackStored, Fail, Return, Lose, store
<1> QED
  BY <1>1, IdleKeeps

LEMMA PInvNext == PInv /\ [Next]_vars => PInv'
<1> SUFFICES ASSUME PInv, [Next]_vars PROVE PInv'
  OBVIOUS
<1>1. SInv'
  BY SInvNext DEF PInv
<1>2. CASE UNCHANGED vars
  <2>1. season' = season /\ UNCHANGED <<launch, phase, slots, challenges, unfilled, published, stored>>
    BY <1>2, SameStart DEF vars, build, store
  <2>2. FinishedAsDeclared'
    BY <2>1, SameDeclared, Zenon DEF PInv, FinishedAsDeclared
  <2>3. StoredAsDeclared
    BY StoredInParts DEF PInv
  <2>4. StoredAsDeclared'
    BY <2>1, <2>3, SameDeclared, Zenon DEF StoredAsDeclared
  <2>5. StoredPackAsDeclared'
    BY <2>4, StoredInParts, PTL
  <2> QED
    BY <1>1, <2>1, <2>2, <2>5 DEF PInv, SlotsPlanned, Filtered, OnChain
<1> QED
  BY <1>1, <1>2, PPlanKeeps, PAcceptKeeps, PFillKeeps, PCommitKeeps, PEmptiesKeep, PRestKeeps
     DEF Next

(* Whatever is in the store is as the season declares it, past the linter  *)
(* and the safety filter, and on the chain.                                *)
THEOREM StoredPacksHold == Spec => []StoredPackAsDeclared
<1>1. Spec => []PInv
  BY PInvInit, PInvNext, PTL DEF Spec
<1> QED
  BY <1>1, PTL DEF PInv

-----------------------------------------------------------------------------
(* Every pack and every print is of the season's domains, families and     *)
(* critics, and no slot is counted twice.                                  *)

Slotted ==
  phase = "generating" =>
    \A i \in 1 .. Len(slots) :
      slots[i] \in [domain : season.taxonomy.domains, family : GeneratorFamilies(season),
                    critic : CriticsOf(season)]

TInv == IInv /\ PInv /\ TypeOK /\ Slotted

(* In a season that starts a family is called by one of its generators     *)
LEMMA GeneratorIn ==
  ASSUME NEW s, s.challenge_generation.generators \in Seq(Generators(s)),
         NEW family \in GeneratorFamilies(s)
  PROVE  GeneratorOf(s, family) \in Generators(s)
<1> DEFINE all == s.challenge_generation.generators
           own == {i \in DOMAIN all : all[i].family = family}
<1>1. Len(all) \in Nat /\ DOMAIN all = 1 .. Len(all)
  OBVIOUS
<1>2. PICK g \in Generators(s) : g.family = family
  BY DEF GeneratorFamilies
<1>3. \E i \in DOMAIN all : all[i] = g
  BY DEF Generators, Range
<1>4. own # {} /\ own \in SUBSET (1 .. Len(all))
  BY <1>1, <1>2, <1>3
<1>5. Max(own) \in own
  <2> HIDE DEF own
  <2>. QED
    BY <1>1, <1>4, LargestIndex
<1>. QED
  BY <1>5 DEF GeneratorOf, Generators, Range

(* What a season that started says of its slots                            *)
LEMMA StartedTypes ==
  ASSUME SInv, phase \notin {"off", "refused"}
  PROVE  /\ Generation.candidates_per_slot \in Nat \ {0}
         /\ DOMAIN season.taxonomy.stratification \subseteq season.taxonomy.domains
         /\ DOMAIN FamilyPool(season) = GeneratorFamilies(season)
         /\ \A family \in GeneratorFamilies(season) :
              CriticFamilies(season)[family] \in CriticsOf(season)
<1>1. Starts(season, args) /\ launch \in DOMAIN Launches
  BY DEF SInv, Started
<1>2. season.challenge_generation.generators \in Seq(Generators(season))
  BY <1>1, FactoryAssumption, Zenon DEF season, Generators
<1>3. Generation.candidates_per_slot \in 1 .. 10
  BY <1>1, Zenon DEF Starts, ParsesSeason, ParsesGeneration, Generation
<1>4. DOMAIN season.taxonomy.stratification \subseteq season.taxonomy.domains
  BY <1>1, Zenon DEF Starts, Builds, ValidTaxonomy
<1>5. \A family \in GeneratorFamilies(season) : CriticFamilies(season)[family] \in CriticsOf(season)
  BY <1>2, GeneratorIn DEF CriticFamilies, CriticsOf
<1>. QED
  BY <1>3, <1>4, <1>5 DEF FamilyPool

(* The sets the type speaks of are those of the launch                     *)
LEMMA SameTypes ==
  ASSUME UNCHANGED launch
  PROVE  /\ season' = season /\ Challenge' = Challenge /\ Prints' = Prints
         /\ Generation' = Generation
<1>1. season' = season
  BY SameStart
<1>. QED
  BY <1>1 DEF Challenge, Prints, Generation

(* The print of a problem of the season is one of the season's             *)
LEMMA PrintsTyped ==
  ASSUME NEW pack, Range(pack) \subseteq Challenge
  PROVE  PrintsOf(pack) \subseteq Prints
<1> SUFFICES ASSUME NEW i \in DOMAIN pack PROVE PrintOf(pack[i]) \in Prints
  BY DEF PrintsOf
<1>1. pack[i] \in Challenge
  BY DEF Range
<1>. QED
  BY <1>1 DEF PrintOf, Fingerprint, Challenge, Prints

(* A counter that starts, or goes on below its bound, is within it         *)
LEMMA Counted ==
  /\ \A n \in Nat : 0 \in 0 .. n
  /\ \A n \in Nat \ {0} : 1 \in 1 .. n
  /\ \A n \in Nat : \A c \in 0 .. n : c < n => c + 1 \in 0 .. n
  /\ Range(<<>>) = {} /\ Len(<<>>) + 0 <= Len(<<>>)
<1>1. /\ \A n \in Nat : 0 \in 0 .. n
      /\ \A n \in Nat \ {0} : 1 \in 1 .. n
      /\ \A n \in Nat : \A c \in 0 .. n : c < n => c + 1 \in 0 .. n
  OBVIOUS
<1>2. Len(<<>>) + 0 <= Len(<<>>)
  OBVIOUS
<1>3. Range(<<>>) = {}
  BY DEF Range
<1>. QED
  BY <1>1, <1>2, <1>3, Zenon

LEMMA TInvInit == Init => TInv
<1> SUFFICES ASSUME Init PROVE TInv
  OBVIOUS
<1>1. /\ launch \in DOMAIN Launches /\ phase = "off" /\ why = "" /\ day = 1 /\ crashes = 0
      /\ slots = <<>> /\ challenges = <<>> /\ unfilled = 0 /\ left = 0
      /\ published = {} /\ stored = {} /\ DOMAIN prints = {} /\ DOMAIN used = {}
  BY DEF Init, NothingBuilt, Nothing
<1>2. TypeOK
  <2>1. MaxDay \in Nat \ {0} /\ MaxCrashes \in Nat
    BY FactoryAssumption, Zenon
  <2>2. day \in 1 .. MaxDay /\ crashes \in 0 .. MaxCrashes
    BY <1>1, <2>1, Counted, Zenon
  <2>3. Range(challenges) = {} /\ Len(challenges) + unfilled <= Len(slots)
    BY <1>1, Counted, Zenon
  <2>. QED
    BY <1>1, <2>2, <2>3 DEF TypeOK, Phase, Reasons
<1>. QED
  BY <1>1, <1>2, IInvInit, PInvInit DEF TInv, Slotted

-----------------------------------------------------------------------------
(* What holds of the build and of the store, apart                         *)
BuildTyped ==
  /\ phase \in Phase /\ why \in Reasons
  /\ Len(challenges) + unfilled <= Len(slots)
  /\ left \in {0} \cup 1 .. Generation.candidates_per_slot
  /\ Range(challenges) \subseteq Challenge

StoreTyped ==
  /\ launch \in DOMAIN Launches /\ day \in 1 .. MaxDay /\ crashes \in 0 .. MaxCrashes
  /\ \A pack \in published \cup stored : Range(pack) \subseteq Challenge
  /\ DOMAIN prints \subseteq Prints
  /\ \A d \in DOMAIN used : d \in 1 .. day /\ used[d] \subseteq Prints

LEMMA TypeInParts == TypeOK <=> BuildTyped /\ StoreTyped
  BY DEF TypeOK, BuildTyped, StoreTyped

(* A step that leaves the build alone, or forgets it                       *)
LEMMA BuildStays ==
  ASSUME BuildTyped, UNCHANGED launch, UNCHANGED build \/ ForgetBuild,
         phase' \in Phase, why' \in Reasons
  PROVE  BuildTyped'
<1>1. Challenge' = Challenge /\ Generation' = Generation
  BY SameTypes
<1>2. CASE UNCHANGED build
  BY <1>1, <1>2 DEF build, BuildTyped
<1>3. CASE ForgetBuild
  BY <1>1, <1>3 DEF ForgetBuild, BuildTyped, Range
<1>. QED
  BY <1>2, <1>3

(* A step that leaves the store and the past alone                         *)
LEMMA StoreStays ==
  ASSUME StoreTyped, UNCHANGED <<launch, day, published, store, used, crashes>>
  PROVE  StoreTyped'
<1>1. Challenge' = Challenge /\ Prints' = Prints
  BY SameTypes
<1>. QED
  BY <1>1 DEF store, StoreTyped

LEMMA TPlanKeeps ==
  ASSUME TInv, Plan
  PROVE  BuildTyped' /\ StoreTyped' /\ Slotted'
<1>1. PICK families \in Deals(FamilyPool(season)), domains \in Deals(season.taxonomy.stratification) :
        slots' = [i \in DOMAIN families |->
                    [domain |-> domains[i], family |-> families[i],
                     critic |-> CriticFamilies(season)[families[i]]]]
  BY Zenon DEF Plan
<1>2. /\ UNCHANGED <<launch, day, published, store, used, crashes, why, challenges, unfilled>>
      /\ phase = "idle" /\ phase' = "generating" /\ left' = Generation.candidates_per_slot
  BY DEF Plan
<1>3. SInv /\ BuildTyped /\ StoreTyped
  BY TypeInParts DEF TInv, PInv
<1>4. season' = season /\ Challenge' = Challenge /\ Generation' = Generation
  BY <1>2, SameTypes
<1>5. /\ Generation.candidates_per_slot \in Nat \ {0}
      /\ DOMAIN season.taxonomy.stratification \subseteq season.taxonomy.domains
      /\ DOMAIN FamilyPool(season) = GeneratorFamilies(season)
      /\ \A family \in GeneratorFamilies(season) :
           CriticFamilies(season)[family] \in CriticsOf(season)
  BY <1>2, <1>3, StartedTypes
<1>6. PICK n \in Nat : /\ n = SumFunction(FamilyPool(season))
                       /\ n = SumFunction(season.taxonomy.stratification)
  BY <1>2, <1>3, PoolsMatch, StartedSeason, Zenon
<1>7. /\ families \in [1 .. n -> GeneratorFamilies(season)]
      /\ domains \in [1 .. n -> DOMAIN season.taxonomy.stratification]
  BY <1>1, <1>5, <1>6, Zenon DEF Deals
<1>8. /\ slots' = [i \in 1 .. n |-> slots'[i]]
      /\ \A i \in 1 .. n : slots'[i] = [domain |-> domains[i], family |-> families[i],
                                         critic |-> CriticFamilies(season)[families[i]]]
  BY <1>1, <1>7
<1>9. Len(slots') = n
  BY <1>8
<1>10. Slotted'
  <2> SUFFICES ASSUME NEW i \in 1 .. n
               PROVE  slots'[i] \in [domain : season.taxonomy.domains,
                                     family : GeneratorFamilies(season),
                                     critic : CriticsOf(season)]
    BY <1>4, <1>9 DEF Slotted
  <2>1. /\ domains[i] \in season.taxonomy.domains /\ families[i] \in GeneratorFamilies(season)
        /\ CriticFamilies(season)[families[i]] \in CriticsOf(season)
    BY <1>5, <1>7
  <2>. QED
    BY <1>8, <2>1
<1>11. challenges = <<>> /\ unfilled = 0
  BY <1>2, <1>3 DEF SInv, Blank, Building
<1>12. BuildTyped'
  BY <1>2, <1>3, <1>4, <1>5, <1>9, <1>11 DEF BuildTyped, Phase
<1>. QED
  BY <1>2, <1>3, <1>10, <1>12, StoreStays

(* A slot is filled with a problem of its domain, family and critic        *)
LEMMA TAcceptKeeps ==
  ASSUME TInv, Accept
  PROVE  BuildTyped' /\ StoreTyped' /\ Slotted'
<1>1. PICK text \in DOMAIN Content : challenges' = Append(challenges, AsBody(text))
  BY DEF Accept
<1>2. /\ phase = "generating" /\ At <= Len(slots) /\ left' = Generation.candidates_per_slot
      /\ UNCHANGED <<launch, phase, why, slots, unfilled, day, published, store, used, crashes>>
  BY DEF Accept, Candidate
<1>3. SInv /\ BuildTyped /\ StoreTyped
  BY TypeInParts DEF TInv, PInv
<1>4. season' = season /\ Challenge' = Challenge /\ Generation' = Generation
  BY <1>2, SameTypes
<1>5. /\ challenges \in Seq(Range(challenges)) /\ unfilled \in Nat
      /\ \E n \in Nat : Len(slots) = n
  BY <1>2, <1>3 DEF SInv, InPlace, SlotsDealt
<1>6. At = Len(challenges) + unfilled + 1 /\ At \in 1 .. Len(slots)
  BY <1>2, <1>5 DEF At
<1>7. AsBody(text) \in Challenge
  <2>1. Slot \in [domain : season.taxonomy.domains, family : GeneratorFamilies(season),
                  critic : CriticsOf(season)]
    BY <1>2, <1>6 DEF TInv, Slotted, Slot
  <2>. QED
    BY <2>1 DEF AsBody, Challenge
<1> DEFINE new == AsBody(text)
<1> HIDE DEF new
<1>8. /\ DOMAIN challenges' = (DOMAIN challenges) \cup {Len(challenges) + 1}
      /\ \A i \in DOMAIN challenges : challenges'[i] = challenges[i]
      /\ challenges'[Len(challenges) + 1] = new
      /\ Len(challenges') = Len(challenges) + 1
  BY <1>1, <1>5, Appended DEF new
<1>9. Range(challenges') \subseteq Challenge
  <2>1. new \in Challenge /\ Range(challenges) \subseteq Challenge
    BY <1>3, <1>7 DEF new, BuildTyped
  <2>. QED
    BY <1>8, <2>1 DEF Range
<1>10. Generation.candidates_per_slot \in Nat \ {0}
  BY <1>2, <1>3, StartedTypes
<1>11. Len(challenges') + unfilled <= Len(slots)
  BY <1>5, <1>6, <1>8
<1>12. BuildTyped'
  BY <1>2, <1>3, <1>4, <1>9, <1>10, <1>11 DEF BuildTyped
<1>13. Slotted'
  BY <1>2, <1>4 DEF TInv, Slotted
<1>. QED
  BY <1>2, <1>3, <1>12, <1>13, StoreStays

(* A rejected candidate, or a slot that stays empty                        *)
LEMMA TFillKeeps ==
  ASSUME TInv, Reject \/ LeaveUnfilled
  PROVE  BuildTyped' /\ StoreTyped' /\ Slotted'
<1>1. /\ phase = "generating" /\ At <= Len(slots)
      /\ UNCHANGED <<launch, phase, why, slots, challenges, day, published, store, used, crashes>>
  BY DEF Reject, LeaveUnfilled, Candidate
<1>2. SInv /\ BuildTyped /\ StoreTyped
  BY TypeInParts DEF TInv, PInv
<1>3. season' = season /\ Challenge' = Challenge /\ Generation' = Generation
  BY <1>1, SameTypes
<1>4. Generation.candidates_per_slot \in Nat \ {0}
  BY <1>1, <1>2, StartedTypes
<1>5. /\ Len(challenges) \in Nat /\ unfilled \in Nat
      /\ \E n \in Nat : Len(slots) = n
  BY <1>1, <1>2 DEF SInv, InPlace, SlotsDealt
<1>6. left' \in {0} \cup 1 .. Generation.candidates_per_slot
  BY <1>2, <1>4 DEF Reject, LeaveUnfilled, Candidate, BuildTyped
<1>7. Len(challenges) + unfilled' <= Len(slots)
  BY <1>1, <1>2, <1>5 DEF Reject, LeaveUnfilled, BuildTyped, At
<1>8. BuildTyped'
  BY <1>1, <1>2, <1>3, <1>6, <1>7 DEF BuildTyped
<1>9. Slotted'
  BY <1>1, <1>3 DEF TInv, Slotted
<1>. QED
  BY <1>1, <1>2, <1>8, <1>9, StoreStays

(* Publishing, storing and recording hand on what was built                *)
LEMMA TCommitKeeps ==
  ASSUME TInv, Built \/ Publish \/ WritePack \/ RecordFingerprints
  PROVE  BuildTyped' /\ StoreTyped' /\ Slotted'
<1>1. BuildTyped /\ StoreTyped
  BY TypeInParts DEF TInv
<1>2. /\ UNCHANGED <<launch, why, day, build, used, crashes>>
      /\ phase' \in {"built", "published", "written", "recorded"}
      /\ published' \subseteq published \cup {challenges}
      /\ stored' \subseteq stored \cup {challenges}
      /\ DOMAIN prints' \subseteq DOMAIN prints \cup PrintsOf(challenges)
  BY DEF Built, Publish, WritePack, RecordFingerprints, store
<1>3. Challenge' = Challenge /\ Prints' = Prints
  BY <1>2, SameTypes
<1>4. BuildTyped'
  BY <1>1, <1>2, BuildStays DEF BuildTyped, Phase
<1>5. Range(challenges) \subseteq Challenge /\ PrintsOf(challenges) \subseteq Prints
  BY <1>1, PrintsTyped DEF BuildTyped
<1>6. StoreTyped'
  BY <1>1, <1>2, <1>3, <1>5 DEF StoreTyped
<1>. QED
  BY <1>2, <1>4, <1>6 DEF Slotted

(* The round goes on with the problems of the stored pack                  *)
LEMMA TReturnKeeps ==
  ASSUME TInv, Return
  PROVE  BuildTyped' /\ StoreTyped' /\ Slotted'
<1>1. BuildTyped /\ StoreTyped
  BY TypeInParts DEF TInv
<1>2. /\ UNCHANGED <<launch, why, day, published, stored, prints, crashes>>
      /\ ForgetBuild /\ phase' = "done"
  BY DEF Return, store
<1>3. PICK pack \in stored :
        used' = [d \in DOMAIN used \cup {day} |-> IF d = day THEN PrintsOf(pack) ELSE used[d]]
  BY DEF Return
<1>4. Challenge' = Challenge /\ Prints' = Prints
  BY <1>2, SameTypes
<1>5. PrintsOf(pack) \subseteq Prints
  BY <1>1, PrintsTyped DEF StoreTyped
<1>6. day \in 1 .. day
  BY <1>1, FactoryAssumption DEF StoreTyped
<1>7. StoreTyped'
  BY <1>1, <1>2, <1>3, <1>4, <1>5, <1>6 DEF StoreTyped
<1>8. BuildTyped'
  BY <1>1, <1>2, BuildStays DEF BuildTyped, Phase
<1>. QED
  BY <1>2, <1>7, <1>8 DEF Slotted

(* The start, and the steps that give the round up                         *)
LEMMA TIdleKeeps ==
  ASSUME TInv, Launch \/ NotShipped \/ AnotherPackStored \/ Fail
  PROVE  BuildTyped' /\ StoreTyped' /\ Slotted'
<1>1. BuildTyped /\ StoreTyped
  BY TypeInParts DEF TInv
<1>2. CASE Launch
  <2>1. /\ UNCHANGED <<launch, why, build, day, published, store, used, crashes>>
        /\ phase' \in {"refused", "lost", "idle"}
    BY <1>2, Zenon DEF Launch
  <2>2. phase' \in Phase /\ why' \in Reasons /\ phase' # "generating"
    BY <1>1, <2>1 DEF BuildTyped, Phase
  <2>. QED
    BY <1>1, <2>1, <2>2, BuildStays, StoreStays DEF Slotted
<1>3. CASE NotShipped \/ AnotherPackStored \/ Fail
  <2>1. PICK reason \in Reasons : Lose(reason)
    BY <1>3 DEF NotShipped, AnotherPackStored, Fail, Reasons
  <2>2. /\ UNCHANGED <<launch, day, published, store, used, crashes>>
        /\ ForgetBuild /\ phase' = "lost" /\ why' = reason
    BY <2>1 DEF Lose
  <2>. QED
    BY <1>1, <2>2, BuildStays, StoreStays DEF Slotted, Phase
<1>. QED
  BY <1>2, <1>3

(* A crash without Redis empties the store, a later day forgets            *)
LEMMA TForgetsKeep ==
  ASSUME TInv, Crash \/ NextDay
  PROVE  BuildTyped' /\ StoreTyped' /\ Slotted'
<1>1. BuildTyped /\ StoreTyped
  BY TypeInParts DEF TInv
<1>2. CASE Crash
  <2>1. /\ UNCHANGED <<launch, day, published, used>> /\ ForgetBuild /\ phase' = "off"
        /\ crashes < MaxCrashes /\ crashes' = crashes + 1
        /\ why' \in {"", "restart"} /\ stored' \subseteq stored /\ DOMAIN prints' \subseteq DOMAIN prints
    BY <1>2 DEF Crash, Nothing
  <2>2. Challenge' = Challenge /\ Prints' = Prints
    BY <2>1, SameTypes
  <2>3. BuildTyped'
    BY <1>1, <2>1, BuildStays DEF Phase, Reasons
  <2>4. crashes' \in 0 .. MaxCrashes
    <3>1. MaxCrashes \in Nat
      BY FactoryAssumption, Zenon
    <3>2. crashes \in 0 .. MaxCrashes
      BY <1>1, Zenon DEF StoreTyped
    <3>. QED
      BY <2>1, <3>1, <3>2, Counted, Zenon
  <2>5. StoreTyped'
    BY <1>1, <2>1, <2>2, <2>4 DEF StoreTyped
  <2>. QED
    BY <2>1, <2>3, <2>5 DEF Slotted
<1>3. CASE NextDay
  <2>1. PICK d \in day + 1 .. MaxDay :
          /\ day' = d
          /\ prints' = [p \in {q \in DOMAIN prints : Durable => prints[q] >= d} |-> prints[p]]
          /\ used' = [k \in {e \in DOMAIN used : d - e < Generation.dedup_lookback_days} |-> used[k]]
    BY <1>3 DEF NextDay
  <2>2. /\ UNCHANGED <<launch, build, crashes>> /\ phase' = "idle" /\ why' = ""
        /\ stored' = {} /\ published' = {}
    BY <1>3 DEF NextDay
  <2>3. Challenge' = Challenge /\ Prints' = Prints
    BY <2>2, SameTypes
  <2>4. BuildTyped'
    BY <1>1, <2>2, BuildStays DEF Phase, Reasons
  <2>5. day' \in 1 .. MaxDay /\ \A k \in 1 .. day : k \in 1 .. day'
    BY <1>1, <2>1, FactoryAssumption DEF StoreTyped
  <2>6. DOMAIN prints' \subseteq Prints
    BY <1>1, <2>1 DEF StoreTyped
  <2>7. \A k \in DOMAIN used' : k \in 1 .. day' /\ used'[k] \subseteq Prints
    BY <1>1, <2>1, <2>5 DEF StoreTyped
  <2>8. StoreTyped'
    BY <1>1, <2>2, <2>3, <2>5, <2>6, <2>7 DEF StoreTyped
  <2>. QED
    BY <2>2, <2>4, <2>8 DEF Slotted
<1>. QED
  BY <1>2, <1>3

LEMMA TInvNext == TInv /\ [Next]_vars => TInv'
<1> SUFFICES ASSUME TInv, [Next]_vars PROVE TInv'
  OBVIOUS
<1>1. BuildTyped' /\ StoreTyped' /\ Slotted'
  <2>1. CASE UNCHANGED vars
    <3>1. BuildTyped /\ StoreTyped
      BY TypeInParts DEF TInv
    <3>2. /\ UNCHANGED <<launch, build, phase, why>>
          /\ UNCHANGED <<launch, day, published, store, used, crashes>>
      BY <2>1 DEF vars
    <3>3. season' = season
      BY <3>2, SameTypes
    <3>4. BuildTyped' /\ StoreTyped'
      BY <3>1, <3>2, BuildStays, StoreStays DEF BuildTyped
    <3>. QED
      BY <3>2, <3>3, <3>4 DEF TInv, Slotted, build
  <2>. QED
    BY <2>1, TPlanKeeps, TAcceptKeeps, TFillKeeps, TCommitKeeps, TReturnKeeps, TIdleKeeps,
       TForgetsKeep DEF Next
<1>2. TypeOK'
  BY <1>1, TypeInParts, PTL
<1>. QED
  BY <1>1, <1>2, IInvNext, PInvNext DEF TInv

(* Plans, packs and prints are of the domains, generators and critics the  *)
(* season declares, no slot is both filled and left unfilled, and no day   *)
(* uses a print before it comes, for every season, text and crash.         *)
THEOREM FactoryTyped == Spec => []TypeOK
<1>1. Spec => []TInv
  BY TInvInit, TInvNext, PTL DEF Spec
<1>. QED
  BY <1>1, PTL DEF TInv
=============================================================================
