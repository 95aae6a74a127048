-------------------------- MODULE SideJobs_proofs --------------------------
(* The theorems of SideJobs, job by job: each has its inductive invariant, and a    *)
(* step of another job, or of none, is not a step of it.                           *)
EXTENDS SideJobs, Integers, TLAPS

-----------------------------------------------------------------------------
(* The daily metrics *)

StatsInv == Stats!TypeOK /\ Stats!RoundInv

LEMMA KindCount == Len(Kinds) \in Nat \ {0}
<1> DEFINE Kind == [name : STRING, extra : Nat]
<1>1. Kinds \in Seq(Kind) /\ Kinds # <<>>
  BY StatsAssumption
<1> HIDE DEF Kind
<1> QED BY <1>1

LEMMA KindNumbers == \A i \in DOMAIN Kinds : i \in 1..Len(Kinds)
BY StatsAssumption

LEMMA KindExtra == \A i \in 1..Len(Kinds) : Kinds[i].extra \in Nat
<1> DEFINE Kind == [name : STRING, extra : Nat]
<1>1. Kinds \in Seq(Kind)
  BY StatsAssumption
<1>2. \A k \in Kind : k.extra \in Nat
  OBVIOUS
<1> HIDE DEF Kind
<1>3. \A i \in 1..Len(Kinds) : Kinds[i] \in Kind
  BY <1>1
<1> QED BY <1>2, <1>3

LEMMA StatsBegins == Stats!Init => StatsInv
BY KindCount, StatsAssumption, ScriptAssumption
   DEF Stats!Init, StatsInv, Stats!TypeOK, Stats!RoundInv, Stats!Days

\* Rows that arrive leave what was counted sound; midnight only narrows what is due.
LEMMA IndexStep == StatsInv /\ (Stats!Index \/ Stats!Midnight) => StatsInv'
<1> SUFFICES ASSUME StatsInv, Stats!Index \/ Stats!Midnight PROVE StatsInv'
  OBVIOUS
<1> USE DEF StatsInv, Stats!roundVars
<1>1. /\ today \in Stats!Days /\ held \in [Stats!Days -> 0..RowsADay] /\ at \in 0..Len(Kinds)
      /\ UNCHANGED <<stored, at, counted, whole, errors>> /\ due' \subseteq due
  BY DEF Stats!TypeOK, Stats!Index, Stats!Midnight
<1>2. /\ today' \in Stats!Days /\ held' \in [Stats!Days -> 0..RowsADay]
      /\ \A d \in Stats!Days : held[d] <= held'[d]
  <2>1. CASE Stats!Index
    <3>1. PICK d \in 0..today : held[d] < RowsADay /\ held' = [held EXCEPT ![d] = @ + 1]
      BY <2>1 DEF Stats!Index
    <3>2. today' = today /\ d \in Stats!Days
      BY <1>1, <2>1, StatsAssumption DEF Stats!Index, Stats!Days
    <3>3. held[d] \in 0..RowsADay /\ held[d] + 1 \in 0..RowsADay
      BY <1>1, <3>1, <3>2, StatsAssumption
    <3>4. \A e \in Stats!Days : held[e] \in Nat
      BY <1>1, StatsAssumption
    <3> QED BY <1>1, <3>1, <3>2, <3>3, <3>4
  <2>2. CASE Stats!Midnight
    <3>1. today' \in Stats!Days /\ held' = held
      BY <1>1, <2>2, StatsAssumption DEF Stats!Midnight, Stats!Days
    <3>2. \A e \in Stats!Days : held[e] \in Nat
      BY <1>1, StatsAssumption
    <3> QED BY <1>1, <3>1, <3>2
  <2> QED BY <2>1, <2>2
<1>3. Stats!TypeOK'
  BY <1>1, <1>2 DEF Stats!TypeOK
<1>4. \A r : Stats!Sound(r) => Stats!Sound(r)'
  BY <1>1, <1>2 DEF Stats!Sound
<1>5. at # 0 => \A d \in due' : today' - Window <= d /\ d < today' /\ held'[d] > 0
  <2> SUFFICES ASSUME at # 0, NEW d \in due'
        PROVE  today' - Window <= d /\ d < today' /\ held'[d] > 0
    OBVIOUS
  <2>1. d \in Stats!Days /\ today - Window <= d /\ d < today /\ held[d] > 0
    BY <1>1 DEF Stats!RoundInv
  <2>2. today' - Window <= d /\ d < today'
    BY <1>1, <2>1, StatsAssumption DEF Stats!Index, Stats!Midnight, Stats!Days
  <2> QED BY <1>1, <1>2, <2>1, <2>2
<1>6. \A i, d : Stats!Has(i, d) => Stats!Has(i, d)'
  BY <1>1 DEF Stats!Has
<1> QED BY <1>1, <1>3, <1>4, <1>5, <1>6 DEF Stats!RoundInv

LEMMA WakeStep == StatsInv /\ Stats!Wake => StatsInv'
<1> SUFFICES ASSUME StatsInv, Stats!Wake PROVE StatsInv'
  OBVIOUS
<1> USE DEF StatsInv
<1>1. at = 0 /\ at' = 1 /\ counted = {} /\ UNCHANGED <<today, held, stored, counted, errors>>
  BY DEF Stats!Wake, Stats!TypeOK
<1>2. whole' = FALSE /\ due' = {d \in Stats!Days : today - Window <= d /\ d < today /\ held[d] > 0}
  BY DEF Stats!Wake
<1>3. Stats!TypeOK'
  BY <1>1, KindCount DEF Stats!TypeOK
<1>4. \A r : Stats!Sound(r) => Stats!Sound(r)'
  BY <1>1 DEF Stats!Sound
<1>5. \A i \in DOMAIN Kinds : ~(i < 1)
  BY KindNumbers
<1> QED BY <1>1, <1>2, <1>3, <1>4, <1>5 DEF Stats!RoundInv

\* The query of a metric finds every day that is due, whichever window it looks at.
LEMMA CountStep == StatsInv /\ Stats!Count => StatsInv'
<1> SUFFICES ASSUME StatsInv, Stats!Count PROVE StatsInv'
  OBVIOUS
<1> USE DEF StatsInv
<1>1. /\ at \in 1..Len(Kinds) /\ counted = {} /\ ~whole
      /\ UNCHANGED <<today, held, stored, due, errors>>
      /\ today \in Stats!Days /\ held \in [Stats!Days -> 0..RowsADay]
  BY KindCount DEF Stats!Count, Stats!TypeOK, Stats!RoundInv
<1> DEFINE kind == Kinds[at]
           found == {[kind |-> kind.name, day |-> d, value |-> held[d], on |-> today] :
                        d \in {e \in Stats!Days : Stats!InWindow(kind, e) /\ held[e] > 0}}
<1>2. /\ counted' = found /\ at' = IF found = {} THEN Stats!After ELSE at
      /\ whole' = (found = {} /\ at = Len(Kinds))
  BY DEF Stats!Count
<1>3. kind.extra \in Nat
  BY <1>1, KindExtra
<1>4. \A d \in due : \E r \in found : r.day = d
  <2> TAKE d \in due
  <2>1. d \in Stats!Days /\ today - Window <= d /\ d < today /\ held[d] > 0
    BY <1>1 DEF Stats!RoundInv
  <2>2. today \in Int /\ d \in Int /\ Window \in Int
    BY <1>1, <2>1, StatsAssumption DEF Stats!Days
  <2>3. Stats!InWindow(kind, d)
    BY <1>3, <2>1, <2>2 DEF Stats!InWindow
  <2>4. [kind |-> kind.name, day |-> d, value |-> held[d], on |-> today] \in found
    BY <2>1, <2>3
  <2> QED BY <2>4
<1>5. \A r \in found : Stats!Sound(r) /\ r.kind = kind.name
  <2> TAKE r \in found
  <2>1. PICK d \in Stats!Days :
          /\ Stats!InWindow(kind, d) /\ held[d] > 0
          /\ r = [kind |-> kind.name, day |-> d, value |-> held[d], on |-> today]
    OBVIOUS
  <2>2. held[d] \in 1..held[d]
    BY <1>1, <2>1, StatsAssumption
  <2> QED BY <2>1, <2>2 DEF Stats!Sound, Stats!InWindow
<1>6. \A r, s \in found : r.day = s.day => r = s
  OBVIOUS
<1> HIDE DEF found, kind
<1>7. \A r : Stats!Sound(r) => Stats!Sound(r)'
  BY <1>1 DEF Stats!Sound
<1>8. \A i, d : Stats!Has(i, d) => Stats!Has(i, d)'
  BY <1>1 DEF Stats!Has
<1>9. CASE found = {}
  <2>1. due = {}
    BY <1>4, <1>9
  <2>2. at' \in 0..Len(Kinds) /\ (whole' => at' = 0)
    <3>1. at \in 1..Len(Kinds) /\ at' = Stats!After /\ (whole' => at = Len(Kinds))
      BY <1>1, <1>2, <1>9
    <3> QED BY <3>1, KindCount DEF Stats!After
  <2>3. Stats!TypeOK'
    BY <1>1, <1>2, <1>9, <2>2 DEF Stats!TypeOK
  <2> QED BY <1>1, <1>2, <1>7, <1>9, <2>1, <2>2, <2>3 DEF Stats!RoundInv
<1>10. CASE found # {}
  <2>1. at' = at /\ whole' = FALSE
    BY <1>2, <1>10
  <2>2. Stats!TypeOK'
    BY <1>1, <1>2, <2>1 DEF Stats!TypeOK
  <2>3. \A r \in counted' : Stats!Sound(r)' /\ r.kind = Kinds[at'].name
    BY <1>2, <1>5, <1>7, <2>1 DEF kind
  <2> QED BY <1>1, <1>2, <1>4, <1>6, <1>7, <1>8, <2>1, <2>2, <2>3 DEF Stats!RoundInv
<1> QED BY <1>9, <1>10

\* A value that is stored already is kept; then the metric has that day, too.
LEMMA InsertStep == StatsInv /\ Stats!Insert => StatsInv'
<1> SUFFICES ASSUME StatsInv, Stats!Insert PROVE StatsInv'
  OBVIOUS
<1> USE DEF StatsInv
<1>1. /\ at \in 1..Len(Kinds) /\ counted # {} /\ ~whole
      /\ counted' = {}
      /\ at' = Stats!After /\ whole' = (at = Len(Kinds))
      /\ UNCHANGED <<today, held, due, errors>>
  BY KindCount DEF Stats!Insert, Stats!TypeOK, Stats!RoundInv
<1>10. /\ stored \subseteq stored'
       /\ \A r \in stored' : r \in stored \/ (r \in counted /\ ~\E s \in stored : s.kind = r.kind /\ s.day = r.day)
       /\ \A r \in counted : r \in stored' \/ \E s \in stored : s.kind = r.kind /\ s.day = r.day
  BY DEF Stats!Insert
<1>2. at' \in 0..Len(Kinds) /\ (IF whole' THEN at' = 0 /\ at = Len(Kinds) ELSE at' = at + 1)
  <2>1. at \in 1..Len(Kinds) /\ at' = Stats!After /\ (whole' <=> at = Len(Kinds))
    BY <1>1
  <2> QED BY <2>1, KindCount DEF Stats!After
<1>3. Stats!TypeOK'
  BY <1>1, <1>2 DEF Stats!TypeOK
<1>4. \A r : Stats!Sound(r) => Stats!Sound(r)'
  BY <1>1 DEF Stats!Sound
<1>5. \A r, s \in stored' : r.kind = s.kind /\ r.day = s.day => r = s
  BY <1>10 DEF Stats!RoundInv
<1>6. \A i, d : i = at /\ d \in due => Stats!Has(i, d)'
  <2> SUFFICES ASSUME NEW d \in due, NEW i, i = at PROVE Stats!Has(i, d)'
    OBVIOUS
  <2>1. PICK r \in counted : r.day = d /\ r.kind = Kinds[at].name
    BY <1>1 DEF Stats!RoundInv
  <2>2. \E s \in stored' : s.kind = Kinds[i].name /\ s.day = d
    BY <1>10, <2>1
  <2> QED BY <2>2 DEF Stats!Has
<1>7. \A i \in DOMAIN Kinds, d \in due : whole' \/ i < at' => Stats!Has(i, d)'
  <2> TAKE i \in DOMAIN Kinds, d \in due
  <2> HAVE whole' \/ i < at'
  <2>1. i < at \/ i = at
    <3>1. i \in 1..Len(Kinds) /\ at \in 1..Len(Kinds)
      BY <1>1, KindNumbers
    <3> QED BY <1>2, <3>1, KindCount
  <2>2. CASE i < at
    BY <1>1, <1>10, <2>2 DEF Stats!RoundInv, Stats!Has
  <2> QED BY <1>6, <2>1, <2>2
<1>8. \A r \in stored' : Stats!Sound(r)'
  BY <1>1, <1>4, <1>10 DEF Stats!RoundInv
<1> QED BY <1>1, <1>2, <1>3, <1>5, <1>7, <1>8 DEF Stats!RoundInv

LEMMA StatsErrorStep == StatsInv /\ Stats!Error => StatsInv'
<1> SUFFICES ASSUME StatsInv, Stats!Error PROVE StatsInv'
  OBVIOUS
<1> USE DEF StatsInv
<1>1. /\ at # 0 /\ at' = 0 /\ counted' = {} /\ ~whole
      /\ UNCHANGED <<today, held, stored, due, whole>> /\ errors' \in 0..MaxErrors
  BY ScriptAssumption DEF Stats!Error, Stats!TypeOK, Stats!RoundInv
<1>2. Stats!TypeOK'
  BY <1>1, KindCount DEF Stats!TypeOK
<1>3. \A r : Stats!Sound(r) => Stats!Sound(r)'
  BY <1>1 DEF Stats!Sound
<1>4. \A i \in DOMAIN Kinds : ~(i < 0)
  BY KindNumbers
<1> QED BY <1>1, <1>2, <1>3, <1>4 DEF Stats!RoundInv

LEMMA StatsGoesOn == StatsInv /\ Stats!Next => StatsInv'
BY IndexStep, WakeStep, CountStep, InsertStep, StatsErrorStep DEF Stats!Next

\* What a step of SideJobs is for the job at work.
LEMMA StepOf ==
  ASSUME [Next]_vars
  PROVE  /\ job' = job
         /\ job = "api" => Api!Next \/ UNCHANGED <<Api!vars>>
         /\ job = "migration" => Migration!Next \/ UNCHANGED <<Migration!vars>>
         /\ job = "internal" => Internal!Next \/ UNCHANGED <<Internal!vars>>
         /\ job = "stats" => Stats!Next \/ UNCHANGED <<Stats!vars>>
BY DEF Next, vars, ApiStep, MigrationStep, InternalStep, StatsStep, apiVars, migrationVars,
       internalVars, statsVars, Api!vars, Migration!vars, Migration!scriptVars, Migration!historyVars,
       Internal!vars, Internal!loopVars, Stats!vars, Stats!roundVars

LEMMA StatsInvHolds == Spec => [](job = "stats" => StatsInv)
<1>1. Init => (job = "stats" => StatsInv)
  BY StatsBegins DEF Init
<1>2. (job = "stats" => StatsInv) /\ [Next]_vars => (job = "stats" => StatsInv)'
  <2> SUFFICES ASSUME [Next]_vars, job = "stats", StatsInv PROVE StatsInv'
    BY StepOf
  <2>1. CASE Stats!Next
    BY <2>1, StatsGoesOn
  <2>2. CASE UNCHANGED <<Stats!vars>>
    BY <2>2 DEF Stats!vars, Stats!roundVars, StatsInv, Stats!TypeOK, Stats!RoundInv, Stats!Sound, Stats!Has
  <2> QED BY <2>1, <2>2, StepOf
<1> QED BY <1>1, <1>2, PTL DEF Spec

\* A round without error left no day of the window without its value, whatever days earlier
\* rounds lost; a metric has one value a day, counted after the day.
THEOREM DaysAreCounted == Spec => []DaysCounted
<1>1. (job = "stats" => StatsInv) => DaysCounted
  BY DEF DaysCounted, Stats!DaysCounted, StatsInv, Stats!RoundInv, Stats!Has, Stats!Sound
<1> QED BY <1>1, StatsInvHolds, PTL

-----------------------------------------------------------------------------
(* The migration of contract events *)

MigrationHolds == Migration!TypeOK /\ Migration!MigrationInv

\* A row is wanted for one log.
WantedFor(e, k, T) ==
    /\ k \in logs /\ k.token \in T
    /\ \E i \in DOMAIN Migration!Parses : Migration!Parses[i] = [type |-> k.token.type, event |-> k.event]
    /\ k.event \in Migration!Transfers => ~k.zero
    /\ e = [log |-> k, type |-> k.token.type]

LEMMA WantedMember == \A e, T : e \in Migration!Wanted(T) <=> \E k : WantedFor(e, k, T)
BY DEF Migration!Wanted, Migration!IsEvent, WantedFor

LEMMA WantedGrows ==
  ASSUME NEW S, NEW T, S \subseteq T
  PROVE  Migration!Wanted(S) \subseteq Migration!Wanted(T)
<1>1. \A e, k : WantedFor(e, k, S) => WantedFor(e, k, T)
  BY DEF WantedFor
<1> QED BY <1>1, WantedMember

LEMMA ExpectedMember ==
  \A e, B : e \in Migration!Expected(B) <=>
      \E k : WantedFor(e, k, before) /\ k.block \in B /\ ~Migration!PassedOver(k)
<1>1. \A e, k : WantedFor(e, k, before) => e.log = k
  BY DEF WantedFor
<1> QED BY <1>1, WantedMember DEF Migration!Expected

LEMMA MigrationBegins == Migration!Init => MigrationHolds
<1> SUFFICES ASSUME Migration!Init PROVE MigrationHolds
  OBVIOUS
<1>1. Migration!TypeOK
  <2>1. Start \in Start..Finish + BatchSize /\ 0 \in 0..MaxErrors
    BY MigrationAssumption, ScriptAssumption
  <2> QED BY <2>1 DEF Migration!Init, Migration!TypeOK
<1>2. Migration!Types # <<>> /\ Migration!Range(Migration!Types) \ Migration!Range(Migration!Types) = {}
  BY DEF Migration!Types
<1>3. Migration!Nothing \in [DOMAIN Migration!Parses -> SUBSET Migration!Wanted(registered)]
  BY DEF Migration!Nothing
<1> QED BY <1>1, <1>2, <1>3 DEF Migration!Init, MigrationHolds, Migration!MigrationInv

\* A token that appears, or an error, takes nothing away.
LEMMA RegisterStep == MigrationHolds /\ Migration!Register => MigrationHolds'
<1> SUFFICES ASSUME MigrationHolds, Migration!Register PROVE MigrationHolds'
  OBVIOUS
<1> USE DEF MigrationHolds
<1>1. /\ registered \subseteq registered' /\ registered' \subseteq Tokens
      /\ UNCHANGED <<logs, events, stage, known, toLoad, blocksFrom, isStopped, unwritten, before, completed, errors>>
  BY DEF Migration!Register, Migration!scriptVars, Migration!historyVars, Migration!TypeOK
<1>2. Migration!TypeOK'
  BY <1>1 DEF Migration!TypeOK
<1>4. Migration!Wanted(registered) \subseteq Migration!Wanted(registered)'
  <2>1. Migration!Wanted(registered)' = Migration!Wanted(registered')
    BY <1>1 DEF Migration!Wanted
  <2> QED BY <1>1, <2>1, WantedGrows
<1>5. \A B : Migration!Expected(B)' = Migration!Expected(B)
  BY <1>1 DEF Migration!Expected, Migration!Wanted, Migration!IsEvent
<1>6. Migration!Ahead' = Migration!Ahead /\ Migration!BlocksTo' = Migration!BlocksTo
  BY <1>1 DEF Migration!Ahead, Migration!BlocksTo
<1>7. unwritten' \in [DOMAIN Migration!Parses -> SUBSET Migration!Wanted(registered)']
  BY <1>1, <1>4 DEF Migration!MigrationInv
<1> QED BY <1>1, <1>2, <1>4, <1>5, <1>6, <1>7 DEF Migration!MigrationInv, Migration!Stops

LEMMA MigrationFrame ==
  ASSUME UNCHANGED <<logs, registered, before>>
  PROVE  /\ Migration!Wanted(registered)' = Migration!Wanted(registered)
         /\ \A B : Migration!Expected(B)' = Migration!Expected(B)
BY DEF Migration!Expected, Migration!Wanted, Migration!IsEvent

LEMMA LoadMapStep == MigrationHolds /\ Migration!LoadMap => MigrationHolds'
<1> SUFFICES ASSUME MigrationHolds, Migration!LoadMap PROVE MigrationHolds'
  OBVIOUS
<1> USE DEF MigrationHolds
<1>1. /\ stage = "maps" /\ known' = known \cup {t \in registered : t.type = Head(toLoad)}
      /\ toLoad' = Tail(toLoad) /\ stage' = IF Len(toLoad) = 1 THEN "logs" ELSE "maps"
      /\ UNCHANGED <<logs, registered, events, blocksFrom, isStopped, unwritten, before, completed, errors>>
  BY DEF Migration!LoadMap, Migration!historyVars
<1>2. Migration!TypeOK'
  BY <1>1 DEF Migration!TypeOK
<1>3. toLoad \in {<<"erc20", "erc721", "erc1155">>, <<"erc721", "erc1155">>, <<"erc1155">>}
  BY <1>1 DEF Migration!MigrationInv, Migration!Types
<1>4. /\ toLoad' \in {Migration!Types, Tail(Migration!Types), <<"erc1155">>, <<>>}
      /\ IF toLoad' = <<>> THEN stage' = "logs" ELSE stage' = "maps"
      /\ \A x : x \notin Migration!Range(toLoad') => x = Head(toLoad) \/ x \notin Migration!Range(toLoad)
  <2>1. CASE toLoad = <<"erc20", "erc721", "erc1155">>
    <3>1. toLoad' = <<"erc721", "erc1155">> /\ Head(toLoad) = "erc20" /\ Len(toLoad) = 3
      BY <1>1, <2>1
    <3>2. Migration!Range(toLoad') = {"erc721", "erc1155"} /\ Migration!Range(toLoad) = {"erc20", "erc721", "erc1155"}
      BY <3>1, <2>1 DEF Migration!Range
    <3>3. toLoad' = Tail(Migration!Types) /\ toLoad' # <<>> /\ stage' = "maps"
      BY <1>1, <2>1, <3>1 DEF Migration!Types
    <3> QED BY <3>1, <3>2, <3>3
  <2>2. CASE toLoad = <<"erc721", "erc1155">>
    <3>1. toLoad' = <<"erc1155">> /\ Head(toLoad) = "erc721" /\ Len(toLoad) = 2
      BY <1>1, <2>2
    <3>2. Migration!Range(toLoad') = {"erc1155"} /\ Migration!Range(toLoad) = {"erc721", "erc1155"}
      BY <3>1, <2>2 DEF Migration!Range
    <3>3. toLoad' = <<"erc1155">> /\ toLoad' # <<>> /\ stage' = "maps"
      BY <1>1, <2>2, <3>1
    <3> QED BY <3>1, <3>2, <3>3
  <2>3. CASE toLoad = <<"erc1155">>
    <3>1. toLoad' = <<>> /\ Head(toLoad) = "erc1155" /\ Len(toLoad) = 1
      BY <1>1, <2>3
    <3>2. Migration!Range(toLoad) = {"erc1155"}
      BY <2>3 DEF Migration!Range
    <3> QED BY <1>1, <3>1, <3>2
  <2> QED BY <1>3, <2>1, <2>2, <2>3
<1>5. \A t \in before : t.type \in Migration!Range(Migration!Types) \ Migration!Range(toLoad') => t \in known'
  BY <1>1, <1>4 DEF Migration!MigrationInv, Migration!TypeOK
<1>6. blocksFrom = Start /\ ~isStopped /\ ~completed
  BY <1>1 DEF Migration!MigrationInv
<1>7. Migration!Expected(Start..Start - 1) = {}
  <2>1. Start..Start - 1 = {}
    BY MigrationAssumption
  <2> QED BY <2>1, ExpectedMember
<1> QED BY <1>1, <1>2, <1>4, <1>5, <1>6, <1>7, MigrationFrame, MigrationAssumption DEF Migration!MigrationInv

LEMMA MigrationErrorStep == MigrationHolds /\ (Migration!Error \/ Migration!Again) => MigrationHolds'
<1> SUFFICES ASSUME MigrationHolds, Migration!Error \/ Migration!Again PROVE MigrationHolds'
  OBVIOUS
<1> USE DEF MigrationHolds
<1>1. CASE Migration!Error
  <2>1. /\ stage # "exit" /\ stage' = "exit" /\ ~completed /\ errors < MaxErrors /\ errors' = errors + 1
        /\ UNCHANGED <<logs, registered, events, known, toLoad, blocksFrom, isStopped, unwritten, before, completed>>
    BY <1>1 DEF Migration!Error, Migration!MigrationInv
  <2>2. errors' \in 0..MaxErrors
    BY <2>1, ScriptAssumption DEF Migration!TypeOK
  <2> QED BY <2>1, <2>2, MigrationFrame DEF Migration!TypeOK, Migration!MigrationInv
<1>2. CASE Migration!Again
  <2>1. /\ stage' = "maps" /\ ~completed /\ known' = {} /\ toLoad' = Migration!Types
        /\ blocksFrom' = Start /\ isStopped' = FALSE /\ unwritten' = Migration!Nothing /\ before' = registered
        /\ UNCHANGED <<logs, registered, events, completed, errors>>
    BY <1>2 DEF Migration!Again
  <2>2. Start \in Start..Finish + BatchSize
    BY MigrationAssumption, ScriptAssumption
  <2>3. Migration!TypeOK'
    BY <2>1, <2>2 DEF Migration!TypeOK
  <2>4. Migration!Wanted(registered)' = Migration!Wanted(registered)
    BY <2>1 DEF Migration!Wanted
  <2>5. unwritten' \in [DOMAIN Migration!Parses -> SUBSET Migration!Wanted(registered)]
    BY <2>1 DEF Migration!Nothing
  <2>6. Migration!Types # <<>> /\ Migration!Range(Migration!Types) \ Migration!Range(toLoad') = {}
    BY <2>1 DEF Migration!Types
  <2> QED BY <2>1, <2>3, <2>4, <2>5, <2>6 DEF Migration!MigrationInv
<1> QED BY <1>1, <1>2

\* With the batch at hand stored, everything up to its end is.
LEMMA BatchesJoin ==
  ASSUME Migration!TypeOK, NEW E,
         Migration!Expected(Start..blocksFrom - 1) \subseteq E,
         Migration!Expected(blocksFrom..Migration!BlocksTo) \subseteq E
  PROVE  Migration!Expected(Start..Migration!BlocksTo) \subseteq E
<1> SUFFICES ASSUME NEW e \in Migration!Expected(Start..Migration!BlocksTo) PROVE e \in E
  OBVIOUS
<1>1. PICK k : WantedFor(e, k, before) /\ k.block \in Start..Migration!BlocksTo /\ ~Migration!PassedOver(k)
  BY ExpectedMember
<1>2. blocksFrom \in Nat /\ Start \in Nat /\ BatchSize \in Nat
  BY MigrationAssumption, ScriptAssumption DEF Migration!TypeOK
<1>3. k.block \in Start..blocksFrom - 1 \/ k.block \in blocksFrom..Migration!BlocksTo
  <2>1. ASSUME NEW b \in Start..Migration!BlocksTo
        PROVE  b \in Start..blocksFrom - 1 \/ b \in blocksFrom..Migration!BlocksTo
    BY <1>2 DEF Migration!BlocksTo
  <2> QED BY <1>1, <2>1
<1>4. e \in Migration!Expected(Start..blocksFrom - 1) \/ e \in Migration!Expected(blocksFrom..Migration!BlocksTo)
  BY <1>1, <1>3, ExpectedMember
<1> QED BY <1>4

\* The loop goes on, or ends with all the range behind it.
LEMMA NextBatchHolds ==
  ASSUME MigrationHolds, UNCHANGED <<logs, registered, known, toLoad, before, errors>>,
         stage \in {"logs", "write"}, events \subseteq events',
         isStopped' \in BOOLEAN, isStopped' <=> Migration!Stops(Migration!BlocksTo),
         Migration!NextBatch(isStopped'), unwritten' = Migration!Nothing,
         events' \subseteq Migration!Wanted(registered),
         Migration!Expected(blocksFrom..Migration!BlocksTo) \subseteq events'
  PROVE  MigrationHolds'
<1> USE DEF MigrationHolds
<1>1. /\ blocksFrom' = blocksFrom + BatchSize /\ stage' = IF isStopped' THEN "exit" ELSE "logs"
      /\ completed' = isStopped'
  BY DEF Migration!NextBatch
<1>2. /\ blocksFrom \in Start..Finish + BatchSize /\ blocksFrom <= Finish /\ toLoad = <<>>
      /\ \A t \in before : t.type \in Migration!Range(Migration!Types) \ Migration!Range(toLoad) => t \in known
      /\ Migration!Expected(Start..blocksFrom - 1) \subseteq events'
  BY DEF Migration!TypeOK, Migration!MigrationInv
<1>3. /\ Start \in Nat /\ Finish \in Nat /\ BatchSize \in Nat \ {0}
      /\ blocksFrom \in Nat /\ Start <= blocksFrom
  BY <1>2, MigrationAssumption, ScriptAssumption
<1>4. /\ blocksFrom' \in Start..Finish + BatchSize
      /\ blocksFrom' - 1 = Migration!BlocksTo
      /\ ~isStopped' => blocksFrom' <= Finish
      /\ isStopped' => Finish <= Migration!BlocksTo
      /\ Migration!BlocksTo \in Int
  BY <1>1, <1>2, <1>3 DEF Migration!BlocksTo, Migration!Stops
<1>5. Migration!Expected(Start..Migration!BlocksTo) \subseteq events'
  BY <1>2, BatchesJoin
<1>6. isStopped' => Migration!Expected(Start..Finish) \subseteq events'
  <2> SUFFICES ASSUME isStopped', NEW e \in Migration!Expected(Start..Finish)
        PROVE  e \in events'
    OBVIOUS
  <2>1. PICK k : WantedFor(e, k, before) /\ k.block \in Start..Finish /\ ~Migration!PassedOver(k)
    BY ExpectedMember
  <2>2. Start..Finish \subseteq Start..Migration!BlocksTo
    BY <1>3, <1>4
  <2>3. e \in Migration!Expected(Start..Migration!BlocksTo)
    BY <2>1, <2>2, ExpectedMember
  <2> QED BY <1>5, <2>3
<1>7. Migration!TypeOK'
  BY <1>1, <1>4 DEF Migration!TypeOK
<1>8. unwritten' \in [DOMAIN Migration!Parses -> SUBSET Migration!Wanted(registered)]
  BY DEF Migration!Nothing
<1>9. \A B : Migration!Expected(B)' = Migration!Expected(B)
  BY MigrationFrame
<1>10. Migration!Wanted(registered)' = Migration!Wanted(registered)
  BY MigrationFrame
<1>11. stage' = "logs" => Migration!Expected(Start..blocksFrom' - 1) \subseteq events'
  BY <1>4, <1>5
<1> QED BY <1>1, <1>2, <1>4, <1>6, <1>7, <1>8, <1>9, <1>10, <1>11 DEF Migration!MigrationInv

\* The rows of a parse are wanted rows of the tokens that are known.
LEMMA ParseMember ==
  \A e, batch, p : e \in Migration!Parse(batch, p) <=>
      \E k \in batch : /\ k.token \in known /\ k.token.type = p.type /\ ~Migration!PassedOver(k)
                       /\ k.event = p.event
                       /\ p.event \in Migration!Transfers => ~k.zero
                       /\ e = [log |-> k, type |-> p.type]
BY DEF Migration!Parse

LEMMA ParseFields ==
  \A i \in DOMAIN Migration!Parses :
      /\ Migration!Parses[i] = [type |-> Migration!Parses[i].type, event |-> Migration!Parses[i].event]
      /\ Migration!Parses[i].type \in Migration!Range(Migration!Types)
<1>1. DOMAIN Migration!Parses = 1..7
  BY DEF Migration!Parses
<1>2. Migration!Range(Migration!Types) = {"erc20", "erc721", "erc1155"}
  BY DEF Migration!Types, Migration!Range
<1>3. \A i \in 1..7 : /\ Migration!Parses[i] = [type |-> Migration!Parses[i].type, event |-> Migration!Parses[i].event]
                      /\ Migration!Parses[i].type \in {"erc20", "erc721", "erc1155"}
  BY DEF Migration!Parses
<1> QED BY <1>1, <1>2, <1>3

LEMMA ParseOf ==
  ASSUME NEW e, NEW k, WantedFor(e, k, before), ~Migration!PassedOver(k), NEW batch, k \in batch, k.token \in known
  PROVE  \E i \in DOMAIN Migration!Parses : e \in Migration!Parse(batch, Migration!Parses[i])
<1>1. PICK i \in DOMAIN Migration!Parses : Migration!Parses[i] = [type |-> k.token.type, event |-> k.event]
  BY DEF WantedFor
<1>2. Migration!Parses[i].type = k.token.type /\ Migration!Parses[i].event = k.event
  BY <1>1
<1>3. e \in Migration!Parse(batch, Migration!Parses[i])
  BY <1>2, ParseMember DEF WantedFor
<1> QED BY <1>3

LEMMA ParseWanted ==
  ASSUME NEW batch, batch \subseteq logs, known \subseteq registered, NEW i \in DOMAIN Migration!Parses
  PROVE  Migration!Parse(batch, Migration!Parses[i]) \subseteq Migration!Wanted(registered)
<1> SUFFICES ASSUME NEW e \in Migration!Parse(batch, Migration!Parses[i])
      PROVE  e \in Migration!Wanted(registered)
  OBVIOUS
<1> DEFINE p == Migration!Parses[i]
<1>1. p = [type |-> p.type, event |-> p.event]
  BY ParseFields
<1> HIDE DEF p
<1>2. PICK k \in batch : /\ k.token \in known /\ k.token.type = p.type /\ k.event = p.event
                         /\ p.event \in Migration!Transfers => ~k.zero
                         /\ e = [log |-> k, type |-> p.type]
  BY ParseMember DEF p
<1>3. \E j \in DOMAIN Migration!Parses : Migration!Parses[j] = [type |-> k.token.type, event |-> k.event]
  BY <1>1, <1>2 DEF p
<1>4. WantedFor(e, k, registered)
  BY <1>2, <1>3 DEF WantedFor
<1> QED BY <1>4, WantedMember

\* What is read for a batch covers its events; nothing to write is nothing to expect.
LEMMA GetLogsStep == MigrationHolds /\ Migration!GetLogs => MigrationHolds'
<1> SUFFICES ASSUME MigrationHolds, Migration!GetLogs PROVE MigrationHolds'
  OBVIOUS
<1> USE DEF MigrationHolds
<1> DEFINE batch == {l \in logs : blocksFrom <= l.block /\ l.block <= Migration!BlocksTo}
<1>1. /\ stage = "logs" /\ unwritten' = [i \in DOMAIN Migration!Parses |-> Migration!Parse(batch, Migration!Parses[i])]
      /\ isStopped' = (isStopped \/ Migration!Stops(Migration!BlocksTo))
      /\ IF unwritten' = Migration!Nothing
         THEN Migration!NextBatch(isStopped')
         ELSE stage' = "write" /\ UNCHANGED <<blocksFrom, completed>>
      /\ UNCHANGED <<logs, registered, events, known, toLoad, before, errors>>
  BY DEF Migration!GetLogs
<1>2. /\ ~isStopped /\ toLoad = <<>> /\ ~completed /\ before \subseteq registered /\ known \subseteq registered
      /\ \A t \in before : t.type \in Migration!Range(Migration!Types) => t \in known
      /\ events \subseteq Migration!Wanted(registered)
      /\ \A l \in logs : l.block \in Nat
      /\ blocksFrom \in Int /\ Migration!BlocksTo \in Int
  <2>1. Migration!Range(<<>>) = {}
    BY DEF Migration!Range
  <2>2. blocksFrom \in Int
    BY MigrationAssumption, ScriptAssumption DEF Migration!TypeOK
  <2>3. \A l \in logs : l.block \in Nat
    BY MigrationAssumption DEF Migration!TypeOK
  <2> QED BY <1>1, <2>1, <2>2, <2>3, ScriptAssumption DEF Migration!TypeOK, Migration!MigrationInv, Migration!BlocksTo
<1>3. isStopped' \in BOOLEAN /\ (isStopped' <=> Migration!Stops(Migration!BlocksTo))
  BY <1>1, <1>2 DEF Migration!Stops
<1>4. \A e \in Migration!Expected(blocksFrom..Migration!BlocksTo) :
          \E i \in DOMAIN Migration!Parses : e \in unwritten'[i]
  <2> TAKE e \in Migration!Expected(blocksFrom..Migration!BlocksTo)
  <2>1. PICK k : WantedFor(e, k, before) /\ k.block \in blocksFrom..Migration!BlocksTo /\ ~Migration!PassedOver(k)
    BY ExpectedMember
  <2>2. k \in logs /\ k.token \in before
    BY <2>1 DEF WantedFor
  <2>3. k \in batch
    BY <1>2, <2>1, <2>2
  <2>4. k.token.type \in Migration!Range(Migration!Types)
    <3>1. PICK i \in DOMAIN Migration!Parses : Migration!Parses[i] = [type |-> k.token.type, event |-> k.event]
      BY <2>1 DEF WantedFor
    <3>2. Migration!Parses[i].type = k.token.type
      BY <3>1
    <3> QED BY <3>2, ParseFields
  <2>5. k.token \in known
    BY <1>2, <2>2, <2>4
  <2> QED BY <1>1, <2>1, <2>3, <2>5, ParseOf
<1>5. unwritten' \in [DOMAIN Migration!Parses -> SUBSET Migration!Wanted(registered)]
  <2>1. batch \subseteq logs
    OBVIOUS
  <2> HIDE DEF batch
  <2>2. \A i \in DOMAIN Migration!Parses : Migration!Parse(batch, Migration!Parses[i]) \subseteq Migration!Wanted(registered)
    BY <1>2, <2>1, ParseWanted
  <2> QED BY <1>1, <2>2
<1> HIDE DEF batch
<1>6. CASE unwritten' = Migration!Nothing
  <2>1. Migration!Expected(blocksFrom..Migration!BlocksTo) = {}
    BY <1>4, <1>6 DEF Migration!Nothing
  <2> QED BY <1>1, <1>2, <1>3, <1>6, <2>1, NextBatchHolds
<1>7. CASE unwritten' # Migration!Nothing
  <2>1. stage' = "write" /\ UNCHANGED <<blocksFrom, completed>>
    BY <1>1, <1>7
  <2>2. Migration!TypeOK'
    BY <1>1, <1>3, <2>1 DEF Migration!TypeOK
  <2>3. Migration!BlocksTo' = Migration!BlocksTo
    BY <2>1 DEF Migration!BlocksTo
  <2>4. Migration!Expected(blocksFrom..Migration!BlocksTo) \subseteq events' \cup Migration!Ahead'
    BY <1>4, <1>5 DEF Migration!Ahead
  <2>5. Migration!Expected(Start..blocksFrom - 1) \subseteq events /\ blocksFrom <= Finish
    BY <1>1 DEF Migration!MigrationInv
  <2>6. \A B : Migration!Expected(B)' = Migration!Expected(B)
    BY <1>1, MigrationFrame
  <2>7. Migration!Wanted(registered)' = Migration!Wanted(registered)
    BY <1>1, MigrationFrame
  <2>8. isStopped' <=> Migration!Stops(Migration!BlocksTo)'
    BY <1>3, <2>3 DEF Migration!Stops
  <2> QED BY <1>1, <1>2, <1>5, <2>1, <2>2, <2>3, <2>4, <2>5, <2>6, <2>7, <2>8 DEF Migration!MigrationInv
<1> QED BY <1>6, <1>7

\* An insert takes its rows from what is still to be written.
LEMMA WriteChunkStep == MigrationHolds /\ Migration!WriteChunk => MigrationHolds'
<1> SUFFICES ASSUME MigrationHolds, Migration!WriteChunk PROVE MigrationHolds'
  OBVIOUS
<1> USE DEF MigrationHolds
<1>1. /\ stage = "write"
      /\ IF unwritten' = Migration!Nothing
         THEN Migration!NextBatch(isStopped)
         ELSE UNCHANGED <<stage, blocksFrom, completed>>
      /\ UNCHANGED <<logs, registered, known, toLoad, isStopped, before, errors>>
  BY DEF Migration!WriteChunk
<1>2. PICK i \in DOMAIN Migration!Parses, chunk \in SUBSET UNION {unwritten[j] : j \in DOMAIN Migration!Parses} :
          chunk \subseteq unwritten[i] /\ events' = events \cup chunk /\ unwritten' = [unwritten EXCEPT ![i] = @ \ chunk]
  BY DEF Migration!WriteChunk, Migration!kSubset
<1>3. /\ unwritten \in [DOMAIN Migration!Parses -> SUBSET Migration!Wanted(registered)]
      /\ events \subseteq Migration!Wanted(registered)
      /\ isStopped \in BOOLEAN /\ (isStopped <=> Migration!Stops(Migration!BlocksTo))
      /\ Migration!Expected(blocksFrom..Migration!BlocksTo) \subseteq events \cup Migration!Ahead
      /\ ~completed
  BY <1>1 DEF Migration!MigrationInv, Migration!TypeOK
<1>4. /\ unwritten' \in [DOMAIN Migration!Parses -> SUBSET Migration!Wanted(registered)]
      /\ events' \subseteq Migration!Wanted(registered) /\ events \subseteq events'
      /\ \A j \in DOMAIN Migration!Parses : unwritten[j] \subseteq events' \cup unwritten'[j]
  BY <1>2, <1>3
<1>5. Migration!Expected(blocksFrom..Migration!BlocksTo) \subseteq events' \cup Migration!Ahead'
  BY <1>3, <1>4 DEF Migration!Ahead
<1>6. CASE unwritten' = Migration!Nothing
  <2>1. Migration!Ahead' = {}
    BY <1>6 DEF Migration!Ahead, Migration!Nothing
  <2> QED BY <1>1, <1>3, <1>4, <1>5, <1>6, <2>1, NextBatchHolds
<1>7. CASE unwritten' # Migration!Nothing
  <2>1. UNCHANGED <<stage, blocksFrom, completed>>
    BY <1>1, <1>7
  <2>2. Migration!TypeOK'
    BY <1>1, <2>1 DEF Migration!TypeOK
  <2>3. Migration!BlocksTo' = Migration!BlocksTo
    BY <2>1 DEF Migration!BlocksTo
  <2>5. Migration!Expected(Start..blocksFrom - 1) \subseteq events' /\ blocksFrom <= Finish
    BY <1>1, <1>4 DEF Migration!MigrationInv
  <2>6. \A B : Migration!Expected(B)' = Migration!Expected(B)
    BY <1>1, MigrationFrame
  <2>7. Migration!Wanted(registered)' = Migration!Wanted(registered)
    BY <1>1, MigrationFrame
  <2>8. isStopped' <=> Migration!Stops(Migration!BlocksTo)'
    BY <1>1, <1>3, <2>3 DEF Migration!Stops
  <2> QED BY <1>1, <1>3, <1>4, <1>5, <2>1, <2>2, <2>3, <2>5, <2>6, <2>7, <2>8 DEF Migration!MigrationInv
<1> QED BY <1>6, <1>7

LEMMA MigrationInvHolds == Spec => [](job = "migration" => MigrationHolds)
<1>1. Init => (job = "migration" => MigrationHolds)
  BY MigrationBegins DEF Init
<1>2. (job = "migration" => MigrationHolds) /\ [Next]_vars => (job = "migration" => MigrationHolds)'
  <2> SUFFICES ASSUME [Next]_vars, job = "migration", MigrationHolds PROVE MigrationHolds'
    BY StepOf
  <2>1. CASE Migration!Next
    BY <2>1, RegisterStep, LoadMapStep, GetLogsStep, WriteChunkStep, MigrationErrorStep DEF Migration!Next
  <2>2. CASE UNCHANGED <<Migration!vars>>
    <3>1. UNCHANGED <<logs, registered, events, stage, known, toLoad, blocksFrom, isStopped, unwritten, before, completed, errors>>
      BY <2>2 DEF Migration!vars, Migration!scriptVars, Migration!historyVars
    <3>2. Migration!Ahead' = Migration!Ahead /\ Migration!BlocksTo' = Migration!BlocksTo
      BY <3>1 DEF Migration!Ahead, Migration!BlocksTo
    <3>3. \A B : Migration!Expected(B)' = Migration!Expected(B)
      BY <3>1, MigrationFrame
    <3>4. Migration!Wanted(registered)' = Migration!Wanted(registered)
      BY <3>1, MigrationFrame
    <3> QED BY <3>1, <3>2, <3>3, <3>4 DEF MigrationHolds, Migration!TypeOK, Migration!MigrationInv, Migration!Stops
  <2> QED BY <2>1, <2>2, StepOf
<1> QED BY <1>1, <1>2, PTL DEF Spec

\* After a run of the migration that went to its end, whatever failed before, no event of the
\* range of the tokens there were when it began is missing but what the script passes over, the
\* tokens without a symbol and what does not decode; and nothing but events of registered
\* tokens is ever stored.
THEOREM EventsAreMigrated == Spec => []EventsMigrated
<1>1. (job = "migration" => MigrationHolds) => EventsMigrated
  BY DEF EventsMigrated, Migration!EventsMigrated, MigrationHolds, Migration!MigrationInv, Migration!Expected
<1> QED BY <1>1, MigrationInvHolds, PTL

-----------------------------------------------------------------------------
(* The repair of internal transactions *)

Stages == {"check", "blocks", "traces", "write", "done", "dead"}

Shapes(s) == Internal!BatchShape(s) /\ Internal!WriteShape(s) /\ Internal!FillShape(s)

InternalTypes ==
    /\ stored \subseteq 0..Height /\ errors \in 0..MaxErrors
    /\ stage \in [Shards -> Stages]
    /\ DOMAIN from = Shards /\ DOMAIN blocks = Shards /\ DOMAIN traces = Shards
    /\ DOMAIN written = Shards /\ DOMAIN missed = Shards

InternalHolds == InternalTypes /\ Internal!RowsSound /\ \A s \in Shards : Shapes(s)

\* The loop of a shard a step does not touch.
Untouched(t) ==
    /\ stage'[t] = stage[t] /\ from'[t] = from[t] /\ blocks'[t] = blocks[t]
    /\ traces'[t] = traces[t] /\ written'[t] = written[t] /\ missed'[t] = missed[t]

LEMMA ShardKept ==
  ASSUME NEW t, Untouched(t), rows \subseteq rows', Shapes(t)
  PROVE  Shapes(t)'
<1> USE DEF Untouched
<1>1. Internal!BatchShape(t)'
  BY DEF Shapes, Internal!BatchShape
<1>2. Internal!WriteShape(t)'
  BY DEF Shapes, Internal!WriteShape, Internal!ToDo
<1>3. \A b : Internal!Owed(t, b)' <=> Internal!Owed(t, b)
  BY DEF Internal!Owed
<1>4. \A b, n : Internal!RowsTo(b, n) \subseteq rows => Internal!RowsTo(b, n) \subseteq rows'
  OBVIOUS
<1>5. Internal!ToDo(t)' = Internal!ToDo(t)
  BY DEF Internal!ToDo
<1>6. Internal!FillShape(t)'
  BY <1>3, <1>4, <1>5 DEF Shapes, Internal!FillShape
<1> QED BY <1>1, <1>2, <1>6 DEF Shapes

LEMMA OneShard ==
  ASSUME InternalHolds, NEW s \in Shards, InternalTypes', Internal!RowsSound', Shapes(s)',
         rows \subseteq rows', \A t \in Shards \ {s} : Untouched(t)
  PROVE  InternalHolds'
BY ShardKept DEF InternalHolds

LEMMA InternalBegins == Internal!Init => InternalHolds
<1> SUFFICES ASSUME Internal!Init PROVE InternalHolds
  OBVIOUS
<1>1. InternalTypes
  <2>1. 0 \in 0..MaxErrors
    BY ScriptAssumption
  <2>2. stored \subseteq 0..Height
    <3>1. PICK h \in From..Height : stored = 0..h
      BY DEF Internal!Init
    <3> QED BY <3>1, InternalAssumption
  <2> QED BY <2>1, <2>2 DEF Internal!Init, InternalTypes, Stages
<1>2. ASSUME NEW s \in Shards PROVE Shapes(s)
  <2>1. /\ stage[s] = "check" /\ from[s] = From /\ blocks[s] = <<>> /\ traces[s] = <<>> /\ written[s] = <<>>
    BY DEF Internal!Init
  <2>2. Internal!ToDo(s) = {}
    BY <2>1 DEF Internal!ToDo
  <2>3. From..From - 1 = {} /\ From \in From..To + BatchSize /\ 0 \in 0..BatchSize
    BY InternalAssumption, ScriptAssumption
  <2>4. blocks[s] = [i \in 1..0 |-> from[s] + i - 1]
    BY <2>1
  <2>5. Internal!BatchShape(s)
    BY <2>1, <2>3, <2>4 DEF Internal!BatchShape
  <2> QED BY <2>1, <2>2, <2>3, <2>5 DEF Shapes, Internal!WriteShape, Internal!FillShape
<1> QED BY <1>1, <1>2 DEF InternalHolds, Internal!RowsSound, Internal!Init

LEMMA CheckStep == InternalHolds /\ (Internal!Check \/ Internal!CheckFails) => InternalHolds'
<1> SUFFICES ASSUME InternalHolds, Internal!Check \/ Internal!CheckFails PROVE InternalHolds'
  OBVIOUS
<1>1. /\ \A s \in Shards : stage[s] = "check"
      /\ \E new \in Stages :
            /\ stage' = [s \in Shards |-> new]
            /\ new = "dead" \/ (new = "blocks" /\ From < To) \/ (new = "done" /\ ~(From < To))
      /\ UNCHANGED <<stored, rows, from, blocks, traces, written, missed>>
      /\ errors' = errors \/ (errors < MaxErrors /\ errors' = errors + 1)
  BY DEF Internal!Check, Internal!CheckFails, Stages
<1>2. PICK new \in Stages :
        /\ stage' = [s \in Shards |-> new]
        /\ new = "dead" \/ (new = "blocks" /\ From < To) \/ (new = "done" /\ ~(From < To))
  BY <1>1
<1>3. errors' \in 0..MaxErrors
  BY <1>1, ScriptAssumption DEF InternalHolds, InternalTypes
<1>4. InternalTypes'
  BY <1>1, <1>2, <1>3 DEF InternalHolds, InternalTypes
<1>5. Internal!RowsSound'
  BY <1>1 DEF InternalHolds, Internal!RowsSound
<1>6. ASSUME NEW s \in Shards PROVE Shapes(s)'
  <2>1. /\ Shapes(s) /\ stage[s] = "check" /\ stage'[s] = new
        /\ UNCHANGED <<rows, from, blocks, traces, written, missed>>
    BY <1>1, <1>2 DEF InternalHolds
  <2>2. from[s] = From /\ Internal!ToDo(s) = {} /\ traces[s] = <<>>
    BY <2>1 DEF Shapes, Internal!FillShape, Internal!WriteShape
  <2>3. Internal!ToDo(s)' = {}
    BY <2>1, <2>2 DEF Internal!ToDo
  <2>4. Internal!BatchShape(s)'
    BY <1>2, <2>1 DEF Shapes, Internal!BatchShape
  <2>5. Internal!WriteShape(s)'
    BY <2>1, <2>2, <2>3 DEF Internal!WriteShape
  <2>6. From..From - 1 = {} /\ (From < To \/ To <= From)
    BY InternalAssumption
  <2>7. Internal!FillShape(s)'
    BY <1>2, <2>1, <2>2, <2>6 DEF Internal!FillShape
  <2> QED BY <2>4, <2>5, <2>7 DEF Shapes
<1> QED BY <1>4, <1>5, <1>6 DEF InternalHolds

LEMMA AgainStep == InternalHolds /\ Internal!Again => InternalHolds'
<1> SUFFICES ASSUME InternalHolds, Internal!Again PROVE InternalHolds'
  OBVIOUS
<1>1. /\ stage' = [s \in Shards |-> "check"] /\ from' = [s \in Shards |-> From]
      /\ blocks' = [s \in Shards |-> <<>>] /\ traces' = [s \in Shards |-> <<>>]
      /\ written' = [s \in Shards |-> <<>>] /\ missed' = [s \in Shards |-> {}]
      /\ UNCHANGED <<stored, rows, errors>>
  BY DEF Internal!Again
<1>2. InternalTypes' /\ Internal!RowsSound'
  BY <1>1 DEF InternalHolds, InternalTypes, Internal!RowsSound, Stages
<1>3. ASSUME NEW s \in Shards PROVE Shapes(s)'
  <2>1. /\ stage'[s] = "check" /\ from'[s] = From /\ blocks'[s] = <<>> /\ traces'[s] = <<>> /\ written'[s] = <<>>
    BY <1>1
  <2>2. Internal!ToDo(s)' = {}
    BY <2>1 DEF Internal!ToDo
  <2>3. From..From - 1 = {} /\ From \in From..To + BatchSize /\ 0 \in 0..BatchSize
    BY InternalAssumption, ScriptAssumption
  <2>4. blocks'[s] = [i \in 1..0 |-> from'[s] + i - 1]
    BY <2>1
  <2>5. Internal!BatchShape(s)'
    BY <2>1, <2>3, <2>4 DEF Internal!BatchShape
  <2> QED BY <2>1, <2>2, <2>3, <2>5 DEF Shapes, Internal!WriteShape, Internal!FillShape
<1> QED BY <1>2, <1>3 DEF InternalHolds

LEMMA RequestFailsStep ==
  ASSUME InternalHolds, NEW s \in Shards, Internal!RequestFails(s)
  PROVE  InternalHolds'
<1>1. /\ stage[s] \in {"blocks", "traces"} /\ errors < MaxErrors /\ errors' = errors + 1
      /\ stage' = [stage EXCEPT ![s] = "dead"]
      /\ UNCHANGED <<stored, rows, from, blocks, traces, written, missed>>
  BY DEF Internal!RequestFails
<1>2. errors' \in 0..MaxErrors
  BY <1>1, ScriptAssumption DEF InternalHolds, InternalTypes
<1>3. InternalTypes' /\ stage'[s] = "dead"
  BY <1>1, <1>2 DEF InternalHolds, InternalTypes, Stages
<1>4. Internal!RowsSound'
  BY <1>1 DEF InternalHolds, Internal!RowsSound
<1>5. \A t \in Shards \ {s} : Untouched(t)
  BY <1>1 DEF InternalHolds, InternalTypes, Untouched
<1>6. Shapes(s)'
  <2>1. Shapes(s)
    BY DEF InternalHolds
  <2>2. Internal!ToDo(s) = {} /\ Internal!ToDo(s)' = {} /\ traces[s] = <<>>
    BY <1>1, <2>1 DEF Shapes, Internal!WriteShape, Internal!ToDo
  <2>3. Internal!BatchShape(s)'
    BY <1>1, <1>3, <2>1 DEF Shapes, Internal!BatchShape
  <2> QED BY <1>1, <1>3, <2>2, <2>3 DEF Shapes, Internal!WriteShape, Internal!FillShape
<1> QED BY <1>1, <1>3, <1>4, <1>5, <1>6, OneShard

\* The least of two.
LEMMA MinOfTwo ==
  ASSUME NEW a \in Int, NEW b \in Int
  PROVE  Internal!Min({a, b}) = IF a <= b THEN a ELSE b
<1>1. \E m \in {a, b} : \A y \in {a, b} : m <= y
  OBVIOUS
<1> QED BY <1>1 DEF Internal!Min

\* A batch goes as far as the node has blocks; the rest is missed.
LEMMA GetBlocksStep ==
  ASSUME InternalHolds, NEW s \in Shards, Internal!GetBlocks(s)
  PROVE  InternalHolds'
<1> DEFINE Last(h) == Internal!Min({from[s] + BatchSize - 1, h})
           Size(h) == IF Last(h) < from[s] THEN 0 ELSE Last(h) - from[s] + 1
<1>1. PICK height \in Lowest..Height :
          /\ blocks' = [blocks EXCEPT ![s] = [i \in 1..Size(height) |-> from[s] + i - 1]]
          /\ missed' = [missed EXCEPT ![s] = @ \cup (Last(height) + 1 .. from[s] + BatchSize - 1)]
  BY DEF Internal!GetBlocks
<1>2. /\ stage[s] = "blocks" /\ stage' = [stage EXCEPT ![s] = "traces"]
      /\ UNCHANGED <<stored, rows, from, traces, written, errors>>
  BY DEF Internal!GetBlocks
<1>3. Shapes(s) /\ InternalTypes /\ Internal!RowsSound
  BY DEF InternalHolds
<1>4. from[s] \in Nat /\ BatchSize \in Nat \ {0} /\ height \in Nat /\ height <= Height /\ Height \in Nat
  <2>1. from[s] \in From..To + BatchSize
    BY <1>3 DEF Shapes, Internal!BatchShape
  <2> QED BY <2>1, InternalAssumption, ScriptAssumption
<1>5. Last(height) = IF from[s] + BatchSize - 1 <= height THEN from[s] + BatchSize - 1 ELSE height
  BY <1>4, MinOfTwo
<1> DEFINE n == Size(height)
<1>6. /\ n \in 0..BatchSize
      /\ n > 0 => from[s] + n - 1 <= Height
      /\ from[s] + n .. from[s] + BatchSize - 1 \subseteq Last(height) + 1 .. from[s] + BatchSize - 1
  <2>1. /\ Last(height) \in Int /\ Last(height) <= Height /\ Last(height) <= from[s] + BatchSize - 1
        /\ n = IF Last(height) < from[s] THEN 0 ELSE Last(height) - from[s] + 1
    BY <1>4, <1>5
  <2> HIDE DEF n, Last
  <2>2. n \in 0..BatchSize /\ (n > 0 => from[s] + n - 1 <= Height) /\ from[s] + n >= Last(height) + 1
    BY <1>4, <2>1
  <2> QED BY <1>4, <2>1, <2>2
<1> HIDE DEF n, Last
<1>7. /\ blocks'[s] = [i \in 1..n |-> from'[s] + i - 1] /\ stage'[s] = "traces" /\ InternalTypes'
      /\ missed'[s] = missed[s] \cup (Last(height) + 1 .. from[s] + BatchSize - 1)
      /\ \A t \in Shards \ {s} : Untouched(t)
  BY <1>1, <1>2, <1>3 DEF InternalTypes, Stages, Untouched, n
<1>8. Internal!RowsSound'
  BY <1>2, <1>3 DEF Internal!RowsSound
<1>9. Shapes(s)'
  <2>1. Internal!BatchShape(s)'
    <3>1. /\ blocks'[s] = [i \in 1..n |-> from'[s] + i - 1]
          /\ n > 0 => from'[s] + n - 1 <= Height
      BY <1>2, <1>6, <1>7
    <3>3. from[s] + n .. from[s] + BatchSize - 1 \subseteq missed'[s]
      BY <1>6, <1>7
    <3>4. from'[s] + n .. from'[s] + BatchSize - 1 \subseteq missed'[s]
      BY <1>2, <3>3
    <3>2. from'[s] \in From..To + BatchSize
      BY <1>2, <1>3 DEF Shapes, Internal!BatchShape
    <3>5. n \in 0..BatchSize
      BY <1>6
    <3> QED BY <3>1, <3>2, <3>4, <3>5 DEF Internal!BatchShape
  <2>2. Internal!ToDo(s)' = {} /\ traces'[s] = <<>>
    BY <1>2, <1>3 DEF Shapes, Internal!WriteShape, Internal!ToDo
  <2>3. Internal!WriteShape(s)'
    BY <1>7, <2>2 DEF Internal!WriteShape
  <2>4. \A b : Internal!Owed(s, b)' => Internal!Owed(s, b)
    BY <1>7 DEF Internal!Owed
  <2>5. Internal!FillShape(s)'
    BY <1>2, <1>3, <1>7, <2>4 DEF Shapes, Internal!FillShape
  <2> QED BY <2>1, <2>3, <2>5 DEF Shapes
<1> QED BY <1>2, <1>7, <1>8, <1>9, OneShard

\* The blocks of a batch are numbers up to the height.
LEMMA BlocksOf ==
  ASSUME NEW s, Internal!BatchShape(s), NEW i \in DOMAIN blocks[s]
  PROVE  blocks[s][i] \in 0..Height /\ Traced[blocks[s][i]] \in Nat
<1>1. PICK n \in 0..BatchSize :
        /\ blocks[s] = [j \in 1..n |-> from[s] + j - 1]
        /\ n > 0 => from[s] + n - 1 <= Height
  BY DEF Internal!BatchShape
<1>2. i \in 1..n /\ blocks[s][i] = from[s] + i - 1
  BY <1>1
<1>3. from[s] \in Nat /\ n \in Nat /\ Height \in Nat
  BY InternalAssumption, ScriptAssumption DEF Internal!BatchShape
<1>4. blocks[s][i] \in 0..Height
  BY <1>1, <1>2, <1>3
<1> QED BY <1>4, InternalAssumption

\* A trace that is found is that of the block at its position; one that is not found and not
\* missed has no rows.
LEMMA GetTracesStep ==
  ASSUME InternalHolds, NEW s \in Shards, Internal!GetTraces(s)
  PROVE  InternalHolds'
<1> DEFINE found(w) == [i \in DOMAIN blocks[s] |->
                           IF blocks[s][i] \in w THEN <<>> ELSE Internal!Trace(blocks[s][i])]
<1>1. PICK without :
          /\ missed' = [missed EXCEPT ![s] = @ \cup without]
          /\ traces' = [traces EXCEPT ![s] = found(without)]
          /\ written' = [written EXCEPT ![s] =
                [i \in {j \in Internal!Quiet(blocks[s]) : found(without)[j] # <<>>} |-> 0]]
  BY DEF Internal!GetTraces, Internal!Filtered
<1>2. /\ stage[s] = "traces" /\ stage' = [stage EXCEPT ![s] = "write"]
      /\ UNCHANGED <<stored, rows, from, blocks, errors>>
  BY DEF Internal!GetTraces
<1>3. Shapes(s) /\ InternalTypes /\ Internal!RowsSound
  BY DEF InternalHolds
<1> DEFINE given == found(without)
<1>4. /\ missed'[s] = missed[s] \cup without /\ traces'[s] = given /\ stage'[s] = "write"
      /\ written'[s] = [i \in {j \in Internal!Quiet(blocks[s]) : given[j] # <<>>} |-> 0]
      /\ InternalTypes'
      /\ \A t \in Shards \ {s} : Untouched(t)
  BY <1>1, <1>2, <1>3 DEF InternalTypes, Stages, Untouched
<1>5. /\ DOMAIN given = DOMAIN blocks[s]
      /\ \A i \in DOMAIN blocks[s] :
            given[i] = IF blocks[s][i] \in without THEN <<>> ELSE Internal!Trace(blocks[s][i])
  OBVIOUS
<1> HIDE DEF given
<1>6. /\ Internal!ToDo(s)' = {j \in Internal!Quiet(blocks[s]) : given[j] # <<>>}
      /\ \A i \in Internal!ToDo(s)' : written'[s][i] = 0
  BY <1>4 DEF Internal!ToDo
<1>7. \A i \in DOMAIN blocks[s] : i \in Internal!Quiet(blocks[s]) <=> Inputs[blocks[s][i]] = "short"
  BY DEF Internal!Quiet
<1>8. Internal!Quiet(blocks[s]) \subseteq DOMAIN blocks[s]
  BY DEF Internal!Quiet
<1>9. Internal!RowsSound'
  BY <1>2, <1>3 DEF Internal!RowsSound
<1>10. Internal!BatchShape(s)'
  BY <1>2, <1>3, <1>4 DEF Shapes, Internal!BatchShape
<1>11. Internal!WriteShape(s)'
  <2>1. ASSUME NEW i \in Internal!ToDo(s)'
        PROVE  /\ i \in DOMAIN blocks[s] /\ given[i] = Internal!Trace(blocks[s][i])
               /\ Inputs[blocks[s][i]] = "short" /\ written'[s][i] \in 0..Traced[blocks[s][i]]
    <3>1. i \in DOMAIN blocks[s] /\ given[i] # <<>> /\ Inputs[blocks[s][i]] = "short" /\ written'[s][i] = 0
      BY <1>6, <1>7, <1>8
    <3>2. Traced[blocks[s][i]] \in Nat
      BY <1>3, <3>1, BlocksOf DEF Shapes
    <3> QED BY <1>5, <3>1, <3>2
  <2>2. traces'[s] = given /\ blocks'[s] = blocks[s] /\ stage'[s] = "write"
    BY <1>2, <1>4
  <2>3. \A b : Internal!Trace(b)' = Internal!Trace(b)
    BY DEF Internal!Trace
  <2> QED BY <1>5, <2>1, <2>2, <2>3 DEF Internal!WriteShape
<1>12. \A b : Internal!Owed(s, b)' => Internal!Owed(s, b) /\ b \notin without
  BY <1>4 DEF Internal!Owed
<1>13. \A b : Internal!RowsTo(b, 0) = {}
  BY DEF Internal!RowsTo
<1>14. ASSUME NEW i \in DOMAIN blocks[s], Internal!Owed(s, blocks[s][i])'
       PROVE  Internal!RowsTo(blocks[s][i], IF i \in Internal!ToDo(s)' THEN written'[s][i]
                                            ELSE Traced[blocks[s][i]]) \subseteq rows
  <2>1. CASE i \in Internal!ToDo(s)'
    BY <1>6, <1>13, <2>1
  <2>2. CASE i \notin Internal!ToDo(s)'
    <3>1. Inputs[blocks[s][i]] = "short" /\ blocks[s][i] \notin without
      BY <1>2, <1>12, <1>14 DEF Internal!Owed
    <3>2. given[i] = <<>> /\ given[i] = Internal!Trace(blocks[s][i])
      BY <1>5, <1>6, <1>7, <2>2, <3>1
    <3>3. Traced[blocks[s][i]] \in Nat
      BY <1>3, BlocksOf DEF Shapes
    <3>4. Traced[blocks[s][i]] = 0
      <4>1. DOMAIN Internal!Trace(blocks[s][i]) = 1..Traced[blocks[s][i]]
        BY DEF Internal!Trace
      <4>2. DOMAIN Internal!Trace(blocks[s][i]) = {}
        <5>1. Internal!Trace(blocks[s][i]) = <<>>
          BY <3>2
        <5> QED BY <5>1
      <4> QED BY <3>3, <4>1, <4>2
    <3> QED BY <1>13, <2>2, <3>4
  <2> QED BY <2>1, <2>2
<1>15. Internal!FillShape(s)'
  BY <1>2, <1>3, <1>4, <1>12, <1>14 DEF Shapes, Internal!FillShape
<1> QED BY <1>2, <1>4, <1>9, <1>10, <1>11, <1>15, OneShard DEF Shapes

\* With nothing left to write, the blocks of the batch are behind as well.
LEMMA NextBatchStep ==
  ASSUME InternalHolds, NEW s \in Shards, Internal!NextBatch(s)
  PROVE  InternalHolds'
<1>1. /\ stage[s] = "write" /\ Internal!ToDo(s) = {}
      /\ from' = [from EXCEPT ![s] = @ + BatchSize]
      /\ stage' = [stage EXCEPT ![s] = IF from[s] + BatchSize < To THEN "blocks" ELSE "done"]
      /\ blocks' = [blocks EXCEPT ![s] = <<>>] /\ traces' = [traces EXCEPT ![s] = <<>>]
      /\ UNCHANGED <<stored, rows, written, missed, errors>>
  BY DEF Internal!NextBatch
<1>2. Shapes(s) /\ InternalTypes /\ Internal!RowsSound
  BY DEF InternalHolds
<1>3. /\ from'[s] = from[s] + BatchSize
      /\ stage'[s] = IF from'[s] < To THEN "blocks" ELSE "done"
      /\ blocks'[s] = <<>> /\ traces'[s] = <<>> /\ InternalTypes'
      /\ \A t \in Shards \ {s} : Untouched(t)
  BY <1>1, <1>2 DEF InternalTypes, Stages, Untouched
<1>4. Internal!RowsSound'
  BY <1>1, <1>2 DEF Internal!RowsSound
<1>5. /\ From \in Nat /\ To \in Nat /\ BatchSize \in Nat \ {0}
      /\ from[s] \in Nat /\ From <= from[s] /\ from[s] < To
  BY <1>1, <1>2, InternalAssumption, ScriptAssumption DEF Shapes, Internal!BatchShape, Internal!FillShape
<1>6. Internal!BatchShape(s)'
  <2>1. from'[s] \in From..To + BatchSize /\ 0 \in 0..BatchSize
    BY <1>3, <1>5
  <2>2. blocks'[s] = [i \in 1..0 |-> from'[s] + i - 1]
    BY <1>3
  <2>3. stage'[s] \notin {"traces", "write"}
    BY <1>3
  <2> QED BY <2>1, <2>2, <2>3 DEF Internal!BatchShape
<1>7. Internal!WriteShape(s)'
  <2>1. Internal!ToDo(s)' = {}
    BY <1>1 DEF Internal!ToDo
  <2> QED BY <1>3, <2>1 DEF Internal!WriteShape
<1>8. ASSUME NEW b \in From..from'[s] - 1, Internal!Owed(s, b)
      PROVE  Internal!RowsTo(b, Traced[b]) \subseteq rows
  <2>1. CASE b \in From..from[s] - 1
    BY <1>1, <1>2, <1>8, <2>1 DEF Shapes, Internal!FillShape
  <2>2. CASE b \notin From..from[s] - 1
    <3>1. PICK n \in 0..BatchSize :
            /\ blocks[s] = [i \in 1..n |-> from[s] + i - 1]
            /\ from[s] + n .. from[s] + BatchSize - 1 \subseteq missed[s]
      BY <1>1, <1>2 DEF Shapes, Internal!BatchShape
    <3>2. b \notin from[s] + n .. from[s] + BatchSize - 1
      BY <1>8, <3>1 DEF Internal!Owed
    <3>3. b - from[s] + 1 \in 1..n /\ b = from[s] + (b - from[s] + 1) - 1
      BY <1>3, <1>5, <2>2, <3>2
    <3>4. PICK i \in 1..n : b = from[s] + i - 1
      BY <3>3
    <3>5. i \in DOMAIN blocks[s] /\ blocks[s][i] = b
      BY <3>1, <3>4
    <3> QED BY <1>1, <1>2, <1>8, <3>5 DEF Shapes, Internal!FillShape
  <2> QED BY <2>1, <2>2
<1>9. Internal!FillShape(s)'
  <2>1. \A b : Internal!Owed(s, b)' <=> Internal!Owed(s, b)
    BY <1>1 DEF Internal!Owed
  <2>2. from'[s] < To \/ To <= from'[s]
    BY <1>3, <1>5
  <2> QED BY <1>1, <1>3, <1>8, <2>1, <2>2 DEF Internal!FillShape
<1> QED BY <1>1, <1>3, <1>4, <1>6, <1>7, <1>9, OneShard DEF Shapes

LEMMA TraceOf ==
  ASSUME NEW b, Traced[b] \in Nat
  PROVE  /\ Len(Internal!Trace(b)) = Traced[b]
         /\ \A j \in 1..Traced[b] : Internal!Trace(b)[j] = <<b, j>>
BY DEF Internal!Trace

\* A chunk is rows of the block at its position, from the first not handled.
LEMMA ChunkOf ==
  ASSUME InternalHolds, NEW s \in Shards, NEW i \in Internal!ToDo(s)
  PROVE  LET b == blocks[s][i]
             w == written[s][i]
             n == Internal!ChunkEnd(s, i)
         IN  /\ Inputs[b] = "short" /\ w \in 0..Traced[b] /\ b \in 0..Height /\ Traced[b] \in Nat
             /\ Len(traces[s][i]) = Traced[b] /\ n \in w..Traced[b] /\ n \in Nat
             /\ Internal!Chunk(s, i) \subseteq Internal!RowsTo(b, Traced[b])
             /\ \A j \in w + 1 .. n : <<b, j>> \in Internal!Chunk(s, i)
<1> DEFINE b == blocks[s][i]
           w == written[s][i]
           n == Internal!ChunkEnd(s, i)
           chunk == Internal!Chunk(s, i)
<1>1. n = Internal!Min({w + ChunkSize, Len(traces[s][i])}) /\ chunk = {traces[s][i][j] : j \in w + 1 .. n}
  BY DEF Internal!ChunkEnd, Internal!Chunk
<1>2. Shapes(s) /\ InternalTypes
  BY DEF InternalHolds
<1>3. /\ i \in DOMAIN blocks[s] /\ traces[s][i] = Internal!Trace(b) /\ Inputs[b] = "short"
      /\ w \in 0..Traced[b]
  BY <1>2 DEF Shapes, Internal!WriteShape
<1>4. b \in 0..Height /\ Traced[b] \in Nat
  BY <1>2, <1>3, BlocksOf DEF Shapes
<1>5. /\ Len(traces[s][i]) = Traced[b]
      /\ \A j \in 1..Traced[b] : traces[s][i][j] = <<b, j>>
  BY <1>3, <1>4, TraceOf
<1> HIDE DEF b, w, n, chunk
<1>6. n \in w..Traced[b] /\ n \in Nat
  <2>1. n = IF w + ChunkSize <= Traced[b] THEN w + ChunkSize ELSE Traced[b]
    BY <1>1, <1>3, <1>4, <1>5, MinOfTwo, ScriptAssumption
  <2> QED BY <1>3, <1>4, <2>1, ScriptAssumption
<1>7. /\ chunk \subseteq Internal!RowsTo(b, Traced[b])
      /\ \A j \in w + 1 .. n : <<b, j>> \in chunk
  <2>1. w + 1 .. n \subseteq 1..Traced[b]
    BY <1>3, <1>4, <1>6
  <2>2. \A j \in w + 1 .. n : traces[s][i][j] = <<b, j>>
    BY <1>5, <2>1
  <2> QED BY <1>1, <2>1, <2>2 DEF Internal!RowsTo
<1> QED BY <1>3, <1>4, <1>5, <1>6, <1>7 DEF b, w, n, chunk

\* The rows of a chunk, or some of them, are added.
LEMMA RowsStaySound ==
  ASSUME InternalHolds, NEW s \in Shards, NEW i \in Internal!ToDo(s),
         NEW landed \in SUBSET Internal!Chunk(s, i), rows' = rows \cup landed
  PROVE  Internal!RowsSound'
<1> DEFINE b == blocks[s][i]
<1>1. /\ Inputs[b] = "short" /\ b \in 0..Height /\ landed \subseteq Internal!RowsTo(b, Traced[b])
      /\ Internal!RowsSound
  BY ChunkOf DEF InternalHolds
<1> HIDE DEF b
<1>2. \A row \in landed : row[1] = b
  BY <1>1 DEF Internal!RowsTo
<1> QED BY <1>1, <1>2 DEF Internal!RowsSound, Internal!RowsTo

\* A chunk adds rows of the block at its position, from the first not handled.
LEMMA WriteRowsStep ==
  ASSUME InternalHolds, NEW s \in Shards, NEW i \in Internal!ToDo(s), Internal!WriteChunk(s, i)
  PROVE  InternalHolds'
<1> DEFINE b == blocks[s][i]
           w == written[s][i]
           n == Internal!ChunkEnd(s, i)
           chunk == Internal!Chunk(s, i)
<1>1. /\ stage[s] \in {"write", "dead"} /\ rows' = rows \cup chunk
      /\ written' = [written EXCEPT ![s] = IF n = Len(traces[s][i])
                        THEN Internal!Restrict(@, Internal!ToDo(s) \ {i}) ELSE [@ EXCEPT ![i] = n]]
      /\ UNCHANGED <<stored, stage, from, blocks, traces, missed, errors>>
  BY DEF Internal!WriteChunk
<1>2. Shapes(s) /\ InternalTypes /\ Internal!RowsSound
  BY DEF InternalHolds
<1>3. /\ Inputs[b] = "short" /\ w \in 0..Traced[b] /\ b \in 0..Height /\ Traced[b] \in Nat
      /\ Len(traces[s][i]) = Traced[b] /\ n \in w..Traced[b] /\ n \in Nat
      /\ chunk \subseteq Internal!RowsTo(b, Traced[b])
      /\ \A j \in w + 1 .. n : <<b, j>> \in chunk
  BY ChunkOf
<1> HIDE DEF b, w, n, chunk
<1>8. Internal!RowsSound'
  BY <1>1, RowsStaySound DEF chunk
<1>9. /\ InternalTypes' /\ \A t \in Shards \ {s} : Untouched(t)
      /\ written'[s] = IF n = Traced[b] THEN Internal!Restrict(written[s], Internal!ToDo(s) \ {i})
                                       ELSE [written[s] EXCEPT ![i] = n]
  BY <1>1, <1>2, <1>3 DEF InternalTypes, Untouched
<1>10. /\ Internal!ToDo(s)' = IF n = Traced[b] THEN Internal!ToDo(s) \ {i} ELSE Internal!ToDo(s)
       /\ \A j \in Internal!ToDo(s)' : written'[s][j] = IF j = i THEN n ELSE written[s][j]
  <2>1. CASE n = Traced[b]
    <3>1. written'[s] = [j \in Internal!ToDo(s) \ {i} |-> written[s][j]]
      BY <1>9, <2>1 DEF Internal!Restrict
    <3> QED BY <2>1, <3>1 DEF Internal!ToDo
  <2>2. CASE n # Traced[b]
    <3>1. written'[s] = [written[s] EXCEPT ![i] = n]
      BY <1>9, <2>2
    <3>2. DOMAIN written'[s] = DOMAIN written[s] /\ \A j \in DOMAIN written[s] : written'[s][j] = IF j = i THEN n ELSE written[s][j]
      BY <3>1
    <3> QED BY <2>2, <3>2 DEF Internal!ToDo
  <2> QED BY <2>1, <2>2
<1>11. Internal!BatchShape(s)'
  BY <1>1, <1>2 DEF Shapes, Internal!BatchShape
<1>12. Internal!WriteShape(s)'
  <2>1. ASSUME NEW j \in Internal!ToDo(s)'
        PROVE  /\ j \in DOMAIN blocks[s] /\ j \in DOMAIN traces[s]
               /\ traces[s][j] = Internal!Trace(blocks[s][j]) /\ Inputs[blocks[s][j]] = "short"
               /\ written'[s][j] \in 0..Traced[blocks[s][j]]
    <3>1. j \in Internal!ToDo(s)
      BY <1>10, <2>1
    <3>2. /\ j \in DOMAIN blocks[s] /\ j \in DOMAIN traces[s]
          /\ traces[s][j] = Internal!Trace(blocks[s][j]) /\ Inputs[blocks[s][j]] = "short"
          /\ written[s][j] \in 0..Traced[blocks[s][j]]
      BY <1>2, <3>1 DEF Shapes, Internal!WriteShape
    <3>3. n \in 0..Traced[b]
      BY <1>3
    <3> QED BY <1>10, <2>1, <3>2, <3>3 DEF b
  <2>2. \A c : Internal!Trace(c)' = Internal!Trace(c)
    BY DEF Internal!Trace
  <2>3. /\ traces[s] = <<>> \/ DOMAIN traces[s] = DOMAIN blocks[s]
        /\ stage[s] \in {"check", "blocks", "traces"} => traces[s] = <<>>
    BY <1>2 DEF Shapes, Internal!WriteShape
  <2> QED BY <1>1, <2>1, <2>2, <2>3 DEF Internal!WriteShape
<1>13. \A c : Internal!Owed(s, c)' <=> Internal!Owed(s, c)
  BY <1>1 DEF Internal!Owed
<1>14. ASSUME stage[s] = "write", NEW j \in DOMAIN blocks[s], Internal!Owed(s, blocks[s][j])
       PROVE  Internal!RowsTo(blocks[s][j], IF j \in Internal!ToDo(s)' THEN written'[s][j]
                                            ELSE Traced[blocks[s][j]]) \subseteq rows'
  <2>1. Internal!RowsTo(blocks[s][j], IF j \in Internal!ToDo(s) THEN written[s][j]
                                      ELSE Traced[blocks[s][j]]) \subseteq rows'
    BY <1>1, <1>2, <1>14 DEF Shapes, Internal!FillShape
  <2>2. CASE j # i
    <3>1. j \in Internal!ToDo(s)' <=> j \in Internal!ToDo(s)
      BY <1>10, <2>2
    <3>2. j \in Internal!ToDo(s)' => written'[s][j] = written[s][j]
      BY <1>10, <2>2
    <3> QED BY <2>1, <3>1, <3>2
  <2>3. CASE j = i
    <3>1. Internal!RowsTo(b, w) \subseteq rows'
      BY <2>1, <2>3 DEF b, w
    <3>2. Internal!RowsTo(b, n) \subseteq rows'
      <4> SUFFICES ASSUME NEW m \in 1..n PROVE <<b, m>> \in rows'
        BY DEF Internal!RowsTo
      <4>1. m \in 1..w \/ m \in w + 1 .. n
        BY <1>3
      <4> QED BY <1>1, <1>3, <3>1, <4>1 DEF Internal!RowsTo
    <3>3. n = IF i \in Internal!ToDo(s)' THEN written'[s][i] ELSE Traced[b]
      BY <1>10
    <3> QED BY <2>3, <3>2, <3>3 DEF b
  <2> QED BY <2>2, <2>3
<1>15. Internal!FillShape(s)'
  <2>1. stage[s] = "write" => \A j \in DOMAIN blocks[s] : Internal!Owed(s, blocks[s][j]) =>
            Internal!RowsTo(blocks[s][j], IF j \in Internal!ToDo(s)' THEN written'[s][j]
                                          ELSE Traced[blocks[s][j]]) \subseteq rows'
    BY <1>14
  <2>2. stage[s] \in {"check", "blocks", "traces", "write", "done"} =>
            \A c \in From..from[s] - 1 : Internal!Owed(s, c) => Internal!RowsTo(c, Traced[c]) \subseteq rows'
    BY <1>1, <1>2 DEF Shapes, Internal!FillShape
  <2> QED BY <1>1, <1>2, <1>13, <2>1, <2>2 DEF Shapes, Internal!FillShape
<1> QED BY <1>1, <1>8, <1>9, <1>11, <1>12, <1>15, OneShard DEF Shapes

LEMMA WriteFailsStep ==
  ASSUME InternalHolds, NEW s \in Shards, NEW i \in Internal!ToDo(s), Internal!WriteFails(s, i)
  PROVE  InternalHolds'
<1>1. /\ stage' = [stage EXCEPT ![s] = "dead"]
      /\ written' = [written EXCEPT ![s] = Internal!Restrict(@, Internal!ToDo(s) \ {i})]
      /\ UNCHANGED <<stored, from, blocks, traces, missed>>
      /\ errors' = errors \/ (errors < MaxErrors /\ errors' = errors + 1)
      /\ \E landed \in SUBSET Internal!Chunk(s, i) : rows' = rows \cup landed
  BY DEF Internal!WriteFails
<1>2. Shapes(s) /\ InternalTypes /\ Internal!RowsSound
  BY DEF InternalHolds
<1>3. errors' \in 0..MaxErrors
  BY <1>1, <1>2, ScriptAssumption DEF InternalTypes
<1>4. /\ InternalTypes' /\ stage'[s] = "dead" /\ \A t \in Shards \ {s} : Untouched(t)
      /\ written'[s] = [j \in Internal!ToDo(s) \ {i} |-> written[s][j]]
  BY <1>1, <1>2, <1>3 DEF InternalTypes, Untouched, Stages, Internal!Restrict
<1>5. Internal!ToDo(s)' = Internal!ToDo(s) \ {i} /\ \A j \in Internal!ToDo(s)' : written'[s][j] = written[s][j]
  BY <1>4 DEF Internal!ToDo
<1>6. Internal!RowsSound' /\ rows \subseteq rows'
  BY <1>1, RowsStaySound
<1>7. Internal!BatchShape(s)'
  BY <1>1, <1>2, <1>4 DEF Shapes, Internal!BatchShape
<1>8. Internal!WriteShape(s)'
  <2>1. \A c : Internal!Trace(c)' = Internal!Trace(c)
    BY DEF Internal!Trace
  <2> QED BY <1>1, <1>2, <1>4, <1>5, <2>1 DEF Shapes, Internal!WriteShape
<1>9. Internal!FillShape(s)'
  BY <1>4 DEF Internal!FillShape
<1> QED BY <1>1, <1>4, <1>6, <1>7, <1>8, <1>9, OneShard DEF Shapes

LEMMA InternalInvHolds == Spec => [](job = "internal" => InternalHolds)
<1>1. Init => (job = "internal" => InternalHolds)
  BY InternalBegins DEF Init
<1>2. (job = "internal" => InternalHolds) /\ [Next]_vars => (job = "internal" => InternalHolds)'
  <2> SUFFICES ASSUME [Next]_vars, job = "internal", InternalHolds PROVE InternalHolds'
    BY StepOf
  <2>1. CASE Internal!Next
    BY <2>1, CheckStep, AgainStep, GetBlocksStep, GetTracesStep, RequestFailsStep, NextBatchStep,
       WriteRowsStep, WriteFailsStep DEF Internal!Next
  <2>2. CASE UNCHANGED <<Internal!vars>>
    <3>1. UNCHANGED <<stored, rows, stage, from, blocks, traces, written, missed, errors>>
      BY <2>2 DEF Internal!vars, Internal!loopVars
    <3>2. \A t \in Shards : Shapes(t)'
      BY <3>1, ShardKept DEF InternalHolds, Untouched
    <3> QED BY <3>1, <3>2 DEF InternalHolds, InternalTypes, Internal!RowsSound
  <2> QED BY <2>1, <2>2, StepOf
<1> QED BY <1>1, <1>2, PTL DEF Spec

\* A loop of the repair that went to its end has stored all internal transactions of the blocks
\* without inputs that the nodes gave it, whatever failed before it, and none of another block.
THEOREM QuietBlocksAreFilled == Spec => []QuietBlocksFilled
<1>1. ASSUME InternalHolds PROVE Internal!QuietBlocksFilled
  <2>1. \A row \in rows : Inputs[row[1]] = "short"
    BY <1>1 DEF InternalHolds, Internal!RowsSound
  <2>2. ASSUME NEW s \in Shards, stage[s] = "done", NEW b \in From..To - 1,
               b <= Height, Inputs[b] = "short", b \notin missed[s]
        PROVE  Internal!Range(Internal!Trace(b)) \subseteq rows
    <3>1. Internal!BatchShape(s) /\ Internal!FillShape(s)
      BY <1>1 DEF InternalHolds, Shapes
    <3>2. b \in From..from[s] - 1 /\ b \in 0..Height
      <4>1. To <= from[s] /\ from[s] \in Int
        BY <2>2, <3>1, InternalAssumption, ScriptAssumption DEF Internal!BatchShape, Internal!FillShape
      <4> QED BY <2>2, <4>1, InternalAssumption
    <3>3. Internal!RowsTo(b, Traced[b]) \subseteq rows
      BY <2>2, <3>1, <3>2 DEF Internal!FillShape, Internal!Owed
    <3>4. Internal!Range(Internal!Trace(b)) = Internal!RowsTo(b, Traced[b])
      BY DEF Internal!Range, Internal!Trace, Internal!RowsTo
    <3> QED BY <3>3, <3>4
  <2> QED BY <2>1, <2>2 DEF Internal!QuietBlocksFilled
<1>2. (job = "internal" => InternalHolds) => QuietBlocksFilled
  BY <1>1 DEF QuietBlocksFilled
<1> QED BY <1>2, InternalInvHolds, PTL

-----------------------------------------------------------------------------
(* The API: its queries and their keys *)

\* The method of a cached query, from the name in its key and the number of its arguments.
MethodOf(key, n) ==
    IF key = "getAllERC20" /\ n = 2 THEN "getUserERC20Balances"
    ELSE IF key = "getERC20TokenHolders" /\ n = 2 THEN "getERC20TransferInfo"
    ELSE IF key = "getTokenERC1155Assets" /\ n = 3 THEN "getTokenERC1155AssetDetails"
    ELSE IF key = "getContractByField" THEN "getContractsByField"
    ELSE IF key = "getLatestBlockNumber" THEN "latestOfLogs"
    ELSE key

Fits(m, n) ==
    /\ Api!Method(m).age \in Nat
    /\ Api!Method(m).cached => m = MethodOf(Api!Method(m).key, n)
    /\ m = "ethGetLogs" => n = 2

\* A query of a route or one a handler goes on with.
Regular(q) == q = Api!Query(q.method, q.args) /\ Fits(q.method, Len(q.args))

\* A query after which no handler goes on.
Last(q) == Regular(q) /\ q.method # "getTransactionByField" /\ q.method # "latestOfLogs"

LEMMA QueriesAreRegular ==
  ASSUME NEW m
  PROVE  /\ Fits(m, 0) => Regular(Api!Query(m, <<>>))
         /\ \A A : Fits(m, 1) => \A q \in Api!Queries1(m, A) : Regular(q) /\ q.method = m
         /\ \A A, B : Fits(m, 2) => \A q \in Api!Queries2(m, A, B) : Regular(q) /\ q.method = m
         /\ \A A, B, C : Fits(m, 3) => \A q \in Api!Queries3(m, A, B, C) : Regular(q) /\ q.method = m
         /\ \A A, B, C, D : Fits(m, 4) => \A q \in Api!Queries4(m, A, B, C, D) : Regular(q) /\ q.method = m
<1>1. \A args : Fits(m, Len(args)) => Regular(Api!Query(m, args)) /\ Api!Query(m, args).method = m
  BY DEF Regular, Api!Query
<1>2. Len(<<>>) = 0 /\ \A a : Len(<<a>>) = 1
  OBVIOUS
<1>3. Fits(m, 0) => Regular(Api!Query(m, <<>>))
  BY <1>1, <1>2
<1>4. \A A : Fits(m, 1) => \A q \in Api!Queries1(m, A) : Regular(q) /\ q.method = m
  BY <1>1, <1>2 DEF Api!Queries1
<1>5. \A A, B : Fits(m, 2) => \A q \in Api!Queries2(m, A, B) : Regular(q) /\ q.method = m
  <2> SUFFICES ASSUME NEW A, NEW B, Fits(m, 2), NEW q \in Api!Queries2(m, A, B)
        PROVE  Regular(q) /\ q.method = m
    OBVIOUS
  <2>1. PICK a \in A, b \in B : q = Api!Query(m, <<a, b>>)
    BY DEF Api!Queries2
  <2>2. Len(<<a, b>>) = 2
    OBVIOUS
  <2> QED BY <1>1, <2>1, <2>2
<1>6. \A A, B, C : Fits(m, 3) => \A q \in Api!Queries3(m, A, B, C) : Regular(q) /\ q.method = m
  <2> SUFFICES ASSUME NEW A, NEW B, NEW C, Fits(m, 3), NEW q \in Api!Queries3(m, A, B, C)
        PROVE  Regular(q) /\ q.method = m
    OBVIOUS
  <2>1. PICK a \in A, b \in B, c \in C : q = Api!Query(m, <<a, b, c>>)
    BY DEF Api!Queries3
  <2>2. Len(<<a, b, c>>) = 3
    OBVIOUS
  <2> QED BY <1>1, <2>1, <2>2
<1>7. \A A, B, C, D : Fits(m, 4) => \A q \in Api!Queries4(m, A, B, C, D) : Regular(q) /\ q.method = m
  <2> SUFFICES ASSUME NEW A, NEW B, NEW C, NEW D, Fits(m, 4), NEW q \in Api!Queries4(m, A, B, C, D)
        PROVE  Regular(q) /\ q.method = m
    OBVIOUS
  <2>1. PICK a \in A, b \in B, c \in C, d \in D : q = Api!Query(m, <<a, b, c, d>>)
    BY DEF Api!Queries4
  <2>2. Len(<<a, b, c, d>>) = 4
    OBVIOUS
  <2> QED BY <1>1, <2>1, <2>2
<1> QED BY <1>3, <1>4, <1>5, <1>6, <1>7

\* A method is the row of its controller.
LEMMA MethodRows ==
  /\ \A m \in DOMAIN Api!BlockController : Api!Method(m) = Api!BlockController[m]
  /\ \A m \in DOMAIN Api!TransactionController : Api!Method(m) = Api!TransactionController[m]
  /\ \A m \in DOMAIN Api!StakingController : Api!Method(m) = Api!StakingController[m]
  /\ \A m \in DOMAIN Api!InternalController : Api!Method(m) = Api!InternalController[m]
  /\ \A m \in DOMAIN Api!AddressController : Api!Method(m) = Api!AddressController[m]
  /\ \A m \in DOMAIN Api!ContractController : Api!Method(m) = Api!ContractController[m]
  /\ \A m \in DOMAIN Api!CountController : Api!Method(m) = Api!CountController[m]
  /\ \A m \in DOMAIN Api!SignatureController : Api!Method(m) = Api!SignatureController[m]
  /\ \A m \in DOMAIN Api!PriceController : Api!Method(m) = Api!PriceController[m]
  /\ \A m \in DOMAIN Api!GasController : Api!Method(m) = Api!GasController[m]
  /\ \A m \in DOMAIN Api!MetricsController : Api!Method(m) = Api!MetricsController[m]
  /\ \A m \in DOMAIN Api!LogController : Api!Method(m) = Api!LogController[m]
  /\ \A m \in DOMAIN Api!EthLogsController : Api!Method(m) = Api!EthLogsController[m]
  /\ \A m \in DOMAIN Api!ERC20Controller : Api!Method(m) = Api!ERC20Controller[m]
  /\ \A m \in DOMAIN Api!ERC721Controller : Api!Method(m) = Api!ERC721Controller[m]
  /\ \A m \in DOMAIN Api!ERC1155Controller : Api!Method(m) = Api!ERC1155Controller[m]
<1> USE DEF Api!Method, Api!BlockController, Api!TransactionController, Api!StakingController,
            Api!InternalController, Api!AddressController, Api!ContractController, Api!CountController,
            Api!SignatureController, Api!PriceController, Api!GasController, Api!MetricsController,
            Api!LogController, Api!EthLogsController, Api!ERC20Controller, Api!ERC721Controller,
            Api!ERC1155Controller
<1>1. \A m \in DOMAIN Api!BlockController : Api!Method(m) = Api!BlockController[m]
  OBVIOUS
<1>2. \A m \in DOMAIN Api!TransactionController : Api!Method(m) = Api!TransactionController[m]
  OBVIOUS
<1>3. \A m \in DOMAIN Api!StakingController : Api!Method(m) = Api!StakingController[m]
  OBVIOUS
<1>4. \A m \in DOMAIN Api!InternalController : Api!Method(m) = Api!InternalController[m]
  OBVIOUS
<1>5. \A m \in DOMAIN Api!AddressController : Api!Method(m) = Api!AddressController[m]
  OBVIOUS
<1>6. \A m \in DOMAIN Api!ContractController : Api!Method(m) = Api!ContractController[m]
  OBVIOUS
<1>7. \A m \in DOMAIN Api!CountController : Api!Method(m) = Api!CountController[m]
  OBVIOUS
<1>8. \A m \in DOMAIN Api!SignatureController : Api!Method(m) = Api!SignatureController[m]
  OBVIOUS
<1>9. \A m \in DOMAIN Api!PriceController : Api!Method(m) = Api!PriceController[m]
  OBVIOUS
<1>10. \A m \in DOMAIN Api!GasController : Api!Method(m) = Api!GasController[m]
  OBVIOUS
<1>11. \A m \in DOMAIN Api!MetricsController : Api!Method(m) = Api!MetricsController[m]
  OBVIOUS
<1>12. \A m \in DOMAIN Api!LogController : Api!Method(m) = Api!LogController[m]
  OBVIOUS
<1>13. \A m \in DOMAIN Api!EthLogsController : Api!Method(m) = Api!EthLogsController[m]
  OBVIOUS
<1>14. \A m \in DOMAIN Api!ERC20Controller : Api!Method(m) = Api!ERC20Controller[m]
  OBVIOUS
<1>15. \A m \in DOMAIN Api!ERC721Controller : Api!Method(m) = Api!ERC721Controller[m]
  OBVIOUS
<1>16. \A m \in DOMAIN Api!ERC1155Controller : Api!Method(m) = Api!ERC1155Controller[m]
  OBVIOUS
<1> HIDE DEF Api!Method
<1> QED BY ONLY <1>1, <1>2, <1>3, <1>4, <1>5, <1>6, <1>7, <1>8, <1>9, <1>10, <1>11, <1>12, <1>13, <1>14, <1>15, <1>16

\* The rows of the controllers.
LEMMA MethodsFit ==
  /\ Fits("getBlockByNumber", 2) /\ Fits("getBlockByHash", 2) /\ Fits("getBlocks", 2)
  /\ Fits("getTransactionByField", 3) /\ Fits("getTransactions", 2)
  /\ Fits("getStakingTransactionsByField", 3) /\ Fits("getStakingTransactions", 2)
  /\ Fits("getInternalTransactionsByField", 3) /\ Fits("getRelatedTransactionsByType", 4)
  /\ Fits("getContractsByField", 3) /\ Fits("getCount", 2) /\ Fits("getSignaturesByHash", 1)
  /\ Fits("getBinancePairPrice", 1) /\ Fits("getBinancePairHistoricalPrice", 1) /\ Fits("getOneTokenPrice", 0)
  /\ Fits("getGasPrice", 0) /\ Fits("getTransactionCountLast14Days", 0) /\ Fits("getWalletsCountLast14Days", 0)
  /\ Fits("getMetricsByType", 3) /\ Fits("getLogsByField", 3) /\ Fits("ethGetLogs", 2) /\ Fits("latestOfLogs", 2)
  /\ Fits("getAllERC20", 1) /\ Fits("getUserERC20Balances", 2) /\ Fits("getERC20TokenHolders", 4)
  /\ Fits("getERC20TransferInfo", 2)
  /\ Fits("getAllERC721", 1) /\ Fits("getUserERC721Assets", 2) /\ Fits("getTokenERC721Assets", 2)
  /\ Fits("getAllERC1155", 1) /\ Fits("getUserERC1155Balances", 2) /\ Fits("getTokenERC1155Balances", 2)
  /\ Fits("getTokenERC1155Assets", 2) /\ Fits("getTokenERC1155AssetDetails", 3)
<1>1. \A m, n, params : m # "ethGetLogs" /\ Api!Method(m) = Api!Uncached(params) => Fits(m, n)
  <2>1. \A params : ~Api!Uncached(params).cached /\ Api!Uncached(params).age = 0
    BY DEF Api!Uncached
  <2> QED BY <2>1 DEF Fits
<1> USE DEF Fits, MethodOf, Api!Cached, Api!Hour, Api!Minute
<1>2. Fits("getBlockByNumber", 2) /\ Fits("getBlockByHash", 2) /\ Fits("getBlocks", 2)
  BY MethodRows DEF Api!BlockController
<1>3. Fits("getTransactionByField", 3) /\ Fits("getTransactions", 2)
  BY MethodRows DEF Api!TransactionController
<1>4. Fits("getStakingTransactionsByField", 3) /\ Fits("getStakingTransactions", 2)
  <2>1. /\ Api!Method("getStakingTransactionsByField") = Api!StakingController["getStakingTransactionsByField"]
        /\ Api!Method("getStakingTransactions") = Api!StakingController["getStakingTransactions"]
    BY MethodRows DEF Api!StakingController
  <2> QED BY <1>1, <2>1 DEF Api!StakingController
<1>5. Fits("getInternalTransactionsByField", 3) /\ Fits("getRelatedTransactionsByType", 4)
  BY MethodRows DEF Api!InternalController, Api!AddressController
<1>6. Fits("getContractsByField", 3) /\ Fits("getSignaturesByHash", 1)
  BY MethodRows DEF Api!ContractController, Api!SignatureController
<1>13. Fits("getCount", 2)
  <2>1. Api!Method("getCount") = Api!CountController["getCount"]
    BY MethodRows DEF Api!CountController
  <2> QED BY <1>1, <2>1 DEF Api!CountController
<1>7. Fits("getBinancePairPrice", 1) /\ Fits("getBinancePairHistoricalPrice", 1) /\ Fits("getOneTokenPrice", 0)
  BY MethodRows DEF Api!PriceController
<1>8. /\ Fits("getGasPrice", 0) /\ Fits("getTransactionCountLast14Days", 0)
      /\ Fits("getWalletsCountLast14Days", 0) /\ Fits("getMetricsByType", 3)
  BY MethodRows DEF Api!GasController, Api!MetricsController
<1>9. Fits("getLogsByField", 3) /\ Fits("ethGetLogs", 2) /\ Fits("latestOfLogs", 2)
  BY MethodRows DEF Api!LogController, Api!EthLogsController
<1>10. /\ Fits("getAllERC20", 1) /\ Fits("getUserERC20Balances", 2) /\ Fits("getERC20TokenHolders", 4)
       /\ Fits("getERC20TransferInfo", 2)
  BY MethodRows DEF Api!ERC20Controller
<1>11. Fits("getAllERC721", 1) /\ Fits("getUserERC721Assets", 2) /\ Fits("getTokenERC721Assets", 2)
  BY MethodRows DEF Api!ERC721Controller
<1>12. /\ Fits("getAllERC1155", 1) /\ Fits("getUserERC1155Balances", 2) /\ Fits("getTokenERC1155Balances", 2)
       /\ Fits("getTokenERC1155Assets", 2) /\ Fits("getTokenERC1155AssetDetails", 3)
  BY MethodRows DEF Api!ERC1155Controller
<1> QED BY ONLY <1>2, <1>3, <1>4, <1>5, <1>6, <1>7, <1>8, <1>9, <1>10, <1>11, <1>12, <1>13

LEMMA RoutesAreRegular ==
  ASSUME NEW q \in Api!Routes
  PROVE  /\ Regular(q) /\ q.method # "latestOfLogs"
         /\ q.method = "getTransactionByField" => q \in Api!TransactionRoutes
<1>1. \A p \in Api!BlockRoutes \cup Api!StakingRoutes \cup Api!InternalRoutes \cup Api!LogsRoutes : Last(p)
  BY MethodsFit, QueriesAreRegular
     DEF Last, Api!BlockRoutes, Api!StakingRoutes, Api!InternalRoutes, Api!LogsRoutes, Api!ByField, Api!Counts
<1>2. \A p \in Api!TransactionRoutes : Regular(p) /\ p.method # "latestOfLogs"
  BY MethodsFit, QueriesAreRegular DEF Api!TransactionRoutes, Api!ByField, Api!Counts
<1>3. \A p \in Api!AddressRoutes \cup Api!ERC20Routes : Last(p)
  BY MethodsFit, QueriesAreRegular DEF Last, Api!AddressRoutes, Api!ERC20Routes
<1>4. \A p \in Api!ERC721Routes \cup Api!ERC1155Routes : Last(p)
  BY MethodsFit, QueriesAreRegular DEF Last, Api!ERC721Routes, Api!ERC1155Routes
<1>5. \A p \in Api!PriceRoutes \cup Api!MetricsRoutes : Last(p)
  <2>1. \A m : Api!Query(m, <<>>).method = m
    BY DEF Api!Query
  <2> QED BY <2>1, MethodsFit, QueriesAreRegular DEF Last, Api!PriceRoutes, Api!MetricsRoutes
<1>6. \A p \in Api!SignatureRoutes \cup Api!GasRoute \cup Api!RpcRoute : Last(p)
  <2>1. \A m : Api!Query(m, <<>>).method = m
    BY DEF Api!Query
  <2> QED BY <2>1, MethodsFit, QueriesAreRegular DEF Last, Api!SignatureRoutes, Api!GasRoute, Api!RpcRoute
<1> QED BY <1>1, <1>2, <1>3, <1>4, <1>5, <1>6 DEF Api!Routes, Last

\* By the other hash a transaction is asked for with as many arguments.
LEMMA ThenOfTransaction ==
  ASSUME NEW q \in Api!TransactionRoutes
  PROVE  /\ Regular(Api!Then(q)) /\ Api!Then(q).method = q.method
         /\ Api!Then(q).args[2] = Api!Arg("word", "hash_harmony")
<1>1. /\ Regular(q) /\ q.method # "latestOfLogs"
      /\ \/ \E a, b : q.args = <<a, b>>
         \/ \E a, b, c : q.args = <<a, b, c>>
  <2>1. q \in Api!Routes
    BY DEF Api!Routes
  <2>2. \/ \E m, a, b : q = Api!Query(m, <<a, b>>)
        \/ \E m, a, b, c : q = Api!Query(m, <<a, b, c>>)
    <3>1. \/ \E m, A, B : q \in Api!Queries2(m, A, B)
          \/ \E m, A, B, C : q \in Api!Queries3(m, A, B, C)
      BY DEF Api!TransactionRoutes, Api!ByField, Api!Counts
    <3>2. ASSUME NEW m, NEW A, NEW B, q \in Api!Queries2(m, A, B)
          PROVE  \E a, b : q = Api!Query(m, <<a, b>>)
      <4>1. PICK a \in A, b \in B : q = Api!Query(m, <<a, b>>)
        BY <3>2 DEF Api!Queries2
      <4> QED BY <4>1
    <3>3. ASSUME NEW m, NEW A, NEW B, NEW C, q \in Api!Queries3(m, A, B, C)
          PROVE  \E a, b, c : q = Api!Query(m, <<a, b, c>>)
      <4>1. PICK a \in A, b \in B, c \in C : q = Api!Query(m, <<a, b, c>>)
        BY <3>3 DEF Api!Queries3
      <4> QED BY <4>1
    <3> QED BY <3>1, <3>2, <3>3
  <2>3. \A m, args : Api!Query(m, args).args = args
    BY DEF Api!Query
  <2>4. Regular(q) /\ q.method # "latestOfLogs"
    BY <2>1, RoutesAreRegular
  <2>5. (\E a, b : q.args = <<a, b>>) \/ (\E a, b, c : q.args = <<a, b, c>>)
    <3>1. CASE \E m, a, b : q = Api!Query(m, <<a, b>>)
      <4>1. PICK m, a, b : q = Api!Query(m, <<a, b>>)
        BY <3>1
      <4>2. q.args = <<a, b>>
        BY <2>3, <4>1
      <4> QED BY <4>2
    <3>2. CASE \E m, a, b, c : q = Api!Query(m, <<a, b, c>>)
      <4>1. PICK m, a, b, c : q = Api!Query(m, <<a, b, c>>)
        BY <3>2
      <4>2. q.args = <<a, b, c>>
        BY <2>3, <4>1
      <4> QED BY <4>2
    <3> QED BY <2>2, <3>1, <3>2
  <2> QED BY <2>4, <2>5
<1> DEFINE w == Api!Arg("word", "hash_harmony")
           new == [q.args EXCEPT ![2] = w]
<1>2. Len(new) = Len(q.args) /\ new[2] = w
  <2>1. CASE \E a, b : q.args = <<a, b>>
    <3>1. PICK a, b : q.args = <<a, b>>
      BY <2>1
    <3>2. new = <<a, w>>
      BY <3>1
    <3> QED BY <3>1, <3>2
  <2>2. CASE \E a, b, c : q.args = <<a, b, c>>
    <3>1. PICK a, b, c : q.args = <<a, b, c>>
      BY <2>2
    <3>2. new = <<a, w, c>>
      BY <3>1
    <3> QED BY <3>1, <3>2
  <2> QED BY <1>1, <2>1, <2>2
<1>3. Api!Then(q) = Api!Query(q.method, new)
  BY <1>1 DEF Api!Then
<1> HIDE DEF new, w
<1>4. Api!Then(q).method = q.method /\ Api!Then(q).args = new
  BY <1>3 DEF Api!Query
<1> QED BY <1>1, <1>2, <1>3, <1>4 DEF Regular, w

\* A client asks for a transaction by one hash, the handler by the other after it.
LEMMA SecondQuery ==
  ASSUME NEW q \in Api!TransactionRoutes, q.method = "getTransactionByField"
  PROVE  /\ q.args[2].name # "hash_harmony"
         /\ Api!Then(q).args[2].name = "hash_harmony" /\ Api!Then(q).args[3] = q.args[3]
<1>1. \A m, args : Api!Query(m, args).method = m /\ Api!Query(m, args).args = args
  BY DEF Api!Query
<1>2. \E a, b, c : /\ q = Api!Query("getTransactionByField", <<a, b, c>>)
                   /\ b.name \in {"block_number", "block_hash", "hash"}
  <2>1. \A x, w : x \in Api!Word(w) => x.name = w
    BY DEF Api!Word, Api!Arg
  <2>2. ASSUME NEW m, NEW A, NEW B, q \in Api!Queries2(m, A, B) PROVE q.method = m
    <3>1. PICK a \in A, b \in B : q = Api!Query(m, <<a, b>>)
      BY <2>2 DEF Api!Queries2
    <3> QED BY <1>1, <3>1
  <2>3. q \in Api!ByField("getTransactionByField", "hash")
    BY <2>2 DEF Api!TransactionRoutes, Api!Counts
  <2>4. \E B, C : /\ q \in Api!Queries3("getTransactionByField", Api!ShardArgs, B, C)
                  /\ \A b \in B : b.name \in {"block_number", "block_hash", "hash"}
    BY <2>1, <2>3 DEF Api!ByField
  <2>5. PICK B, C : /\ q \in Api!Queries3("getTransactionByField", Api!ShardArgs, B, C)
                    /\ \A b \in B : b.name \in {"block_number", "block_hash", "hash"}
    BY <2>4
  <2>6. PICK a \in Api!ShardArgs, b \in B, c \in C : q = Api!Query("getTransactionByField", <<a, b, c>>)
    BY <2>5 DEF Api!Queries3
  <2> QED BY <2>5, <2>6
<1>3. PICK a, b, c : /\ q = Api!Query("getTransactionByField", <<a, b, c>>)
                     /\ b.name \in {"block_number", "block_hash", "hash"}
  BY <1>2
<1> DEFINE w == Api!Arg("word", "hash_harmony")
<1>4. q.args = <<a, b, c>> /\ w.name = "hash_harmony"
  BY <1>1, <1>3 DEF Api!Arg
<1> HIDE DEF w
<1>5. Api!Then(q).args = [q.args EXCEPT ![2] = w]
  BY <1>1 DEF Api!Then, w
<1>6. [q.args EXCEPT ![2] = w] = <<a, w, c>>
  BY <1>4
<1> QED BY <1>3, <1>4, <1>5, <1>6

LEMMA FirstIsAsked ==
  ASSUME NEW q \in Api!Routes
  PROVE  /\ Api!First(q) \in Api!Asks /\ Regular(Api!First(q)) /\ Api!First(q).method # "ethGetLogs"
         /\ IF q.method = "ethGetLogs" THEN Api!First(q).method = "latestOfLogs" ELSE Api!First(q) = q
<1>1. Regular(q)
  BY RoutesAreRegular
<1>2. Api!First(q) \in Api!Asks
  BY DEF Api!Asks
<1>3. CASE q.method = "ethGetLogs"
  <2>1. Api!First(q) = Api!Query("latestOfLogs", q.args) /\ Len(q.args) = 2
    BY <1>1, <1>3 DEF Api!First, Regular, Fits
  <2>2. Api!First(q).method = "latestOfLogs" /\ Api!First(q).args = q.args
    BY <2>1 DEF Api!Query
  <2> QED BY <1>2, <1>3, <2>1, <2>2, MethodsFit DEF Regular
<1>4. CASE q.method # "ethGetLogs"
  BY <1>1, <1>2, <1>4 DEF Api!First
<1> QED BY <1>3, <1>4

LEMMA AsksAreRegular == \A q \in Api!Asks : Regular(q)
BY RoutesAreRegular, FirstIsAsked, ThenOfTransaction DEF Api!Asks

\* What a handler goes on with is asked for, too.
LEMMA ThenIsAsked ==
  ASSUME NEW q \in Api!Asks, NEW v, Api!GoesOn(q, v)
  PROVE  /\ Api!Then(q) \in Api!Asks /\ Api!Then(q).method # "latestOfLogs"
         /\ IF q.method = "latestOfLogs"
            THEN Api!Then(q).method = "ethGetLogs" /\ Api!Age(Api!Then(q)) = 2 /\ Api!Age(q) = 2
            ELSE /\ Api!Then(q).method = "getTransactionByField" /\ q.method = "getTransactionByField" /\ v = 0
                 /\ q.args[2].name = "hash" /\ Api!Then(q).args[2].name = "hash_harmony"
                 /\ Api!Then(q).args[3] = q.args[3]
<1>1. \/ q \in Api!Routes
      \/ \E p \in Api!Routes : q = Api!First(p)
      \/ \E p \in Api!TransactionRoutes : q = Api!Then(p)
  BY DEF Api!Asks
<1>2. CASE q.method = "latestOfLogs"
  <2>1. PICK p \in Api!Routes : q = Api!First(p)
    <3>1. \A p \in Api!TransactionRoutes : Api!Then(p).method # "latestOfLogs"
      BY ThenOfTransaction, RoutesAreRegular DEF Api!Routes
    <3> QED BY <1>1, <1>2, <3>1, RoutesAreRegular
  <2>2. p.method = "ethGetLogs" /\ Regular(p)
    BY <1>2, <2>1, RoutesAreRegular, FirstIsAsked
  <2>3. q = Api!Query("latestOfLogs", p.args)
    BY <2>1, <2>2 DEF Api!First
  <2>4. q.args = p.args
    BY <2>3 DEF Api!Query
  <2>5. Api!Then(q) = p
    BY <1>2, <2>2, <2>4 DEF Api!Then, Regular
  <2>6. p \in Api!Asks
    BY DEF Api!Asks
  <2>7. Api!Method("ethGetLogs").age = 2 /\ Api!Method("latestOfLogs").age = 2
    BY MethodRows DEF Api!EthLogsController, Api!Cached
  <2> QED BY <1>2, <2>2, <2>5, <2>6, <2>7 DEF Api!Age
<1>3. CASE q.method # "latestOfLogs"
  <2>1. q.method = "getTransactionByField" /\ q.args[2].name = "hash" /\ v = 0
    BY <1>3 DEF Api!GoesOn
  <2>2. \A p \in Api!TransactionRoutes : q # Api!Then(p)
    BY <2>1, ThenOfTransaction DEF Api!Arg
  <2>3. q \in Api!TransactionRoutes
    BY <1>1, <1>3, <2>1, <2>2, RoutesAreRegular, FirstIsAsked
  <2>4. Api!Then(q) \in Api!Asks
    BY <2>3 DEF Api!Asks
  <2> QED BY <1>3, <2>1, <2>3, <2>4, ThenOfTransaction, SecondQuery
<1> QED BY <1>2, <1>3

\* Queries that differ have different keys, although methods share names.
LEMMA KeysDiffer ==
  ASSUME NEW p \in Api!Asks, NEW q \in Api!Asks, Api!Method(p.method).cached, Api!Method(q.method).cached,
         Api!Key(p) = Api!Key(q)
  PROVE  p = q
<1>1. Api!Method(p.method).key = Api!Method(q.method).key /\ p.args = q.args
  BY DEF Api!Key
<1>2. p.method = q.method
  BY <1>1, AsksAreRegular DEF Regular, Fits
<1> QED BY <1>1, <1>2, AsksAreRegular DEF Regular

-----------------------------------------------------------------------------
(* The API: what is answered *)

Points == {"idle", "lookup", "reading", "read", "answered", "rejected"}
NoQuery == Api!Query("", <<>>)
Request == [pc : Points, query : Api!Asks \cup {NoQuery}, source : Api!Asks \cup {NoQuery},
            version : Nat, at : Nat, read : Nat, asked : Nat, since : Nat, there : BOOLEAN]

ApiTypes ==
    /\ queries \subseteq Api!Routes /\ now \in 0..MaxNow /\ version \in 0..MaxVersion
    /\ storedAt \in 0..now
    /\ req \in [Requests -> Request]

Underway(r) == req[r].pc \in {"lookup", "reading", "read"}

\* What the three properties say of one request.
Answered(r) ==
    /\ req[r].source = req[r].query
    /\ req[r].asked <= req[r].at + Api!Lifetime(req[r].query)
    /\ req[r].version = 0 =>
          \/ ~req[r].there
          \/ /\ req[r].query.method = "ethGetLogs"
             /\ req[r].asked <= storedAt + 2 + MaxRead

Good(r) ==
    /\ req[r].there => version > 0
    /\ Underway(r) => Api!Rests(r)
    /\ req[r].pc = "answered" => Answered(r)

ApiHolds == ApiTypes /\ Api!CacheInv /\ \A r \in Requests : Good(r)

\* What an indexer's write, or no write, makes of the version and of the time of the first.
Moves ==
    /\ version \in Nat /\ version' \in Nat /\ version <= version' /\ storedAt \in Nat
    /\ storedAt' = IF version = 0 /\ version' > 0 THEN now ELSE storedAt

\* Ages and lifetimes are numbers.
LEMMA Ages ==
  ASSUME NEW q \in Api!Asks
  PROVE  /\ Api!Age(q) \in Nat /\ Api!Lifetime(q) \in Nat
         /\ Api!Lifetime(q) = IF q.method = "ethGetLogs" THEN 2 * (Api!Age(q) + MaxRead) ELSE Api!Age(q) + MaxRead
<1>1. Api!Age(q) \in Nat
  BY AsksAreRegular DEF Regular, Fits, Api!Age
<1> HIDE DEF Api!Age
<1> QED BY <1>1, ApiAssumption DEF Api!Lifetime

LEMMA BehindKept ==
  ASSUME NEW n, NEW t \in Nat, Api!Behind(n, t), Moves, t <= now
  PROVE  n = 0 /\ version' > 0 => t <= storedAt'
BY DEF Api!Behind, Moves

\* A request that is not touched, while the database moves on.
LEMMA RequestKept ==
  ASSUME NEW r, Good(r), req[r] \in Request, req'[r] = req[r], now' = now, now \in Nat, Moves
  PROVE  Good(r)'
<1> DEFINE q == req[r].query
           n == req[r].version
           t == req[r].at
<1>1. n \in Nat /\ t \in Nat
  BY DEF Request
<1>5. version \in Nat /\ version' \in Nat /\ version <= version'
  BY DEF Moves
<1>2. Answered(r) => Answered(r)'
  <2> SUFFICES ASSUME Answered(r), n = 0 PROVE \/ ~req[r].there
                                               \/ /\ q.method = "ethGetLogs"
                                                  /\ req[r].asked <= storedAt' + 2 + MaxRead
    BY DEF Answered, Api!Lifetime, Api!Age
  <2>1. req[r].there => version > 0
    BY DEF Good
  <2> QED BY <1>5, <2>1 DEF Answered, Moves
<1>3. ASSUME Api!Rests(r) PROVE Api!Rests(r)'
  <2>1. t <= now => /\ Api!Behind(n, t) => (n = 0 /\ version' > 0 => t <= storedAt')
                    /\ Api!Behind(n - 1, t) => (n - 1 = 0 /\ version' > 0 => t <= storedAt')
    BY <1>1, BehindKept
  <2>2. /\ n \in 1..version + 1 => n \in 1..version' + 1
        /\ n \in 0..version => n \in 0..version'
    BY <1>1, <1>5
  <2>3. req[r].pc = "read" => t <= now
    BY <1>1, <1>3 DEF Api!Rests
  <2>4. Api!SecondFinds(r)' = Api!SecondFinds(r) /\ Api!FirstMisses(q)' = Api!FirstMisses(q)
    BY DEF Api!SecondFinds, Api!FirstMisses, Api!OtherKind
  <2>5. req'[r].query = q /\ req'[r].version = n /\ req'[r].at = t
    OBVIOUS
  <2> HIDE DEF q, n, t
  <2> QED BY <1>3, <2>1, <2>2, <2>3, <2>4, <2>5 DEF Api!Rests, Api!Age, Api!Behind, Api!Latest, q, n, t
<1>4. req[r].there => version' > 0
  BY <1>5 DEF Good
<1> QED BY <1>2, <1>3, <1>4 DEF Good, Underway

\* Entries that are not touched, while time and the database move on.
LEMMA CacheKept ==
  ASSUME Api!CacheInv, now \in Nat, now' \in Nat, now <= now', Moves,
         \A k \in DOMAIN cache' : k \in DOMAIN cache /\ cache'[k] = cache[k]
  PROVE  Api!CacheInv'
<1> SUFFICES ASSUME NEW k \in DOMAIN cache' PROVE Api!EntryInv(k)'
  BY DEF Api!CacheInv
<1>1. Api!EntryInv(k) /\ cache'[k] = cache[k]
  BY DEF Api!CacheInv
<1> DEFINE n == cache[k].version
           latest == cache[k].query.method = "latestOfLogs"
<1>2. /\ n \in 1..(IF latest THEN Api!Latest ELSE version) /\ cache[k].at \in 0..now
      /\ latest => Api!Behind(n - 1, cache[k].at)
  BY <1>1 DEF Api!EntryInv
<1>3. version \in Nat /\ version' \in Nat /\ version <= version'
  BY DEF Moves
<1>4. n \in 1..(IF latest THEN Api!Latest' ELSE version') /\ cache[k].at \in 0..now'
  BY <1>2, <1>3 DEF Api!Latest
<1>5. latest => Api!Behind(n - 1, cache[k].at)'
  <2>1. cache[k].at \in Nat /\ cache[k].at <= now
    BY <1>2
  <2>2. Api!Behind(n - 1, cache[k].at) => (n - 1 = 0 /\ version' > 0 => cache[k].at <= storedAt')
    BY <2>1, <1>2, BehindKept
  <2> QED BY <1>1, <1>2, <2>2 DEF Api!Behind, n
<1> QED BY <1>1, <1>4, <1>5 DEF Api!EntryInv, Api!Lifetime, Api!Age

\* Entries stored by warmUpCache, of the queries the routes can make.
LEMMA ApiBegins == Api!Init => ApiHolds
<1> SUFFICES ASSUME Api!Init PROVE ApiHolds
  OBVIOUS
<1>1. /\ queries \subseteq Api!Routes /\ now = 0 /\ version \in 0..MaxVersion /\ storedAt = 0
      /\ cache = Api!WarmedUp(version) /\ req = [r \in Requests |-> Api!Idle]
  BY DEF Api!Init
<1>2. Api!Idle \in Request /\ Api!Idle.pc = "idle" /\ ~Api!Idle.there
  BY DEF Api!Idle, Request, Points, NoQuery
<1>3. ApiTypes
  BY <1>1, <1>2, ApiAssumption DEF ApiTypes
<1>4. \A r \in Requests : Good(r)
  BY <1>1, <1>2 DEF Good, Underway
<1>5. ASSUME NEW k \in DOMAIN cache PROVE Api!EntryInv(k)
  <2> DEFINE one == Api!Arg("word", "ONEUSDT")
             warm == {Api!Query("getTransactionCountLast14Days", <<>>), Api!Query("getWalletsCountLast14Days", <<>>),
                      Api!Query("getBinancePairHistoricalPrice", <<one>>), Api!Query("getBinancePairPrice", <<one>>)}
             asked(j) == CHOOSE w \in warm : Api!Key(w) = j
  <2>1. version # 0
    BY <1>1, <1>5 DEF Api!WarmedUp, Api!Empty
  <2>2. cache = [j \in {Api!Key(q) : q \in warm \cap queries} |->
                    [query |-> asked(j), version |-> version, at |-> 0, expires |-> Api!Age(asked(j))]]
    BY <1>1, <2>1 DEF Api!WarmedUp
  <2> DEFINE w == asked(k)
  <2>3. PICK q \in warm \cap queries : k = Api!Key(q)
    BY <2>2
  <2>4. w \in warm /\ Api!Key(w) = k
    BY <2>3
  <2>5. /\ cache[k].query = w /\ cache[k].version = version /\ cache[k].at = 0
        /\ cache[k].expires = Api!Age(w)
    BY <2>2
  <2> HIDE DEF w, asked
  <2>6. \A x \in warm : /\ Api!Method(x.method).key = x.method /\ Api!Method(x.method).cached
                        /\ x.method # "latestOfLogs"
                        /\ ~Api!Method(x.method).byShard
                        /\ \E args : x = Api!Query(x.method, args) /\ x.args = args
    <3>1. \A m, args : Api!Query(m, args).method = m /\ Api!Query(m, args).args = args
      BY DEF Api!Query
    <3>2. /\ Api!Method("getTransactionCountLast14Days") = Api!MetricsController["getTransactionCountLast14Days"]
          /\ Api!Method("getWalletsCountLast14Days") = Api!MetricsController["getWalletsCountLast14Days"]
          /\ Api!Method("getBinancePairHistoricalPrice") = Api!PriceController["getBinancePairHistoricalPrice"]
          /\ Api!Method("getBinancePairPrice") = Api!PriceController["getBinancePairPrice"]
      BY MethodRows DEF Api!MetricsController, Api!PriceController
    <3> QED BY <3>1, <3>2 DEF Api!MetricsController, Api!PriceController, Api!Cached
  <2> HIDE DEF warm
  <2>7. w = q
    BY <2>3, <2>4, <2>6 DEF Api!Key
  <2>8. q \in Api!Asks
    BY <1>1, <2>3 DEF Api!Asks
  <2>9. Api!Method(q.method).cached /\ q.method # "latestOfLogs"
    BY <2>3, <2>6
  <2>10. Api!Age(q) \in Nat /\ Api!Age(q) <= 0 + Api!Lifetime(q)
    <3>1. Api!Age(q) \in Nat /\ MaxRead \in Nat
      BY <2>8, Ages, ApiAssumption
    <3> HIDE DEF Api!Age
    <3> QED BY <2>8, <3>1, Ages
  <2>11. version \in 1..version /\ 0 \in 0..now
    BY <1>1, <2>1, ApiAssumption
  <2> QED BY <2>4, <2>5, <2>7, <2>8, <2>9, <2>10, <2>11 DEF Api!EntryInv
<1> QED BY <1>3, <1>4, <1>5 DEF ApiHolds, Api!CacheInv

\* A step of one request that leaves the clock and the database alone.
LEMMA OneRequest ==
  ASSUME ApiHolds, NEW r \in Requests, NEW new \in Request, req' = [req EXCEPT ![r] = new],
         UNCHANGED <<queries, now, version, storedAt>>, Api!CacheInv', Good(r)'
  PROVE  ApiHolds'
<1>1. ApiTypes'
  BY DEF ApiHolds, ApiTypes
<1>3. now \in Nat /\ Moves
  <2>1. now \in Nat /\ version \in Nat /\ storedAt \in Nat
    BY ApiAssumption DEF ApiHolds, ApiTypes
  <2> QED BY <2>1 DEF Moves
<1>2. \A s \in Requests \ {r} : Good(s)'
  <2> SUFFICES ASSUME NEW s \in Requests \ {r} PROVE Good(s)'
    OBVIOUS
  <2>1. req'[s] = req[s] /\ req[s] \in Request
    BY DEF ApiHolds, ApiTypes
  <2> QED BY <1>3, <2>1, RequestKept DEF ApiHolds
<1> QED BY <1>1, <1>2 DEF ApiHolds

LEMMA CacheUntouched == ASSUME ApiHolds, UNCHANGED <<cache, now, version, storedAt>> PROVE Api!CacheInv'
<1>1. now \in Nat /\ now <= now' /\ Moves
  <2>1. now \in Nat /\ version \in Nat /\ storedAt \in Nat
    BY ApiAssumption DEF ApiHolds, ApiTypes
  <2> QED BY <2>1 DEF Moves
<1> QED BY <1>1, CacheKept DEF ApiHolds

\* A request begins with data as young as can be.
LEMMA AskStep ==
  ASSUME ApiHolds, NEW r \in Requests, NEW q \in queries, Api!Ask(r, q)
  PROVE  ApiHolds'
<1> DEFINE new == [Api!Idle EXCEPT !.pc = IF Api!Accepted(q) THEN "lookup" ELSE "rejected",
                                   !.query = Api!First(q), !.asked = now, !.at = MaxNow,
                                   !.there = version > 0]
<1>1. req' = [req EXCEPT ![r] = new] /\ UNCHANGED <<queries, now, version, storedAt, cache>>
  BY DEF Api!Ask
<1>2. Api!First(q) \in Api!Asks /\ Api!First(q).method # "ethGetLogs" /\ now \in 0..MaxNow /\ MaxNow \in Nat
  BY FirstIsAsked, ApiAssumption DEF ApiHolds, ApiTypes
<1>3. /\ new.pc \in {"lookup", "rejected"} /\ new.query = Api!First(q) /\ new.asked = now /\ new.at = MaxNow
      /\ new.source = NoQuery /\ new.version = 0 /\ new.read = 0 /\ new.since = 0
      /\ new.there = (version > 0)
  BY DEF Api!Idle, NoQuery
<1>4. Api!Idle \in Request
  BY DEF Api!Idle, Request, Points, NoQuery
<1>5. new \in Request
  <2> HIDE DEF Api!Idle
  <2>1. now \in Nat /\ MaxNow \in Nat /\ Api!First(q) \in Api!Asks /\ (version > 0) \in BOOLEAN
    BY <1>2
  <2> HIDE DEF Api!First, Api!Asks, NoQuery
  <2> QED BY <1>4, <2>1 DEF Request, Points
<1> HIDE DEF new
<1>6. req'[r] = new
  BY <1>1 DEF ApiHolds, ApiTypes
<1>7. Api!Rests(r)' \/ new.pc = "rejected"
  <2>1. ~(Api!OtherKind(Api!First(q)) /\ Api!First(q).args[2].name = "hash_harmony")
    <3>1. q \in Api!Routes
      BY DEF ApiHolds, ApiTypes
    <3> QED BY <3>1, FirstIsAsked, RoutesAreRegular, SecondQuery DEF Api!OtherKind
  <2> QED BY <1>1, <1>2, <1>3, <1>6, <2>1 DEF Api!Rests, Api!SecondFinds
<1>8. new.there => version' > 0
  BY <1>1, <1>3
<1> QED BY <1>1, <1>3, <1>5, <1>6, <1>7, <1>8, OneRequest, CacheUntouched DEF Good, Underway

LEMMA MissStep ==
  ASSUME ApiHolds, NEW r \in Requests, Api!Miss(r)
  PROVE  ApiHolds'
<1> DEFINE new == [req[r] EXCEPT !.pc = "reading", !.since = now]
<1>1. /\ req[r].pc = "lookup" /\ req' = [req EXCEPT ![r].pc = "reading", ![r].since = now]
      /\ UNCHANGED <<queries, now, version, storedAt, cache>>
  BY DEF Api!Miss
<1>2. req[r] \in Request /\ now \in Nat /\ Api!Rests(r) /\ MaxRead \in Nat
  BY <1>1, ApiAssumption DEF ApiHolds, ApiTypes, Good, Underway
<1>3. req' = [req EXCEPT ![r] = new]
  BY <1>1, <1>2 DEF ApiHolds, ApiTypes, Request
<1>4. /\ new.pc = "reading" /\ new.query = req[r].query /\ new.asked = req[r].asked /\ new.at = req[r].at
      /\ new.since = now /\ new.version = req[r].version /\ new.there = req[r].there /\ new \in Request
  BY <1>2 DEF Request, Points
<1>5. req'[r] = new
  BY <1>3 DEF ApiHolds, ApiTypes
<1> HIDE DEF new
<1>6. Api!Rests(r)'
  BY <1>1, <1>2, <1>4, <1>5 DEF Api!Rests, Api!SecondFinds, Api!OtherKind, Api!Age, Api!Behind, Api!Latest
<1>7. new.there => version' > 0
  BY <1>1, <1>4 DEF ApiHolds, Good
<1> QED BY <1>1, <1>3, <1>4, <1>5, <1>6, <1>7, OneRequest, CacheUntouched DEF Good, Underway

\* What Take makes of a request.
LEMMA TakeFields ==
  ASSUME ApiHolds, NEW r \in Requests, req[r].query \in Api!Asks,
         NEW source \in Api!Asks, NEW found \in Nat, NEW a \in Nat, Api!Take(r, source, found, a)
  PROVE  \E new \in Request :
            /\ req' = [req EXCEPT ![r] = new] /\ req'[r] = new
            /\ new.source = source /\ new.version = found /\ new.at = a /\ new.asked = req[r].asked
            /\ new.there = req[r].there
            /\ IF Api!GoesOn(req[r].query, found)
               THEN new.pc = "lookup" /\ new.query = Api!Then(req[r].query)
               ELSE new.pc = "answered" /\ new.query = req[r].query
<1> DEFINE q == req[r].query
           got == [req[r] EXCEPT !.source = source, !.version = found, !.at = a]
           on == [got EXCEPT !.pc = "lookup", !.query = Api!Then(q)]
           end == [got EXCEPT !.pc = "answered"]
<1>1. req' = [req EXCEPT ![r] = IF Api!GoesOn(q, found) THEN on ELSE end]
  BY DEF Api!Take
<1>2. req[r] \in Request /\ req \in [Requests -> Request]
  BY DEF ApiHolds, ApiTypes
<1>3. /\ got \in Request /\ got.source = source /\ got.version = found /\ got.at = a
      /\ got.asked = req[r].asked /\ got.there = req[r].there /\ got.query = q
  BY <1>2 DEF Request
<1> HIDE DEF got
<1>4. CASE Api!GoesOn(q, found)
  <2>1. Api!Then(q) \in Api!Asks
    BY <1>4, ThenIsAsked
  <2>2. /\ on \in Request /\ on.pc = "lookup" /\ on.query = Api!Then(q)
        /\ on.source = source /\ on.version = found /\ on.at = a /\ on.asked = req[r].asked
        /\ on.there = req[r].there
    BY <1>3, <2>1 DEF Request, Points
  <2>3. req' = [req EXCEPT ![r] = on] /\ req'[r] = on
    BY <1>1, <1>2, <1>4
  <2> HIDE DEF on
  <2> QED BY <1>4, <2>2, <2>3
<1>5. CASE ~Api!GoesOn(q, found)
  <2>1. /\ end \in Request /\ end.pc = "answered" /\ end.query = q
        /\ end.source = source /\ end.version = found /\ end.at = a /\ end.asked = req[r].asked
        /\ end.there = req[r].there
    BY <1>3 DEF Request, Points
  <2>2. req' = [req EXCEPT ![r] = end] /\ req'[r] = end
    BY <1>1, <1>2, <1>5
  <2> HIDE DEF end
  <2> QED BY <1>5, <2>1, <2>2
<1> QED BY <1>4, <1>5

LEMMA EarlierIs ==
  ASSUME NEW s \in Nat, NEW t \in Nat
  PROVE  Api!Earlier(s, t) \in Nat /\ Api!Earlier(s, t) = IF s <= t THEN s ELSE t
BY DEF Api!Earlier

\* Nothing was found: nothing was there, or the next query finds it, or it came after the block at
\* which the range of the logs ended.
Missed(r, found) ==
    found = 0 =>
        \/ ~req[r].there
        \/ Api!FirstMisses(req[r].query)
        \/ req[r].query.method = "ethGetLogs" /\ req[r].asked <= storedAt + 2 + MaxRead

\* An answer that is found, or data after which the handler goes on, are young enough.
LEMMA TakeHolds ==
  ASSUME ApiHolds, NEW r \in Requests, req[r].query \in Api!Asks,
         NEW found \in Nat, NEW a \in 0..MaxNow, Api!Take(r, req[r].query, found, a),
         UNCHANGED <<queries, now, version, storedAt>>, Api!CacheInv',
         req[r].asked \in 0..now,
         req[r].asked <= a + Api!Lifetime(req[r].query),
         Missed(r, found),
         req[r].query.method = "latestOfLogs" =>
            found \in 1..Api!Latest /\ Api!Behind(found - 1, a) /\ a <= now /\ now <= a + 2 + MaxRead,
         req[r].query.method = "getTransactionByField" /\ found = 0 => req[r].asked <= a
  PROVE  ApiHolds'
<1>1. now \in Nat /\ version \in Nat /\ a \in Nat /\ found \in Nat /\ MaxNow \in Nat /\ MaxRead \in Nat
  BY ApiAssumption DEF ApiHolds, ApiTypes
<1>2. PICK new \in Request :
         /\ req' = [req EXCEPT ![r] = new] /\ req'[r] = new
         /\ new.source = req[r].query /\ new.version = found /\ new.at = a /\ new.asked = req[r].asked
         /\ new.there = req[r].there
         /\ IF Api!GoesOn(req[r].query, found)
            THEN new.pc = "lookup" /\ new.query = Api!Then(req[r].query)
            ELSE new.pc = "answered" /\ new.query = req[r].query
  BY <1>1, TakeFields
<1>5. new.there => version' > 0
  BY <1>2 DEF ApiHolds, Good
<1> DEFINE q == req[r].query
           next == Api!Then(q)
<1>3. CASE Api!GoesOn(q, found)
  <2>1. /\ next \in Api!Asks /\ next.method # "latestOfLogs"
        /\ IF q.method = "latestOfLogs"
           THEN next.method = "ethGetLogs" /\ Api!Age(next) = 2
           ELSE /\ next.method = "getTransactionByField" /\ q.method = "getTransactionByField" /\ found = 0
                /\ q.args[2].name = "hash" /\ next.args[2].name = "hash_harmony" /\ next.args[3] = q.args[3]
    BY <1>3, ThenIsAsked
  <2>2. new.pc = "lookup" /\ new.query = next
    BY <1>2, <1>3
  <2>3. next.method = "getTransactionByField" /\ Api!OtherKind(next) => ~req[r].there
    BY <2>1 DEF Missed, Api!FirstMisses, Api!OtherKind
  <2> HIDE DEF next
  <2>4. next.method # "ethGetLogs" => req[r].asked <= a
    BY <2>1
  <2>5. next.method = "ethGetLogs" =>
            /\ now <= a + Api!Age(next) + MaxRead /\ a <= now
            /\ found \in 1..Api!Latest /\ Api!Behind(found - 1, a)
    BY <2>1
  <2>6. Api!Rests(r)'
    <3>1. /\ req'[r].pc = "lookup" /\ req'[r].query = next /\ req'[r].asked = req[r].asked /\ req'[r].at = a
          /\ req'[r].version = found /\ req'[r].there = req[r].there
          /\ now' = now /\ version' = version /\ storedAt' = storedAt
      BY <1>2, <2>2
    <3>2. next.method # "ethGetLogs" => Api!SecondFinds(r)'
      BY <2>1, <2>3, <3>1 DEF Api!SecondFinds, Api!OtherKind
    <3> HIDE DEF q
    <3>3. next.method = "ethGetLogs" => Api!Behind(req[r].version - 1, req[r].at)'
      BY <2>5, <3>1 DEF Api!Behind
    <3>4. next.method = "ethGetLogs" => req'[r].version \in 1..Api!Latest'
      BY <2>5, <3>1 DEF Api!Latest
    <3>5. next.method = "ethGetLogs" => now' <= a + Api!Age(next) + MaxRead /\ a <= now'
      BY <2>5, <3>1
    <3> QED BY <2>1, <2>4, <3>1, <3>2, <3>3, <3>4, <3>5 DEF Api!Rests, Api!Age
  <2> QED BY <1>2, <1>5, <2>2, <2>6, OneRequest DEF Good
<1>4. CASE ~Api!GoesOn(q, found)
  <2>1. new.pc = "answered" /\ new.query = q /\ new.source = q
    BY <1>2, <1>4
  <2>2. found = 0 => ~Api!FirstMisses(q)
    BY <1>4 DEF Api!GoesOn, Api!FirstMisses, Api!OtherKind
  <2>3. Answered(r)'
    BY <1>2, <2>1, <2>2 DEF Answered, Missed, Api!Lifetime, Api!Age
  <2> QED BY <1>2, <1>5, <2>1, <2>3, OneRequest DEF Good, Underway
<1> QED BY <1>3, <1>4

\* What is found in the cache was stored for this query, is not nothing, and not too old.
LEMMA HitStep ==
  ASSUME ApiHolds, NEW r \in Requests, Api!Hit(r)
  PROVE  ApiHolds'
<1> DEFINE q == req[r].query
           k == Api!Key(q)
           e == cache[k]
           a == Api!Earlier(e.at, req[r].at)
<1>1. /\ req[r].pc = "lookup" /\ Api!Method(q.method).cached /\ k \in DOMAIN cache /\ now <= e.expires
      /\ Api!Take(r, e.query, e.version, a) /\ UNCHANGED <<queries, now, version, storedAt, cache>>
  BY DEF Api!Hit, Api!Fresh
<1>2. Api!EntryInv(k) /\ Api!Rests(r)
  BY <1>1 DEF ApiHolds, Api!CacheInv, Good, Underway
<1>3. e.query = q /\ q \in Api!Asks
  BY <1>1, <1>2, KeysDiffer DEF Api!EntryInv, Api!Rests
<1> HIDE DEF k, a
<1>4. /\ now \in Nat /\ version \in Nat /\ MaxNow \in Nat /\ MaxRead \in Nat /\ now <= MaxNow
      /\ Api!Age(q) \in Nat /\ Api!Lifetime(q) \in Nat
      /\ Api!Lifetime(q) = IF q.method = "ethGetLogs" THEN 2 * (Api!Age(q) + MaxRead) ELSE Api!Age(q) + MaxRead
  BY <1>3, Ages, ApiAssumption DEF ApiHolds, ApiTypes
<1>5. /\ e.version \in Nat \ {0} /\ e.at \in 0..now /\ now <= e.at + Api!Lifetime(q)
      /\ q.method = "latestOfLogs" => e.version \in 1..Api!Latest /\ Api!Behind(e.version - 1, e.at)
      /\ req[r].asked \in 0..now /\ req[r].at \in 0..MaxNow
      /\ IF q.method = "ethGetLogs" THEN now <= req[r].at + Api!Age(q) + MaxRead ELSE req[r].asked <= req[r].at
      /\ q.method = "latestOfLogs" => req[r].at = MaxNow
  <2>1. /\ e.expires \in Nat /\ e.expires <= e.at + Api!Lifetime(q) /\ e.at \in 0..now
        /\ e.version \in 1..(IF q.method = "latestOfLogs" THEN Api!Latest ELSE version)
        /\ q.method = "latestOfLogs" => Api!Behind(e.version - 1, e.at)
    BY <1>2, <1>3 DEF Api!EntryInv
  <2>4. e.version \in Nat \ {0}
    BY <1>4, <2>1 DEF Api!Latest
  <2>2. now <= e.at + Api!Lifetime(q)
    BY <1>1, <1>4, <2>1
  <2>3. /\ req[r].asked \in 0..now /\ req[r].at \in 0..MaxNow
        /\ IF q.method = "ethGetLogs" THEN now <= req[r].at + Api!Age(q) + MaxRead ELSE req[r].asked <= req[r].at
        /\ q.method = "latestOfLogs" => req[r].at = MaxNow
    BY <1>1, <1>2 DEF Api!Rests
  <2> QED BY <2>1, <2>2, <2>3, <2>4
<1>6. a = IF e.at <= req[r].at THEN e.at ELSE req[r].at
  <2>1. e.at \in Nat /\ req[r].at \in Nat
    BY <1>4, <1>5
  <2> HIDE DEF e
  <2> QED BY <2>1, EarlierIs DEF a
<1>7. q.method = "latestOfLogs" => Api!Age(q) = 2
  BY MethodRows DEF Api!EthLogsController, Api!Cached, Api!Age
<1> HIDE DEF q, e
<1>8. a \in 0..MaxNow /\ e.version \in Nat /\ e.version # 0
  BY <1>4, <1>5, <1>6
<1>9. req[r].asked <= a + Api!Lifetime(q)
  <2>1. CASE q.method = "ethGetLogs"
    BY <1>4, <1>5, <1>6, <2>1
  <2>2. CASE q.method # "ethGetLogs"
    BY <1>4, <1>5, <1>6, <2>2
  <2> QED BY <2>1, <2>2
<1>10. q.method = "latestOfLogs" =>
          e.version \in 1..Api!Latest /\ Api!Behind(e.version - 1, a) /\ a <= now /\ now <= a + 2 + MaxRead
  <2> SUFFICES ASSUME q.method = "latestOfLogs"
        PROVE  e.version \in 1..Api!Latest /\ Api!Behind(e.version - 1, a) /\ a <= now /\ now <= a + 2 + MaxRead
    OBVIOUS
  <2>1. Api!Lifetime(q) = 2 + MaxRead /\ req[r].at = MaxNow
    BY <1>4, <1>5, <1>7
  <2>2. a = e.at
    BY <1>4, <1>5, <1>6, <2>1
  <2> QED BY <1>4, <1>5, <2>1, <2>2
<1>13. Missed(r, e.version)
  BY <1>8 DEF Missed
<1>11. Api!CacheInv'
  BY <1>1, CacheUntouched
<1>12. Api!Take(r, q, e.version, a) /\ req[r].query = q
  BY <1>1, <1>3 DEF q
<1> QED BY <1>1, <1>3, <1>5, <1>8, <1>9, <1>10, <1>11, <1>12, <1>13, TakeHolds

\* What a query finds, by its kind.
LEMMA FoundIs ==
  ASSUME NEW r, req[r].query.method = "ethGetLogs" => req[r].version \in 1..Api!Latest, version \in Nat
  PROVE  LET q == req[r].query
             v == Api!Found(r)
         IN  /\ q.method = "latestOfLogs" => v = Api!Latest
             /\ q.method = "ethGetLogs" => v \in 0..version /\ (v = 0 => version = 0 \/ req[r].version - 1 = 0)
             /\ q.method \notin {"latestOfLogs", "ethGetLogs"} =>
                   v \in 0..version /\ (v = 0 => version = 0 \/ Api!OtherKind(q))
<1> DEFINE q == req[r].query
<1>1. CASE q.method = "latestOfLogs"
  BY <1>1 DEF Api!Found, Api!OtherKind
<1>2. CASE q.method = "ethGetLogs"
  <2>1. Api!Found(r) = Api!UpTo(req[r].version) /\ req[r].version \in 1..version + 1
    BY <1>2 DEF Api!Found, Api!OtherKind, Api!Latest
  <2>2. ASSUME NEW n \in 1..version + 1
        PROVE  Api!UpTo(n) \in 0..version /\ (Api!UpTo(n) = 0 => version = 0 \/ n - 1 = 0)
    BY DEF Api!UpTo
  <2> QED BY <1>2, <2>1, <2>2
<1>3. CASE q.method \notin {"latestOfLogs", "ethGetLogs"}
  <2>1. Api!Found(r) = IF Api!OtherKind(q) THEN 0 ELSE version
    BY <1>3 DEF Api!Found
  <2> QED BY <1>3, <2>1
<1> QED BY <1>1, <1>2, <1>3

LEMMA ReadStep ==
  ASSUME ApiHolds, NEW r \in Requests, Api!Read(r)
  PROVE  ApiHolds'
<1> DEFINE q == req[r].query
           v == Api!Found(r)
           a == Api!Earlier(req[r].at, now)
           new == [req[r] EXCEPT !.pc = "read", !.version = v, !.read = now, !.at = a]
<1>1. /\ req[r].pc = "reading" /\ UNCHANGED <<queries, now, version, storedAt, cache>>
      /\ req' = [req EXCEPT ![r].pc = "read", ![r].version = Api!Found(r), ![r].read = now,
                            ![r].at = Api!Earlier(@, now)]
  BY DEF Api!Read
<1>2. /\ req[r] \in Request /\ now \in 0..MaxNow /\ MaxNow \in Nat /\ version \in Nat /\ MaxRead \in Nat
      /\ Api!Rests(r) /\ req \in [Requests -> Request] /\ (req[r].there => version > 0)
  BY <1>1, ApiAssumption DEF ApiHolds, ApiTypes, Good, Underway
<1>3. /\ q \in Api!Asks /\ req[r].asked \in 0..now /\ req[r].at \in 0..MaxNow
      /\ IF q.method = "ethGetLogs"
         THEN /\ req[r].since <= req[r].at + Api!Age(q) + MaxRead /\ req[r].at <= now
              /\ req[r].version \in 1..Api!Latest /\ Api!Behind(req[r].version - 1, req[r].at)
         ELSE req[r].asked <= req[r].at /\ Api!SecondFinds(r)
      /\ q.method = "latestOfLogs" => req[r].at = MaxNow
      /\ req[r].since \in req[r].asked..now /\ now <= req[r].since + MaxRead
  BY <1>1, <1>2 DEF Api!Rests
<1>4. a \in Nat /\ a = IF req[r].at <= now THEN req[r].at ELSE now
  <2>1. req[r].at \in Nat /\ now \in Nat
    BY <1>2 DEF Request
  <2> QED BY <2>1, EarlierIs
<1>5. req' = [req EXCEPT ![r] = new]
  BY <1>1, <1>2 DEF Request
<1> HIDE DEF a, v
<1>6. /\ q.method = "latestOfLogs" => v = Api!Latest
      /\ q.method = "ethGetLogs" => v \in 0..version /\ (v = 0 => version = 0 \/ req[r].version - 1 = 0)
      /\ q.method \notin {"latestOfLogs", "ethGetLogs"} =>
            v \in 0..version /\ (v = 0 => version = 0 \/ Api!OtherKind(q))
  BY <1>2, <1>3, FoundIs DEF v
<1>7. v \in Nat
  BY <1>2, <1>6 DEF Api!Latest
<1>8. /\ new.pc = "read" /\ new.query = q /\ new.asked = req[r].asked /\ new.since = req[r].since
      /\ new.version = v /\ new.read = now /\ new.at = a /\ new.there = req[r].there /\ new \in Request
  <2>1. now \in Nat
    BY <1>2
  <2> QED BY <1>2, <1>4, <1>7, <2>1 DEF Request, Points
<1>9. req'[r] = new
  BY <1>2, <1>5
<1> HIDE DEF new
<1>10. /\ new.asked \in 0..now /\ new.at \in 0..MaxNow /\ new.at <= now
       /\ IF q.method = "ethGetLogs" THEN new.since <= new.at + Api!Age(q) + MaxRead
                                     ELSE new.asked <= new.at
       /\ q.method = "latestOfLogs" => new.at = new.read
       /\ new.since \in new.asked..now /\ now <= new.since + MaxRead
       /\ new.at <= new.read /\ new.read \in new.since..now
  <2>1. Api!Age(q) \in Nat
    BY <1>3, Ages
  <2> HIDE DEF q
  <2> QED BY <1>2, <1>3, <1>4, <1>8, <2>1
<1>11. /\ q.method = "latestOfLogs" => v \in 1..Api!Latest /\ Api!Behind(v - 1, a)
       /\ q.method = "ethGetLogs" => v \in 0..version /\ Api!Behind(v, a)
       /\ q.method \notin {"latestOfLogs", "ethGetLogs"} =>
             v \in 0..version /\ (v = 0 => ~req[r].there \/ Api!FirstMisses(q))
  <2>1. CASE q.method = "latestOfLogs"
    <3>1. v = version + 1
      BY <1>6, <2>1 DEF Api!Latest
    <3> QED BY <1>2, <2>1, <3>1 DEF Api!Behind, Api!Latest
  <2>2. CASE q.method = "ethGetLogs"
    <3>1. a = req[r].at
      BY <1>3, <1>4, <2>2
    <3>2. /\ v \in 0..version /\ (v = 0 => version = 0 \/ req[r].version - 1 = 0)
          /\ Api!Behind(req[r].version - 1, req[r].at)
      BY <1>3, <1>6, <2>2
    <3>3. Api!Behind(v, a)
      BY <1>2, <3>1, <3>2 DEF Api!Behind
    <3> QED BY <2>2, <3>2, <3>3
  <2>3. CASE q.method \notin {"latestOfLogs", "ethGetLogs"}
    <3>1. v \in 0..version /\ (v = 0 => version = 0 \/ Api!OtherKind(q)) /\ Api!SecondFinds(r)
      BY <1>3, <1>6, <2>3
    <3>2. Api!OtherKind(q) => q.args[2].name = "hash" \/ q.args[2].name = "hash_harmony"
      BY DEF Api!OtherKind
    <3>3. version = 0 => ~req[r].there
      BY <1>2
    <3>4. v = 0 => ~req[r].there \/ Api!FirstMisses(q)
      BY <3>1, <3>2, <3>3 DEF Api!SecondFinds, Api!FirstMisses
    <3> QED BY <2>3, <3>1, <3>4
  <2> QED BY <2>1, <2>2, <2>3
<1>12. q.method # "ethGetLogs" => Api!SecondFinds(r)'
  <2>1. q.method # "ethGetLogs" => Api!SecondFinds(r)
    BY <1>3
  <2> QED BY <1>8, <1>9, <2>1 DEF Api!SecondFinds, Api!OtherKind
<1>13. Api!Rests(r)'
  <2>1. /\ req'[r].pc = "read" /\ req'[r].query = q /\ req'[r].version = v /\ req'[r].at = a
        /\ req'[r].asked = new.asked /\ req'[r].since = new.since /\ req'[r].read = new.read
        /\ req'[r].there = req[r].there /\ new.at = a
        /\ UNCHANGED <<now, version, storedAt>>
    BY <1>1, <1>8, <1>9
  <2> HIDE DEF q
  <2> QED BY <1>3, <1>10, <1>11, <1>12, <2>1
          DEF Api!Rests, Api!Age, Api!Latest, Api!Behind, Api!FirstMisses, Api!OtherKind
<1>14. new.there => version' > 0
  BY <1>1, <1>2, <1>8
<1> QED BY <1>1, <1>5, <1>8, <1>9, <1>13, <1>14, OneRequest, CacheUntouched DEF Good, Underway

\* What is stored is dropped in time, counted from the reading of its data, whatever it overwrites.
LEMMA FillStep ==
  ASSUME ApiHolds, NEW r \in Requests, Api!Fill(r)
  PROVE  ApiHolds'
<1> DEFINE q == req[r].query
           k == Api!Key(q)
           entry == [query |-> q, version |-> req[r].version, at |-> Api!DataOf(r), expires |-> now + Api!Age(q)]
<1>1. /\ req[r].pc = "read" /\ UNCHANGED <<queries, now, version, storedAt>>
      /\ \/ UNCHANGED cache
         \/ /\ Api!Method(q.method).cached /\ req[r].version > 0
            /\ cache' = [j \in DOMAIN cache \cup {k} |-> IF j = k THEN entry ELSE cache[j]]
      /\ Api!Take(r, q, req[r].version, req[r].at)
  BY DEF Api!Fill, Api!With
<1>2. /\ now \in 0..MaxNow /\ MaxNow \in Nat /\ version \in Nat /\ MaxRead \in Nat /\ Api!Rests(r)
  BY <1>1, ApiAssumption DEF ApiHolds, ApiTypes, Good, Underway
<1>3. /\ q \in Api!Asks /\ req[r].asked \in 0..now /\ req[r].at \in 0..MaxNow
      /\ IF q.method = "ethGetLogs" THEN req[r].since <= req[r].at + Api!Age(q) + MaxRead
                                    ELSE req[r].asked <= req[r].at
      /\ q.method = "latestOfLogs" => req[r].at = req[r].read
      /\ req[r].since \in req[r].asked..now /\ now <= req[r].since + MaxRead
      /\ req[r].at <= req[r].read /\ req[r].read \in req[r].since..now
      /\ q.method = "latestOfLogs" => req[r].version \in 1..Api!Latest /\ Api!Behind(req[r].version - 1, req[r].at)
      /\ q.method = "ethGetLogs" => req[r].version \in 0..version /\ Api!Behind(req[r].version, req[r].at)
      /\ q.method \notin {"latestOfLogs", "ethGetLogs"} =>
            req[r].version \in 0..version /\ (req[r].version = 0 => ~req[r].there \/ Api!FirstMisses(q))
      /\ req[r].version \in Nat /\ (req[r].there => version > 0)
  <2>1. req[r].version \in Nat /\ (req[r].there => version > 0)
    BY DEF ApiHolds, ApiTypes, Request, Good
  <2> QED BY <1>1, <1>2, <2>1 DEF Api!Rests
<1>4. /\ Api!Age(q) \in Nat /\ Api!Lifetime(q) \in Nat
      /\ Api!Lifetime(q) = IF q.method = "ethGetLogs" THEN 2 * (Api!Age(q) + MaxRead) ELSE Api!Age(q) + MaxRead
  BY <1>3, Ages
<1>5. Api!DataOf(r) = IF q.method = "ethGetLogs" THEN req[r].at ELSE req[r].read
  BY DEF Api!DataOf
<1> HIDE DEF q
<1>6. Api!DataOf(r) \in 0..now /\ now + Api!Age(q) <= Api!DataOf(r) + Api!Lifetime(q)
  <2>1. CASE q.method = "ethGetLogs"
    BY <1>2, <1>3, <1>4, <1>5, <2>1
  <2>2. CASE q.method # "ethGetLogs"
    BY <1>2, <1>3, <1>4, <1>5, <2>2
  <2> QED BY <2>1, <2>2
<1>7. Api!CacheInv'
  <2>1. CASE UNCHANGED cache
    BY <1>1, <2>1, CacheUntouched
  <2>2. CASE /\ Api!Method(q.method).cached /\ req[r].version > 0
             /\ cache' = [j \in DOMAIN cache \cup {k} |-> IF j = k THEN entry ELSE cache[j]]
    <3>1. entry.query = q /\ entry.version = req[r].version /\ entry.at = Api!DataOf(r) /\ entry.expires = now + Api!Age(q)
      OBVIOUS
    <3> HIDE DEF entry
    <3>2. ASSUME NEW j \in DOMAIN cache' PROVE Api!EntryInv(j)'
      <4>1. CASE j = k
        <5>1. cache'[j] = entry
          BY <2>2, <4>1
        <5>2. /\ req[r].version \in 1..(IF q.method = "latestOfLogs" THEN Api!Latest ELSE version)
              /\ now + Api!Age(q) \in Nat
          BY <1>2, <1>3, <1>4, <2>2
        <5>3. q.method = "latestOfLogs" => Api!Behind(req[r].version - 1, Api!DataOf(r))
          BY <1>3, <1>5
        <5> QED BY <1>1, <1>3, <1>6, <2>2, <3>1, <4>1, <5>1, <5>2, <5>3
                DEF Api!EntryInv, Api!Lifetime, Api!Age, Api!Latest, Api!Behind
      <4>2. CASE j # k
        <5>1. j \in DOMAIN cache /\ cache'[j] = cache[j]
          BY <2>2, <4>2
        <5>2. Api!EntryInv(j)
          BY <5>1 DEF ApiHolds, Api!CacheInv
        <5> QED BY <1>1, <5>1, <5>2 DEF Api!EntryInv, Api!Lifetime, Api!Age, Api!Latest, Api!Behind
      <4> QED BY <4>1, <4>2
    <3> QED BY <3>2 DEF Api!CacheInv
  <2> QED BY <1>1, <2>1, <2>2
<1>8. req[r].asked <= req[r].at + Api!Lifetime(q)
  <2>1. CASE q.method = "ethGetLogs"
    BY <1>2, <1>3, <1>4, <2>1
  <2>2. CASE q.method # "ethGetLogs"
    BY <1>2, <1>3, <1>4, <2>2
  <2> QED BY <2>1, <2>2
<1>9. Missed(r, req[r].version)
  <2> SUFFICES ASSUME req[r].version = 0, req[r].there, ~Api!FirstMisses(q)
        PROVE  q.method = "ethGetLogs" /\ req[r].asked <= storedAt + 2 + MaxRead
    BY DEF Missed, q
  <2>1. q.method = "ethGetLogs"
    BY <1>3
  <2>2. Api!Age(q) = 2
    BY <2>1, MethodRows DEF Api!EthLogsController, Api!Cached, Api!Age
  <2>3. req[r].at <= storedAt /\ storedAt \in Nat
    <3>1. storedAt \in 0..now
      BY DEF ApiHolds, ApiTypes
    <3> QED BY <1>2, <1>3, <2>1, <3>1 DEF Api!Behind
  <2> HIDE DEF Api!Age
  <2> QED BY <1>2, <1>3, <2>1, <2>2, <2>3
<1>10. q.method = "latestOfLogs" =>
          /\ req[r].version \in 1..Api!Latest /\ Api!Behind(req[r].version - 1, req[r].at)
          /\ req[r].at <= now /\ now <= req[r].at + 2 + MaxRead
  BY <1>2, <1>3
<1>11. req[r].query = q /\ (q.method = "getTransactionByField" => req[r].asked <= req[r].at)
  BY <1>3 DEF q
<1> QED BY <1>1, <1>3, <1>7, <1>8, <1>9, <1>10, <1>11, TakeHolds

\* The cache forgets, the indexer writes, time goes by.
LEMMA AroundStep == ApiHolds /\ ((\E k \in DOMAIN cache : Api!Evict(k)) \/ Api!Write) => ApiHolds'
<1> SUFFICES ASSUME ApiHolds, (\E k \in DOMAIN cache : Api!Evict(k)) \/ Api!Write PROVE ApiHolds'
  OBVIOUS
<1>1. /\ UNCHANGED <<queries, now, req>> /\ \A k \in DOMAIN cache' : k \in DOMAIN cache /\ cache'[k] = cache[k]
      /\ \/ UNCHANGED <<version, storedAt>>
         \/ /\ version < MaxVersion /\ version' = version + 1
            /\ storedAt' = IF version = 0 THEN now ELSE storedAt
  BY DEF Api!Evict, Api!Write
<1>2. now \in Nat /\ version \in 0..MaxVersion /\ MaxVersion \in Nat /\ storedAt \in 0..now
  BY ApiAssumption DEF ApiHolds, ApiTypes
<1>3. version' \in 0..MaxVersion /\ storedAt' \in 0..now /\ Moves
  BY <1>1, <1>2 DEF Moves
<1>4. Api!CacheInv'
  BY <1>1, <1>2, <1>3, CacheKept DEF ApiHolds
<1>5. ASSUME NEW r \in Requests PROVE Good(r)'
  <2>1. req[r] \in Request /\ Good(r) /\ req'[r] = req[r]
    BY <1>1 DEF ApiHolds, ApiTypes
  <2> QED BY <1>1, <1>2, <1>3, <2>1, RequestKept
<1> QED BY <1>1, <1>3, <1>4, <1>5 DEF ApiHolds, ApiTypes

LEMMA TickStep == ApiHolds /\ Api!Tick => ApiHolds'
<1> SUFFICES ASSUME ApiHolds, Api!Tick PROVE ApiHolds'
  OBVIOUS
<1>1. /\ now < MaxNow /\ now' = now + 1 /\ UNCHANGED <<queries, version, storedAt, cache, req>>
      /\ \A r \in Requests : /\ req[r].pc # "lookup"
                             /\ req[r].pc \in {"reading", "read"} => now < req[r].since + MaxRead
  BY DEF Api!Tick
<1>2. /\ now \in Nat /\ version \in Nat /\ now' \in 0..MaxNow /\ now' \in Nat /\ now <= now' /\ MaxRead \in Nat
      /\ storedAt' \in 0..now' /\ Moves
  <2>1. now \in 0..MaxNow /\ version \in Nat /\ MaxNow \in Nat /\ MaxRead \in Nat /\ storedAt \in 0..now
    BY ApiAssumption DEF ApiHolds, ApiTypes
  <2> QED BY <1>1, <2>1 DEF Moves
<1>3. Api!CacheInv'
  BY <1>1, <1>2, CacheKept DEF ApiHolds
<1>4. ASSUME NEW r \in Requests PROVE Good(r)'
  <2>1. req'[r] = req[r] /\ Good(r) /\ req[r] \in Request
    BY <1>1 DEF ApiHolds, ApiTypes
  <2>2. Answered(r) => Answered(r)'
    BY <1>1, <2>1 DEF Answered, Api!Lifetime, Api!Age
  <2>3. ASSUME Underway(r) PROVE Api!Rests(r)'
    <3>1. Api!Rests(r) /\ req[r].pc \in {"reading", "read"} /\ now < req[r].since + MaxRead
      BY <1>1, <2>1, <2>3 DEF Good, Underway
    <3>2. req[r].since \in Nat /\ req[r].asked \in Nat /\ req[r].read \in Nat /\ req[r].at \in Nat
      BY <2>1 DEF Request
    <3>3. /\ req[r].asked \in 0..now' /\ req[r].since \in req[r].asked..now' /\ now' <= req[r].since + MaxRead
      BY <1>1, <1>2, <3>1, <3>2 DEF Api!Rests
    <3>4. req[r].pc = "read" => req[r].read \in req[r].since..now'
      BY <1>1, <1>2, <3>1, <3>2 DEF Api!Rests
    <3>5. req[r].at <= now => req[r].at <= now'
      BY <1>1, <1>2, <3>2
    <3>6. Api!SecondFinds(r) => Api!SecondFinds(r)'
      BY <2>1 DEF Api!SecondFinds, Api!OtherKind
    <3> QED BY <1>1, <2>1, <3>1, <3>3, <3>4, <3>5, <3>6
            DEF Api!Rests, Api!Age, Api!Behind, Api!Latest, Api!FirstMisses, Api!OtherKind
  <2> QED BY <1>1, <2>1, <2>2, <2>3 DEF Good, Underway
<1> QED BY <1>1, <1>2, <1>3, <1>4 DEF ApiHolds, ApiTypes

LEMMA ApiInvHolds == Spec => [](job = "api" => ApiHolds)
<1>1. Init => (job = "api" => ApiHolds)
  BY ApiBegins DEF Init
<1>2. (job = "api" => ApiHolds) /\ [Next]_vars => (job = "api" => ApiHolds)'
  <2> SUFFICES ASSUME [Next]_vars, job = "api", ApiHolds PROVE ApiHolds'
    BY StepOf
  <2>1. CASE Api!Next
    BY <2>1, AskStep, HitStep, MissStep, ReadStep, FillStep, AroundStep, TickStep DEF Api!Next
  <2>2. CASE UNCHANGED <<Api!vars>>
    <3>1. UNCHANGED <<queries, now, version, storedAt, cache, req>>
      BY <2>2 DEF Api!vars
    <3>2. now \in Nat /\ Moves
      <4>1. now \in Nat /\ version \in Nat /\ storedAt \in Nat
        BY ApiAssumption DEF ApiHolds, ApiTypes
      <4> QED BY <3>1, <4>1 DEF Moves
    <3>3. \A r \in Requests : Good(r)'
      BY <3>1, <3>2, RequestKept DEF ApiHolds, ApiTypes
    <3> QED BY <3>1, <3>3, CacheUntouched DEF ApiHolds, ApiTypes
  <2> QED BY <2>1, <2>2, StepOf
<1> QED BY <1>1, <1>2, PTL DEF Spec

\* No request of the API is answered with what another question found.
THEOREM AnswersAreRight == Spec => []RightAnswer
<1>1. (job = "api" => ApiHolds) => RightAnswer
  BY DEF RightAnswer, Api!RightAnswer, ApiHolds, Good, Answered
<1> QED BY <1>1, ApiInvHolds, PTL

\* An answer is no older than its maxAge and the time of its query, also when requests for one
\* key overlap and the older answer is stored last.
THEOREM StalenessIsBounded == Spec => []BoundedStaleness
<1>1. (job = "api" => ApiHolds) => BoundedStaleness
  BY DEF BoundedStaleness, Api!BoundedStaleness, ApiHolds, Good, Answered, Api!Lifetime
<1> QED BY <1>1, ApiInvHolds, PTL

\* "Not found" is never served from the cache: what was stored before a request came in is found.
\* The logs of "latest" are found when they were stored longer ago than the number of the latest
\* block is kept, and the time its query took.
THEOREM NotFoundIsNotCached == Spec => []NotFoundIsFresh
<1>1. \A q : q.method = "ethGetLogs" => Api!Age(Api!First(q)) = 2
  <2>1. Api!Age(Api!Query("latestOfLogs", <<>>)) = 2
    BY MethodRows DEF Api!EthLogsController, Api!Cached, Api!Age, Api!Query
  <2> QED BY <2>1 DEF Api!First, Api!Query, Api!Age
<1>2. (job = "api" => ApiHolds) => NotFoundIsFresh
  <2> HIDE DEF Api!First, Api!Age
  <2> QED BY <1>1 DEF NotFoundIsFresh, Api!NotFoundIsFresh, ApiHolds, Good, Answered
<1> QED BY <1>2, ApiInvHolds, PTL

-----------------------------------------------------------------------------
(* Types *)

LEMMA SomeJob == Spec => [](job \in {"api", "migration", "internal", "stats"})
<1>1. Init => job \in {"api", "migration", "internal", "stats"}
  BY DEF Init
<1>2. job \in {"api", "migration", "internal", "stats"} /\ [Next]_vars
        => (job \in {"api", "migration", "internal", "stats"})'
  BY StepOf
<1> QED BY <1>1, <1>2, PTL DEF Spec

LEMMA InternalTypeOK == InternalHolds => Internal!TypeOK
<1> SUFFICES ASSUME InternalHolds PROVE Internal!TypeOK
  OBVIOUS
<1>1. rows \subseteq UNION {Internal!Range(Internal!Trace(b)) : b \in 0..Height}
  <2> SUFFICES ASSUME NEW row \in rows
        PROVE  \E b \in 0..Height : row \in Internal!Range(Internal!Trace(b))
    OBVIOUS
  <2>1. row[1] \in 0..Height /\ row \in Internal!RowsTo(row[1], Traced[row[1]])
    BY DEF InternalHolds, Internal!RowsSound
  <2>2. Internal!Range(Internal!Trace(row[1])) = Internal!RowsTo(row[1], Traced[row[1]])
    BY DEF Internal!Range, Internal!Trace, Internal!RowsTo
  <2> QED BY <2>1, <2>2
<1>2. ASSUME NEW s \in Shards
      PROVE  from[s] \in From..To + BatchSize /\ Len(traces[s]) \in {0, Len(blocks[s])}
  <2>1. Internal!BatchShape(s) /\ (traces[s] = <<>> \/ DOMAIN traces[s] = DOMAIN blocks[s])
    BY DEF InternalHolds, Shapes, Internal!WriteShape
  <2>2. PICK n \in 0..BatchSize : blocks[s] = [i \in 1..n |-> from[s] + i - 1]
    BY <2>1 DEF Internal!BatchShape
  <2>3. n \in Nat /\ DOMAIN blocks[s] = 1..n
    BY <2>2, ScriptAssumption
  <2>4. Len(blocks[s]) = n
    BY <2>2, <2>3
  <2>5. CASE traces[s] = <<>>
    BY <2>1, <2>5 DEF Internal!BatchShape
  <2>6. CASE DOMAIN traces[s] = DOMAIN blocks[s]
    <3>1. Len(traces[s]) = n
      BY <2>3, <2>6
    <3> QED BY <2>1, <2>4, <3>1 DEF Internal!BatchShape
  <2> QED BY <2>1, <2>5, <2>6
<1> QED BY <1>1, <1>2 DEF Internal!TypeOK, InternalHolds, InternalTypes, Stages

LEMMA ApiTypeOK == ApiHolds => Api!TypeOK
<1> SUFFICES ASSUME ApiHolds PROVE Api!TypeOK
  OBVIOUS
<1>1. /\ now \in 0..MaxNow /\ version \in 0..MaxVersion /\ MaxVersion \in Nat /\ storedAt \in 0..now
      /\ \A r \in Requests : req[r].pc \in Points
  BY ApiAssumption DEF ApiHolds, ApiTypes, Request
<1>2. ASSUME NEW k \in DOMAIN cache PROVE cache[k].version \in 1..MaxVersion + 1 /\ cache[k].at \in 0..now
  <2>1. cache[k].version \in 1..version + 1 /\ cache[k].at \in 0..now
    BY <1>1 DEF ApiHolds, Api!CacheInv, Api!EntryInv, Api!Latest
  <2> QED BY <1>1, <2>1
<1> QED BY <1>1, <1>2 DEF Api!TypeOK, Points

\* Types of the job at work.
THEOREM SideJobsTypes == Spec => []TypeOK
<1>1. /\ job \in {"api", "migration", "internal", "stats"}
      /\ job = "api" => ApiHolds
      /\ job = "migration" => MigrationHolds
      /\ job = "internal" => InternalHolds
      /\ job = "stats" => StatsInv
      => TypeOK
  BY InternalTypeOK, ApiTypeOK DEF TypeOK, MigrationHolds, StatsInv
<1> QED BY <1>1, SomeJob, ApiInvHolds, MigrationInvHolds, InternalInvHolds, StatsInvHolds, PTL
=============================================================================
