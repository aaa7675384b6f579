------------------------------ MODULE MCServer -----------------------------
(***************************************************************************)
(* The parts of a server and its helpers that share no state, each beside  *)
(* the others: in every behaviour one of them moves, so that their state   *)
(* spaces add up.                                                          *)
(*                                                                         *)
(* Requests: one of every shape against one for a manager's route; the     *)
(* first token's session expires, is written again, or is malformed, the   *)
(* second's uid has no company code.  Life: three modules, two handlers,   *)
(* and set-ups that do and do not open the session.  Jobs: one sends two   *)
(* others from inside a pool of two.  Waits: two waiters, two triggers, two*)
(* ids.  Decimals: ties, signs, scales and texts around zero.  Ids: a clock*)
(* that moves both ways and a sequence of four bits.  Settings: a file for *)
(* every key alone and for the keys that addresses are derived from in     *)
(* every combination.  Errors: a server and a client.                      *)
(***************************************************************************)
EXTENDS Wait, Dispatcher, Http, Lifecycle, Decimal, Ids, Settings, Errors, TLC

VARIABLE part
CONSTANTS r1, r2, t1, t2, m1, m2, m3, j1, j2, j3, j4

MCUidOf == t1 :> <<"c1", "7">> @@ t2 :> <<"", "8">>
MCEntries ==
    t1 :> {Entry("ok", "super_admin", TRUE), Entry("ok", "admin", FALSE),
           Entry("short", "", FALSE)}
    @@ t2 :> {Entry("ok", "admin", FALSE)}
Shape(route, method, token, company) ==
    [route |-> route, method |-> method, token |-> token, company |-> company]
MCShapes ==
    r1 :> {Shape("open", "GET", NoToken, ""), Shape("user", "OPTIONS", t1, ""),
           Shape("user", "GET", NoToken, ""), Shape("super", "GET", t1, ""),
           Shape("user", "GET", t2, ""),
           Shape("user", "GET", t2, "own")}
    @@ r2 :> {Shape("manager", "GET", t1, "")}

MCModules == <<m1, m2, m3>>
MCUses == m1 :> {"listen once"} @@ m2 :> {"db", "listen"} @@ m3 :> {"db", "listen once"}
MCParent == j1 :> j1 @@ j2 :> j1 @@ j3 :> j1 @@ j4 :> j4

----------------------------------------------------------------------------
\* Decimals: the texts are 12.30, -.5, .0, -0.04e1, 7e1 and 19.99, whose quotient
\* by 20 is rounded to 1.

DecimalText(neg, whole, fraction, e) ==
    [neg |-> neg, whole |-> whole, fraction |-> fraction, e |-> e]
MCTexts ==
    {DecimalText(FALSE, <<1, 2>>, <<3, 0>>, 0), DecimalText(TRUE, <<>>, <<5>>, 0),
     DecimalText(FALSE, <<>>, <<0>>, 0), DecimalText(TRUE, <<0>>, <<0, 4>>, 1),
     DecimalText(FALSE, <<7>>, <<>>, 1), DecimalText(FALSE, <<1, 9>>, <<9, 9>>, 0)}
Float(sign, mant, exp2) == [sign |-> sign, mant |-> mant, exp2 |-> exp2]
MCFloats ==
    {Float(0, 1, -2), Float(1, 11, -2), Float(0, 145, 0), Float(1, 12, -3), Float(0, 0, 0)}
MCOperands == {<<5, -2>>, <<-25, -1>>, <<3, 0>>, <<7, -1>>, <<0, 0>>, <<-1, 1>>, <<2, 1>>}
MCExponents == -2..1
MCPlaces == -1..2

----------------------------------------------------------------------------
\* Ids.  Two of the uids have the same hash.

MCTimes == 1..3
MCSample ==
    {[i \in 1..32 |-> IF i % 3 = 0 THEN "7" ELSE "c"], [i \in 1..32 |-> "0"]}
MCUids == {<<"ann">>, <<"bob">>, <<"eve">>, <<"dan">>, <<"v", "ht">>}
MCHash(u) ==
    CASE u \in {<<"ann">>, <<"eve">>} -> 3 [] u = <<"bob">> -> 7 [] u = <<"dan">> -> 1
      [] OTHER -> 5

----------------------------------------------------------------------------
\* Settings.

SingleKey ==
    UNION {{k :> <<"file", k>>, k :> Spaces, k :> Blank} : k \in TextKeys}
    \cup UNION {{k :> TRUE, k :> FALSE} : k \in FlagKeys}
    \cup UNION {{k :> 7, k :> 0} : k \in NumberKeys}
Addresses ==
    {"external.ip" :> ip @@ "external.baseURL" :> base @@ "external.webLoginURL" :> web
       @@ "fileService" :> service @@ "minio.url" :> url @@ "minio.uploadURL" :> up :
       ip \in {Blank, Spaces, <<"1.2.3.4">>}, base \in {Blank, <<"https://im">>},
       web \in {Spaces, <<"https://web">>}, service \in {Blank, <<"qiniu">>},
       url \in {Blank, Spaces, <<"https://minio">>}, up \in {Blank, <<"https://up">>}}
MCFiles ==
    SingleKey \cup Addresses
    \cup {"cluster.nodeID" :> 1024, "cluster.nodeID" :> -1, "avatar.partition" :> 1,
          "welcomeMessage" :> <<AppNameSlot, "!">> @@ "application.appName" :> <<"x">>,
          "logger.level" :> 4 @@ "logger.lineNum" :> TRUE @@ "logger.dir" :> <<"/var/log">>,
          "application.environment" :> <<"release">> @@ "logger.dir" :> <<" ", "/var/log">>,
          "logger.dir" :> <<"here">> @@ "rootDir" :> <<"root">>}
MCIntranetIPs == {<<"10.0.0.1">>, Blank, <<"error">>}
MCEnvValues == {Spaces, <<"true">>, <<"12">>}
MCChecksum(no) == IF no = "g1" THEN 305 ELSE 12

MCMessages == {<<"not found">>, <<"taken">>}

----------------------------------------------------------------------------

allVars ==
    <<waitVars, poolVars, httpVars, lifeVars, held, idVars, settingVars, errorVars, part>>

MCInit ==
    /\ part \in {"waits", "jobs", "requests", "life", "decimals", "ids", "settings", "errors"}
    /\ WaitInit /\ PoolInit /\ HttpInit /\ LifeInit /\ DecInit /\ IdInit
    /\ SettingsInit /\ ErrorInit
    /\ part # "waits" => \A t \in Triggers : trigger[t].id = CHOOSE i \in Ids : TRUE
    /\ part # "requests" => kind = "redis"
    /\ part # "ids" => clock = 1
    /\ part # "settings" => environment = Spaces

ServerStays == UNCHANGED <<waitVars, poolVars, httpVars, lifeVars>>
HelpersStay == UNCHANGED <<held, idVars, settingVars, errorVars>>

Waits == part = "waits" /\ WaitNext /\ UNCHANGED <<poolVars, httpVars, lifeVars>>
Pool == part = "jobs" /\ PoolNext /\ UNCHANGED <<waitVars, httpVars, lifeVars>>
Web == part = "requests" /\ HttpNext /\ UNCHANGED <<waitVars, poolVars, lifeVars>>
Life == part = "life" /\ LifeNext /\ UNCHANGED <<waitVars, poolVars, httpVars>>

Decimals == part = "decimals" /\ DecNext /\ UNCHANGED <<idVars, settingVars, errorVars>>
IdMaking == part = "ids" /\ IdNext /\ UNCHANGED <<held, settingVars, errorVars>>
Setting == part = "settings" /\ SettingsNext /\ UNCHANGED <<held, idVars, errorVars>>
Failing == part = "errors" /\ ErrorNext /\ UNCHANGED <<held, idVars, settingVars>>

MCNext ==
    /\ UNCHANGED part
    /\ \/ (Waits \/ Pool \/ Web \/ Life) /\ HelpersStay
       \/ (Decimals \/ IdMaking \/ Setting \/ Failing) /\ ServerStays

MCSpec == MCInit /\ [][MCNext]_allVars /\ PoolFairness
============================================================================
