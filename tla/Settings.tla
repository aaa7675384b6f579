------------------------------ MODULE Settings -----------------------------
(***************************************************************************)
(* The application's settings: config.New fills a Config with defaults,    *)
(* ConfigureWithViper lays the configuration file over it and derives what *)
(* the file leaves out (addresses from the external IP, upload addresses   *)
(* from MinIO's, the log's level and directory), NewContext starts from    *)
(* the result, and the rest of the program asks for paths.                 *)
(*                                                                         *)
(* A setting is called by its key in the file; those that no key names, by *)
(* their field.  A text is the sequence of its parts, a part with its      *)
(* slashes being one of them, a duration a number of seconds.              *)
(***************************************************************************)
EXTENDS Integers, SequencesExt

CONSTANTS
    Files,          \* the configuration files: some keys and their values
    IntranetIPs,    \* what the machine's interfaces may show first
    EnvValues,      \* what the variable Test of the environment may hold
    OwnerNos,       \* groups and communities that have an avatar
    Checksum(_)     \* crc32.ChecksumIEEE

DefaultedTexts ==
    {"appID", "application.appName", "server.http.port", "server.grpc.port",
     "rootDir", "database.default.dns", "redis.addr",
     "cache.tokenCachePrefix", "cache.loginDeviceCachePrefix",
     "cache.uidTokenCachePrefix", "cache.friendApplyTokenCachePrefix",
     "account.systemUID", "account.fileHelperUID", "account.systemGroupID",
     "account.systemGroupName", "account.adminUID",
     "smsProvider", "im.apiURL", "gitee.oauthURL", "github.oauthURL",
     "friend.addedTipsText", "push.apns.topic", "push.apns.password",
     "support.emailSmtp"}
OtherTexts ==
    {"application.environment", "version", "sslAddr", "adminPwd",
     "sass.companyCode", "external.ip", "external.webLoginURL",
     "external.baseURL", "redis.password", "db.asynctaskRedisAddr",
     "oss.type", "oss.endpoint", "oss.bucketUrl", "oss.accessKeyId",
     "oss.accessKeySecret", "oss.bucketName", "minio.url", "minio.uploadURL",
     "minio.downloadURL", "minio.accessKeyID", "minio.secretAccessKey",
     "seaweed.url", "qiniu.url", "qiniu.bucketName", "qiniu.accessKey",
     "qiniu.secretKey", "smsCode", "jdSMS.spCode", "jdSMS.loginName",
     "jdSMS.passWord", "jdSMS.messageContent", "jdSMS.apiUrl",
     "uniSMS.accessKeyID", "uniSMS.signature", "uniSMS.accessKeySecret",
     "uniSMS.templateId", "smsbao.account", "smsbao.apiKey",
     "smsbao.template", "aliyunSMS.accessKeyId", "aliyunSMS.accessKeySecret",
     "aliyunSMS.signName", "aliyunSMS.userRegisterTemplateCode",
     "aliyunSMS.userForgetPwdTemplateCode", "aliyunSMS.userLoginTemplateCode",
     "aliyunSMS.userIdentityTemplateCode",
     "aliyunInternationalSMS.accessKeyID",
     "aliyunInternationalSMS.accessSecret", "aliyunInternationalSMS.signName",
     "im.token", "avatar.default", "avatar.defaultBaseURL", "gitee.clientID",
     "gitee.clientSecret", "github.clientID", "github.clientSecret",
     "owt.url", "owt.serviceID", "owt.serviceKey", "sfu.url", "sfu.key",
     "sfu.secret", "zincSearch.apiURL", "zincSearch.username",
     "zincSearch.password", "push.apns.cert", "push.hms.packageName",
     "push.hms.appID", "push.hms.appSecret", "push.mi.packageName",
     "push.mi.appID", "push.mi.appSecret", "push.mi.channelID",
     "push.vivo.packageName", "push.vivo.appID", "push.vivo.appKey",
     "push.vivo.appSecret", "push.oppo.packageName", "push.oppo.appID",
     "push.oppo.appKey", "push.oppo.appSecret", "push.oppo.masterSecret",
     "push.firebase.jsonPath", "push.firebase.projectId",
     "push.firebase.packageName", "wechat.appID", "wechat.appSecret",
     "tracing.addr", "support.email", "support.emailPwd"}
TrueByDefault ==
    {"messageSaveAcrossDevice", "onlineStatusOn", "db.migration",
     "group.createGroupVerifyFriendOn", "push.contentDetailOn", "push.apns.dev"}
FalseByDefault ==
    {"application.phoneSearchOff", "sass.switch", "shortNo.numOn",
     "shortNo.editOff", "livekit.off", "register.off", "register.onlyChina",
     "register.stickerAddOff", "register.usernameOn", "organization.importOn",
     "zincSearch.searchOn", "message.sendMessageOn", "tracing.on"}

NumberKeys ==
    {"groupUpgradeWhenMemberCount", "database.default.maxOpenConns",
     "database.default.maxIdleConns", "cluster.nodeID", "oss.limitSize",
     "avatar.defaultCount", "avatar.partition", "shortNo.numLen",
     "owt.roomMaxCount", "livekit.inviteTimeoutSeconds",
     "zincSearch.syncIntervalSecond", "zincSearch.syncCount",
     "group.sameDayCreateMaxCount", "message.syncReadedCountIntervalSecond",
     "eventPoolSize", "robot.eventPoolSize", "push.pushPoolSize",
     "db.mysqlConnMaxLifetime", "cache.loginDeviceCacheExpire",
     "cache.friendApplyExpire", "cache.tokenExpire", "cache.nameCacheExpire",
     "robot.messageExpire", "robot.inlineQueryTimeout"}

\* Durations in seconds.
DefaultNumber(k) ==
    CASE k = "groupUpgradeWhenMemberCount" -> 1000
      [] k \in {"database.default.maxOpenConns", "avatar.partition", "eventPoolSize",
                "robot.eventPoolSize", "push.pushPoolSize"} -> 100
      [] k \in {"database.default.maxIdleConns", "group.sameDayCreateMaxCount",
                "robot.inlineQueryTimeout"} -> 10
      [] k = "cluster.nodeID" -> 1
      [] k = "avatar.defaultCount" -> 900
      [] k = "shortNo.numLen" -> 7
      [] k = "owt.roomMaxCount" -> 9
      [] k = "livekit.inviteTimeoutSeconds" -> 60
      [] k = "db.mysqlConnMaxLifetime" -> 14400
      [] k = "cache.loginDeviceCacheExpire" -> 300
      [] k = "cache.friendApplyExpire" -> 1296000
      [] k = "cache.tokenExpire" -> 2592000
      [] k \in {"cache.nameCacheExpire", "robot.messageExpire"} -> 604800
      [] OTHER -> 0

TextKeys == DefaultedTexts \cup OtherTexts \cup {"fileService", "welcomeMessage"}
FlagKeys == TrueByDefault \cup FalseByDefault
SettingKeys == TextKeys \cup FlagKeys \cup NumberKeys
\* Those the file has no key for, and the log's, which configureLog reads.
OtherSettings ==
    {"External.H5BaseURL", "External.APIBaseURL", "logger.dir", "logger.level",
     "logger.lineNum", "Livekit.RoomMaxCount", "Test"}

Blank == <<>>
Spaces == <<" ">>
IsBlank(t) == t \in {Blank, Spaces}
AppNameSlot == "{{appName}}"
OrElse(t, other) == IF IsBlank(t) THEN other ELSE t

\* Viper reads a key of a text as a text.  Nobody calls an application as the
\* slot for its name.
IsText(t) == t \in Seq(Range(t))
ASSUME SettingsAssumption ==
    /\ \A ip \in IntranetIPs : IsText(ip)
    /\ \A f \in Files :
         /\ \A k \in DOMAIN f \cap TextKeys : IsText(f[k])
         /\ "application.appName" \in DOMAIN f =>
              \A i \in DOMAIN f["application.appName"] : f["application.appName"][i] # AppNameSlot

----------------------------------------------------------------------------
\* Reading the environment.  A value of it is a text; a numeral is <<"12">>.

Numeral == <<"12">> :> 12 @@ <<"7">> :> 7
GetEnv(v, default) == IF IsBlank(v) THEN default ELSE v
GetEnvBool(v, default) == IF IsBlank(v) THEN default ELSE v = <<"true">>
GetEnvInt(v, default) ==
    IF IsBlank(v) THEN default ELSE IF v \in DOMAIN Numeral THEN Numeral[v] ELSE 0
StringEnv(variable, v) == IF v = Blank THEN variable ELSE v
BoolEnv(variable, v) == IF IsBlank(v) THEN variable ELSE v = <<"true">>

----------------------------------------------------------------------------
\* Reading the file: an empty text and a zero are no value, a FALSE is one.

getString(f, k, default) == IF k \in DOMAIN f /\ f[k] # Blank THEN f[k] ELSE default
\* A mutant for TLC: a switch read like a text, whose empty value is no value.
getBoolIfTrue(f, k, default) == IF k \in DOMAIN f /\ f[k] THEN TRUE ELSE default
getBool(f, k, default) == IF k \in DOMAIN f THEN f[k] ELSE default
getInt(f, k, default) == IF k \in DOMAIN f /\ f[k] # 0 THEN f[k] ELSE default

----------------------------------------------------------------------------

VARIABLES stage, file, environment, settings

settingVars == <<stage, file, environment, settings>>

DefaultText(k) ==
    CASE k = "fileService" -> <<"minio">>
      [] k = "welcomeMessage" -> <<"welcome to ", AppNameSlot>>
      [] k = "application.environment" -> <<"release">>
      [] k \in DefaultedTexts -> <<"default", k>>
      [] OTHER -> Blank

NewSettings ==
    [k \in SettingKeys \cup OtherSettings |->
       CASE k \in TextKeys -> DefaultText(k)
         [] k \in FlagKeys -> k \in TrueByDefault
         [] k \in NumberKeys -> DefaultNumber(k)
         [] k = "Livekit.RoomMaxCount" -> 9
         [] k = "Test" -> GetEnvBool(environment, FALSE)
         [] k = "logger.level" -> 0
         [] k = "logger.lineNum" -> FALSE
         [] OTHER -> Blank]

SettingsInit ==
    /\ stage = "none" /\ file = <<>> /\ settings = <<>>
    /\ environment \in EnvValues

NewConfig ==
    /\ stage = "none"
    /\ stage' = "new" /\ settings' = NewSettings
    /\ UNCHANGED <<file, environment>>

\* What a key that the file does not set falls back on.
Fallback(c, k) ==
    CASE k = "application.environment" -> <<"debug">>
      [] k = "server.grpc.port" -> <<"0.0.0.0">> \o c[k]
      [] OTHER -> c[k]
ReadKeys(f, c) ==
    [k \in DOMAIN c |->
       CASE k \in TextKeys -> getString(f, k, Fallback(c, k))
         [] k \in FlagKeys -> getBool(f, k, c[k])
         [] k \in NumberKeys -> getInt(f, k, c[k])
         [] OTHER -> c[k]]

\* strings.ReplaceAll: every slot once, the name put in is not looked at.
Filled(t, name) == FlattenSeq([i \in DOMAIN t |-> IF t[i] = AppNameSlot THEN name ELSE <<t[i]>>])
Welcome(c) ==
    [c EXCEPT !["welcomeMessage"] = Filled(@, c["application.appName"])]

External(c, intranetIP) ==
    LET ip == OrElse(c["external.ip"], intranetIP)
        base == OrElse(c["external.baseURL"], <<"http://">> \o ip \o <<":8090">>)
    IN  [c EXCEPT !["external.ip"] = ip,
                  !["external.webLoginURL"] = OrElse(@, <<"http://">> \o ip \o <<":82">>),
                  !["external.baseURL"] = base,
                  !["External.H5BaseURL"] = OrElse(@, base \o <<"/web">>),
                  !["External.APIBaseURL"] = OrElse(@, base \o <<"/v1">>)]

\* zapcore's levels: debug is -1, info 0.  Rooted: the parts that begin with a slash.
Rooted == {"/var/log"}
configureLog(f, c) ==
    LET level == getInt(f, "logger.level", 0)
        dir == OrElse(getString(f, "logger.dir", Blank), <<"logs">>)
    IN  [c EXCEPT !["logger.level"] =
                      IF level # 0 THEN level - 2
                      ELSE IF c["application.environment"] = <<"debug">> THEN -1 ELSE 0,
                  !["logger.dir"] =
                      IF \E i \in DOMAIN dir : /\ dir[i] \in Rooted
                                               /\ \A j \in 1..(i - 1) : dir[j] = " "
                      THEN dir ELSE c["rootDir"] \o <<"/">> \o dir,
                  !["logger.lineNum"] = getBool(f, "logger.lineNum", FALSE)]

FileServices(c) ==
    LET url == IF c["fileService"] = <<"minio">>
               THEN OrElse(c["minio.url"], <<"http://">> \o c["external.ip"] \o <<":9000">>)
               ELSE c["minio.url"]
    IN  [c EXCEPT !["minio.url"] = url,
                  !["minio.uploadURL"] = OrElse(@, url), !["minio.downloadURL"] = OrElse(@, url)]

Configured(f, c, intranetIP) ==
    FileServices(configureLog(f, External(Welcome(ReadKeys(f, c)), intranetIP)))

\* The interfaces are asked first: none may be up, and the question may fail.
ConfigureWithViper(f, intranetIP) ==
    /\ stage = "new"
    /\ file' = f
    /\ IF intranetIP = <<"error">>
       THEN stage' = "panicked" /\ UNCHANGED settings
       ELSE /\ stage' = "configured"
            /\ settings' = Configured(f, settings, intranetIP)
    /\ UNCHANGED environment

\* snowflake.NewNode has ten bits for the node.
NewContext ==
    /\ stage = "configured"
    /\ stage' = IF settings["cluster.nodeID"] \in 0..1023 THEN "running" ELSE "panicked"
    /\ UNCHANGED <<file, environment, settings>>

SettingsNext ==
    \/ NewConfig
    \/ \E f \in Files, ip \in IntranetIPs : ConfigureWithViper(f, ip)
    \/ NewContext

SettingsSpec == SettingsInit /\ [][SettingsNext]_settingVars

----------------------------------------------------------------------------
\* Where uploads go: a folder, in it one of avatar.partition folders, a name.

Bucket(no) == Checksum(no) % settings["avatar.partition"]
GetAvatarPath(uid) == [folder |-> "users", bucket |-> 0, owner |-> uid, name |-> "avatar"]
GetGroupAvatarFilePath(no) ==
    [folder |-> "group", bucket |-> Bucket(no), owner |-> no, name |-> ".png"]
GetCommunityAvatarFilePath(no) ==
    [folder |-> "community", bucket |-> Bucket(no), owner |-> no, name |-> ".png"]
GetCommunityCoverFilePath(no) ==
    [folder |-> "community", bucket |-> Bucket(no), owner |-> no, name |-> "_cover.png"]
GetOrganizationLogoFilePath(no) ==
    [folder |-> "organization/logo", bucket |-> 0, owner |-> no, name |-> ".png"]
PathsOf(no) ==
    {GetAvatarPath(no), GetGroupAvatarFilePath(no), GetCommunityAvatarFilePath(no),
     GetCommunityCoverFilePath(no), GetOrganizationLogoFilePath(no)}

----------------------------------------------------------------------------
\* What the file says of k counts: it is there and not its type's empty value
\* (nor, for an address that is derived, white space).
Derived == {"external.ip", "external.webLoginURL", "external.baseURL",
            "minio.url", "minio.uploadURL", "minio.downloadURL"}
Says(k) ==
    /\ k \in DOMAIN file
    /\ k \in TextKeys => file[k] # Blank
    /\ k \in NumberKeys => file[k] # 0
    /\ k \in Derived => file[k] # Spaces

FileIsHeard ==
    \A k \in SettingKeys \ {"welcomeMessage"} : Says(k) => settings[k] = file[k]
\* What the file is silent about has the default New gave it; a process is in
\* debug unless the file says otherwise, New's "release" notwithstanding.
DefaultsElsewhere ==
    /\ \A k \in SettingKeys \ (Derived \cup {"welcomeMessage", "application.environment",
                                           "server.grpc.port"}) :
          ~ Says(k) => settings[k] = NewSettings[k]
    /\ ~ Says("application.environment") => settings["application.environment"] = <<"debug">>
    /\ ~ Says("server.grpc.port") =>
          settings["server.grpc.port"] = <<"0.0.0.0">> \o NewSettings["server.grpc.port"]
    /\ settings["welcomeMessage"] =
          Filled(getString(file, "welcomeMessage", NewSettings["welcomeMessage"]),
                 settings["application.appName"])
    /\ AppNameSlot \notin Range(settings["welcomeMessage"])
    /\ settings["avatar.partition"] # 0
\* Not so two, whose fields config.go comments otherwise: the asynchronous tasks'
\* Redis should be Redis' own (config.go:110), a search synchronises 100 messages
\* of a table at a time (config.go:232).  The code leaves them empty.
LeftEmpty ==
    /\ ~ Says("db.asynctaskRedisAddr") =>
          settings["db.asynctaskRedisAddr"] = Blank /\ settings["redis.addr"] # Blank
    /\ ~ Says("zincSearch.syncCount") => settings["zincSearch.syncCount"] = 0

\* An address is what somebody gave, or made from the one it is derived from.
GivenOr(k, address) == settings[k] = IF Says(k) THEN file[k] ELSE address
AddressesAgree ==
    LET On(port) == <<"http://">> \o settings["external.ip"] \o port
    IN  /\ \E ip \in IntranetIPs : GivenOr("external.ip", ip)
        /\ GivenOr("external.webLoginURL", On(<<":82">>)) /\ GivenOr("external.baseURL", On(<<":8090">>))
        /\ settings["External.H5BaseURL"] = settings["external.baseURL"] \o <<"/web">>
        /\ settings["External.APIBaseURL"] = settings["external.baseURL"] \o <<"/v1">>
        /\ settings["fileService"] = <<"minio">> => GivenOr("minio.url", On(<<":9000">>))
        /\ \A k \in {"minio.uploadURL", "minio.downloadURL"} : GivenOr(k, settings["minio.url"])

EnvironmentIsHeard ==
    \A b \in BOOLEAN :
        /\ GetEnvBool(environment, b) = BoolEnv(b, environment)
        /\ IsBlank(environment) => GetEnvBool(environment, b) = b
        /\ GetEnv(environment, <<"x">>) = OrElse(StringEnv(<<"x">>, environment), <<"x">>)
        /\ GetEnvInt(environment, 3) # 3 => ~ IsBlank(environment)

\* The settings a process starts from are the file's where the file says
\* something, explicit FALSEs included, and New's defaults elsewhere, each by its
\* value; the two whose documented default the code does not give (the Redis of
\* asynctask.go:38 and the search's count) are empty.  Every derived address is
\* the one given or exactly the one made from the external IP, the base URL or
\* MinIO's address that was settled before it.  GetGroupAvatarFilePath never
\* divides by zero, and no two uploads share a path.
SettingsAreComplete ==
    stage \in {"configured", "running"} =>
        /\ FileIsHeard /\ DefaultsElsewhere /\ LeftEmpty /\ AddressesAgree
        /\ EnvironmentIsHeard
        /\ \A no \in OwnerNos : Cardinality(PathsOf(no)) = 5
        /\ \A no, other \in OwnerNos : no # other => PathsOf(no) \cap PathsOf(other) = {}
============================================================================
