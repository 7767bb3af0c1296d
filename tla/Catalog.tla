------------------------------ MODULE Catalog ------------------------------
(***************************************************************************)
(* The curated catalogue (web/src/catalog), what enrichment reads from it  *)
(* (web/src/enrich/index.ts), and how the Settings and the Templates       *)
(* screens group options into sections.  Names are kept, because the       *)
(* tables are looked up by them; labels, texts, examples and the commands, *)
(* which are only displayed, are not.                                      *)
(***************************************************************************)
EXTENDS Arrays, SequencesExt, FiniteSetsExt

(* A section of a game: its keys in order, and the bounds some of them have. *)
ZomboidServer ==
  [title |-> "Server",
   keys |-> <<"Public", "PublicName", "PublicDescription", "MaxPlayers", "Open",
              "PingLimit", "AutoCreateUserInWhiteList", "DisplayUserName",
              "ServerWelcomeMessage", "LoginQueueEnabled", "LoginQueueConnectTimeout">>,
   least |-> [MaxPlayers |-> 1, PingLimit |-> 0, LoginQueueConnectTimeout |-> 0],
   most |-> [MaxPlayers |-> 100, PingLimit |-> 999]]

ZomboidGameplay ==
  [title |-> "Gameplay",
   keys |-> <<"PVP", "PVPMeleeDamageModifier", "PVPFirearmDamageModifier", "PauseEmpty",
              "AnnounceDeath", "SpeedLimit", "KnockedDownAllowed", "SleepAllowed",
              "SleepNeeded", "PlayerRespawnWithSelf", "PlayerRespawnWithOther">>,
   least |-> [PVPMeleeDamageModifier |-> 0, PVPFirearmDamageModifier |-> 0, SpeedLimit |-> 0],
   most |-> [PVPMeleeDamageModifier |-> 500, PVPFirearmDamageModifier |-> 500, SpeedLimit |-> 200]]

ZomboidSafehouses ==
  [title |-> "Safehouses",
   keys |-> <<"SafehouseAllowTrepass", "SafehouseAllowFire", "SafehouseAllowLoot",
              "SafehouseAllowRespawn", "SafehouseDaySurvivedToClaim", "SafeHouseRemovalTime">>,
   least |-> [SafehouseDaySurvivedToClaim |-> 0, SafeHouseRemovalTime |-> 0],
   most |-> <<>>]

ZomboidSaving ==
  [title |-> "Saving",
   keys |-> <<"SaveWorldEveryMinutes", "BackupsOnStart", "BackupsOnVersionChange",
              "BackupsPeriod", "BackupsCount">>,
   least |-> [SaveWorldEveryMinutes |-> 1, BackupsPeriod |-> 0, BackupsCount |-> 0],
   most |-> <<>>]

ZomboidChat ==
  [title |-> "Chat & Voice", keys |-> <<"GlobalChat", "VoiceEnable", "Voice3D">>,
   least |-> <<>>, most |-> <<>>]

MinecraftWorld ==
  [title |-> "World",
   keys |-> <<"doDaylightCycle", "doWeatherCycle", "doFireTick", "randomTickSpeed",
              "spawnRadius", "maxEntityCramming">>,
   least |-> [randomTickSpeed |-> 0, spawnRadius |-> 0, maxEntityCramming |-> 0],
   most |-> <<>>]

MinecraftMobs ==
  [title |-> "Mobs",
   keys |-> <<"doMobSpawning", "doInsomnia", "doPatrolSpawning", "doTraderSpawning",
              "mobGriefing", "universalAnger", "forgiveDeadPlayers">>,
   least |-> <<>>, most |-> <<>>]

MinecraftPlayer ==
  [title |-> "Player",
   keys |-> <<"keepInventory", "naturalRegeneration", "doImmediateRespawn", "fallDamage",
              "fireDamage", "drowningDamage", "freezeDamage", "playersSleepingPercentage">>,
   least |-> [playersSleepingPercentage |-> 0],
   most |-> [playersSleepingPercentage |-> 100]]

MinecraftAdmin ==
  [title |-> "Admin & Feedback",
   keys |-> <<"announceAdvancements", "commandBlockOutput", "logAdminCommands",
              "sendCommandFeedback", "showDeathMessages", "reducedDebugInfo",
              "maxCommandChainLength", "doLimitedCrafting", "disableElytraMovementCheck">>,
   least |-> [maxCommandChainLength |-> 1],
   most |-> <<>>]

ZomboidTemplate ==
  <<ZomboidServer, ZomboidGameplay, ZomboidSafehouses, ZomboidSaving, ZomboidChat>>

MinecraftTemplate ==
  <<MinecraftWorld, MinecraftMobs, MinecraftPlayer, MinecraftAdmin>>

(* games: the other nine have commands at most.                            *)
CommandsOnly(id) == [id |-> id, sections |-> <<>>]

Games ==
  <<[id |-> "zomboid", sections |-> ZomboidTemplate],
    [id |-> "minecraft", sections |-> MinecraftTemplate],
    CommandsOnly("cs2"), CommandsOnly("rust"), CommandsOnly("valheim"),
    CommandsOnly("palworld"), CommandsOnly("ark"), CommandsOnly("sevendaystodie"),
    CommandsOnly("squad"), CommandsOnly("conanexiles"), CommandsOnly("factorio")>>

----------------------------------------------------------------------------
(* A template's options, in the order of the table.                        *)
Option(section, key) ==
  [key |-> key, section |-> section.title, least |-> section.least, most |-> section.most]

OptionsOf(game) ==
  LET upTo[n \in 0 .. Len(game.sections)] ==
        IF n = 0 THEN <<>>
        ELSE LET section == game.sections[n] IN
             upTo[n - 1] \o [j \in DOMAIN section.keys |-> Option(section, section.keys[j])]
  IN upTo[Len(game.sections)]

Curated == [i \in DOMAIN Games |-> OptionsOf(Games[i])]

(* templateById, and the lookup of metaFor: the first game of that name,   *)
(* the first option of that key.                                           *)
MetaFor(fingerprint, key) ==
  LET game == SelectInSeq(Games, LAMBDA g : g.id = fingerprint)
      option == IF game = 0 THEN 0
                ELSE SelectInSeq(Curated[game], LAMBDA o : o.key = key)
  IN IF option = 0 THEN <<>> ELSE <<Curated[game][option]>>

(* The name of the section a key of a report is shown in.                  *)
SectionOf(fingerprint, key, other) ==
  LET meta == MetaFor(fingerprint, key)
  IN IF meta = <<>> THEN other ELSE meta[1].section

(* Mutant: a section is created without the row that caused it.            *)
InsertLater(entries, row, name) ==
  LET i == SelectInSeq(entries, LAMBDA e : e.name = name) IN
  IF i # 0 THEN [entries EXCEPT ![i].rows = Append(@, row)]
  ELSE Append(entries, [name |-> name, rows |-> <<>>])

(* bySection: a map keeps its sections in the order they came.             *)
Insert(entries, row, name) ==
  LET i == SelectInSeq(entries, LAMBDA e : e.name = name) IN
  IF i # 0 THEN [entries EXCEPT ![i].rows = Append(@, row)]
  ELSE Append(entries, [name |-> name, rows |-> <<row>>])

Grouped(rows, name) ==
  LET upTo[n \in 0 .. Len(rows)] ==
        IF n = 0 THEN <<>> ELSE Insert(upTo[n - 1], rows[n], name[rows[n]])
  IN upTo[Len(rows)]

(* The sort that leaves everything in place but the fallback, which trails. *)
OtherLast(entries, other) ==
  Among(entries, {e \in Range(entries) : e.name # other}) \o
  Among(entries, {e \in Range(entries) : e.name = other})

(* SettingsPanel: the rows of a report and where each belongs.             *)
Headings(fingerprint, rows) ==
  [key \in Range(rows) |-> SectionOf(fingerprint, key, "Other")]

ReportSections(fingerprint, rows) ==
  OtherLast(Grouped(rows, Headings(fingerprint, rows)), "Other")

(* TemplatesPanel, groupBySection: the options of a template.              *)
TemplateHeadings(i) == [option \in Range(Curated[i]) |-> option.section]

TemplateSections(i) == OtherLast(Grouped(Curated[i], TemplateHeadings(i)), "Other")

----------------------------------------------------------------------------
(* Control's bump: the least bound is put on first.                        *)
Bump(fingerprint, key, n, delta) ==
  LET meta == MetaFor(fingerprint, key)
      raised == IF meta # <<>> /\ key \in DOMAIN meta[1].least
                THEN Max({meta[1].least[key], n + delta}) ELSE n + delta
  IN IF meta # <<>> /\ key \in DOMAIN meta[1].most
     THEN Min({meta[1].most[key], raised}) ELSE raised

=============================================================================
