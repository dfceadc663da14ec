----------------------------- MODULE CertHandover -----------------------------
(***************************************************************************)
(* The certificate files and the graceful upgrade: the start of a process  *)
(* (main.rs), write_from_secret (cert.rs), the watchers of the TLS Secret  *)
(* and of the ConfigMap (watcher.rs) and trigger_upgrade (upgrade.rs).     *)
(*                                                                         *)
(* Processes are numbered in the order in which they start; one started    *)
(* with --upgrade by its predecessor reads the files as they are, one      *)
(* started by the container fetches the Secret first.  A predecessor       *)
(* drains while its tasks go on, and then exits.  fs::write truncates a    *)
(* file and then fills it; the certificate comes before the key.  Files    *)
(* are known by the version of the Secret that they were taken from.       *)
(***************************************************************************)
EXTENDS Integers, Sequences

CONSTANTS
    MaxProcesses,       \* bound: processes started
    MaxChanges          \* bound: versions of the Secret and the ConfigMap

ASSUME HandoverAssumption == MaxProcesses \in Nat \ {0} /\ MaxChanges \in Nat

VARIABLES
    secrets,        \* versions of the Secret so far: whether each has both its entries
    config,         \* version of the ConfigMap
    cert, key,      \* what is in each file
    proc,           \* the processes
    pace            \* ghost: "alone" as long as every change found the newest process
                    \* at rest and no watch_secret but its own; "draining" if another
                    \* was watching; "overlap" after any other change, or a failure

chvars == <<secrets, config, cert, key, proc, pace>>

Empty == 0          \* no file, or one that is truncated or half filled
Torn == -1          \* two versions written over each other
NoPair == 0

Current == Len(secrets)
Newest == Len(proc)
Up == {"running", "reload_key"}

\* boot: where main, or later the reload of the files, is; read: the certificate
\* read so far; loaded: the pair in the store, NoPair for none; pen and ver: the
\* next step of write_from_secret, 0 for none, and the version it writes; sw, cw:
\* the tasks watch_secret and watch_configmap; seen, seen_config: the versions of
\* their last events; tx: messages to run_watcher; upgraded: that task has ended.
NewProcess(boot) ==
    [boot |-> boot, read |-> Empty, loaded |-> NoPair, pen |-> 0, ver |-> 0,
     sw |-> "off", cw |-> "off", seen |-> 0, seen_config |-> 0, tx |-> 0, upgraded |-> FALSE]

\* The newest process has loaded the current version and both its watchers are past
\* their initial list, with nothing to do.
Settled ==
    LET p == proc[Newest]
    IN  /\ p.boot \in Up /\ p.sw = "ready" /\ p.cw = "ready"
        /\ p.loaded = Current /\ p.seen = Current /\ p.seen_config = config
        /\ ~p.upgraded /\ p.tx = 0

\* No predecessor has a watch_secret that an event could still start to write.
Alone == \A q \in 1..(Newest - 1) : proc[q].sw \in {"off", "done"}

-----------------------------------------------------------------------------
(* The environment. *)

ChangeSecret(complete) ==
    /\ Current + config < MaxChanges
    /\ secrets' = Append(secrets, complete)
    /\ pace' = IF ~complete \/ ~Settled \/ pace = "overlap" THEN "overlap"
               ELSE IF Alone THEN pace ELSE "draining"
    /\ UNCHANGED <<config, cert, key, proc>>

ChangeConfig ==
    /\ Current + config < MaxChanges
    /\ config' = config + 1
    /\ pace' = IF Settled THEN pace ELSE "overlap"
    /\ UNCHANGED <<secrets, cert, key, proc>>

\* A process that has handed over is done with draining; its tasks end with it.
Exit(p) ==
    /\ p < Newest /\ proc[p].boot # "exited"
    /\ proc' = [proc EXCEPT ![p] = NewProcess("exited")]
    /\ UNCHANGED <<secrets, config, cert, key, pace>>

\* The container crashes and is started again, wherever its processes are.
Restart ==
    /\ Newest < MaxProcesses
    /\ proc' = Append([q \in DOMAIN proc |-> NewProcess("exited")], NewProcess("fetch"))
    /\ UNCHANGED <<secrets, config, cert, key, pace>>

-----------------------------------------------------------------------------
(* write_from_secret, step by step, at the start and in watch_secret. *)

\* A file that another writer has filled since it was truncated may end up with
\* parts of both versions.
Filled(file, ver) == IF file \in {Empty, ver} THEN {ver} ELSE {ver, Torn}

\* write_from_secret returns: main goes on, and so does watch_secret, which returns
\* and after Ok tells run_watcher.
Returned(w, ok) ==
    IF w.boot = "write" THEN [w EXCEPT !.pen = 0, !.ver = 0, !.boot = "load_cert"]
    ELSE [w EXCEPT !.pen = 0, !.ver = 0, !.sw = "done", !.tx = IF ok THEN @ + 1 ELSE @]

WriteFromSecret(p) ==
    LET w == proc[p]
    IN  /\ w.pen # 0
        /\ cert' \in CASE w.pen = 1 -> {Empty} [] w.pen = 2 -> Filled(cert, w.ver) [] OTHER -> {cert}
        /\ key' \in CASE w.pen = 3 -> {Empty} [] w.pen = 4 -> Filled(key, w.ver) [] OTHER -> {key}
        /\ proc' = [proc EXCEPT ![p] = IF w.pen < 5 THEN [w EXCEPT !.pen = @ + 1] ELSE Returned(w, TRUE)]
        /\ UNCHANGED <<secrets, config, pace>>

\* The directory, a file or its permissions cannot be written; what is done is done.
WriteFails(p) ==
    /\ proc[p].pen # 0
    /\ proc' = [proc EXCEPT ![p] = Returned(@, FALSE)]
    /\ pace' = "overlap"
    /\ UNCHANGED <<secrets, config, cert, key>>

-----------------------------------------------------------------------------
(* The start of a process. *)

\* fetch_and_write, only without --upgrade.  A failure is logged, and the files are
\* used as they are.
Fetch(p) ==
    /\ proc[p].boot = "fetch"
    /\ \/ /\ secrets[Current]
          /\ proc' = [proc EXCEPT ![p].boot = "write", ![p].pen = 1, ![p].ver = Current]
          /\ UNCHANGED pace
       \/ /\ proc' = [proc EXCEPT ![p].boot = "load_cert"]
          /\ pace' = "overlap"
    /\ UNCHANGED <<secrets, config, cert, key>>

\* DiskCertSource::try_load: read one file, then the other; what does not belong
\* together, or is no certificate, makes an empty store.
PairRead(p) == IF proc[p].read = key /\ key > Empty THEN key ELSE NoPair

LoadCert(p) ==
    /\ proc[p].boot = "load_cert"
    /\ proc' = [proc EXCEPT ![p].boot = "load_key", ![p].read = cert]
    /\ UNCHANGED <<secrets, config, cert, key, pace>>

\* Mutant of LoadKey: an upgraded process starts no watchers.
LoadKeyNoWatch(p) ==
    /\ proc[p].boot = "load_key"
    /\ proc' = [proc EXCEPT ![p].boot = "running", ![p].read = Empty, ![p].loaded = PairRead(p),
                            ![p].sw = IF p = 1 THEN "init" ELSE "off",
                            ![p].cw = IF p = 1 THEN "init" ELSE "off"]
    /\ UNCHANGED <<secrets, config, cert, key, pace>>

\* Then the watchers are started, if there is a Kubernetes client.
LoadKey(p) ==
    /\ proc[p].boot = "load_key"
    /\ \/ /\ proc' = [proc EXCEPT ![p].boot = "running", ![p].read = Empty, ![p].loaded = PairRead(p),
                                  ![p].sw = "init", ![p].cw = "init"]
          /\ UNCHANGED pace
       \/ /\ proc' = [proc EXCEPT ![p].boot = "running", ![p].read = Empty, ![p].loaded = PairRead(p)]
          /\ pace' = "overlap"
    /\ UNCHANGED <<secrets, config, cert, key>>

\* DiskCertSource::refresh: with the Gateway API enabled, a tick that changed the
\* view reads the files again, whoever is writing them.
RefreshCert(p) ==
    /\ proc[p].boot = "running"
    /\ proc' = [proc EXCEPT ![p].boot = "reload_key", ![p].read = cert]
    /\ UNCHANGED <<secrets, config, cert, key, pace>>

RefreshKey(p) ==
    /\ proc[p].boot = "reload_key"
    /\ proc' = [proc EXCEPT ![p].boot = "running", ![p].read = Empty, ![p].loaded = PairRead(p)]
    /\ UNCHANGED <<secrets, config, cert, key, pace>>

-----------------------------------------------------------------------------
(* The watchers. *)

\* The initial list ends: InitApply events have been passed over.
SecretInitDone(p) ==
    /\ proc[p].sw = "init"
    /\ proc' = [proc EXCEPT ![p].sw = "ready", ![p].seen = Current]
    /\ UNCHANGED <<secrets, config, cert, key, pace>>

ConfigInitDone(p) ==
    /\ proc[p].cw = "init"
    /\ proc' = [proc EXCEPT ![p].cw = "ready", ![p].seen_config = config]
    /\ UNCHANGED <<secrets, config, cert, key, pace>>

\* The watch breaks; the list that repairs it comes as InitApply events, which are
\* passed over although the watcher is initialized.
SecretRelist(p) ==
    /\ proc[p].sw = "ready" /\ proc[p].seen # Current
    /\ proc' = [proc EXCEPT ![p].seen = Current]
    /\ pace' = "overlap"
    /\ UNCHANGED <<secrets, config, cert, key>>

ConfigRelist(p) ==
    /\ proc[p].cw = "ready" /\ proc[p].seen_config # config
    /\ proc' = [proc EXCEPT ![p].seen_config = config]
    /\ pace' = "overlap"
    /\ UNCHANGED <<secrets, config, cert, key>>

\* Mutant of SecretApply: run_watcher is told before the files are written.
SecretApplyEarly(p) ==
    LET version == proc[p].seen + 1
    IN  /\ proc[p].sw = "ready" /\ version <= Current
        /\ proc' = [proc EXCEPT ![p] =
              IF secrets[version]
              THEN [@ EXCEPT !.seen = version, !.sw = "writing", !.pen = 1, !.ver = version, !.tx = @ + 1]
              ELSE [@ EXCEPT !.seen = version, !.sw = "done"]]
        /\ UNCHANGED <<secrets, config, cert, key, pace>>

\* The first Apply event after the list, however late, with the version that it is
\* about.  A Secret that lacks an entry is an error before anything is written, and
\* ends the task as well.
SecretApply(p) ==
    LET version == proc[p].seen + 1
    IN  /\ proc[p].sw = "ready" /\ version <= Current
        /\ proc' = [proc EXCEPT ![p] =
              IF secrets[version]
              THEN [@ EXCEPT !.seen = version, !.sw = "writing", !.pen = 1, !.ver = version]
              ELSE [@ EXCEPT !.seen = version, !.sw = "done"]]
        /\ UNCHANGED <<secrets, config, cert, key, pace>>

ConfigApply(p) ==
    /\ proc[p].cw = "ready" /\ proc[p].seen_config # config
    /\ proc' = [proc EXCEPT ![p].seen_config = config, ![p].cw = "done", ![p].tx = @ + 1]
    /\ UNCHANGED <<secrets, config, cert, key, pace>>

\* run_watcher takes one message and triggers one upgrade: a new process is spawned,
\* or upgrades are disabled or the spawn fails, and the old one goes on without
\* run_watcher.
TriggerUpgrade(p) ==
    /\ proc[p].tx > 0 /\ ~proc[p].upgraded
    /\ \/ /\ Newest < MaxProcesses
          /\ proc' = Append([proc EXCEPT ![p].upgraded = TRUE, ![p].tx = @ - 1], NewProcess("load_cert"))
          /\ UNCHANGED pace
       \/ /\ proc' = [proc EXCEPT ![p].upgraded = TRUE, ![p].tx = @ - 1]
          /\ pace' = "overlap"
    /\ UNCHANGED <<secrets, config, cert, key>>

-----------------------------------------------------------------------------
CHInit ==
    /\ secrets = <<TRUE>>
    /\ config = 0
    /\ cert = Empty /\ key = Empty
    /\ proc = <<NewProcess("fetch")>>
    /\ pace = "alone"

Step(p) ==
    \/ Fetch(p) \/ WriteFromSecret(p) \/ LoadCert(p) \/ LoadKey(p)
    \/ SecretInitDone(p) \/ ConfigInitDone(p)
    \/ SecretApply(p) \/ ConfigApply(p)
    \/ TriggerUpgrade(p)

Disturbance(p) ==
    \/ WriteFails(p) \/ SecretRelist(p) \/ ConfigRelist(p)
    \/ RefreshCert(p) \/ RefreshKey(p) \/ Exit(p)

CHNext ==
    \/ \E c \in BOOLEAN : ChangeSecret(c)
    \/ ChangeConfig \/ Restart
    \/ \E p \in DOMAIN proc : Step(p) \/ Disturbance(p)

\* The tasks of a process run and its watches deliver.
CHFairness == \A p \in 1..MaxProcesses : WF_chvars(p \in DOMAIN proc /\ Step(p))

CHSpec == CHInit /\ [][CHNext]_chvars /\ CHFairness

-----------------------------------------------------------------------------
\* A process that starts finds the certificate and the key of the current Secret, as
\* long as each change of the Secret finds one watch_secret only, that of a process
\* at rest: run_watcher hands over after both files are written, and a crash between
\* their writes is repaired by fetch_and_write, which goes before the files are read.
LoadsPair ==
    pace = "alone" => \A p \in DOMAIN proc : proc[p].boot = "load_key" => PairRead(p) = Current

\* The same when predecessors still drain with a watch_secret of their own, as they do
\* after an upgrade for the ConfigMap.  Refuted: they handle the next change of the
\* Secret too, and truncate the files under a process that starts.
DrainingHarmless ==
    pace # "overlap" => \A p \in DOMAIN proc : proc[p].boot = "load_key" => PairRead(p) # NoPair

\* tls/source.rs: refresh will "Reload the certificate from disk."  Refuted that a
\* certificate once loaded is not lost by it: nothing keeps the tick of a process from
\* reading the files while its own watch_secret replaces them.
RefreshKeepsPair ==
    pace = "alone" => \A p \in DOMAIN proc : proc[p].boot = "running" => proc[p].loaded # NoPair

\* Under the same pace everything settles again: the newest process has loaded the
\* current Secret and watches for the next change, however many upgrades for Secret
\* and ConfigMap and however many crashes come before.  Each process watches anew and
\* hands over once.  Loaded is not served: the public HTTPS socket is the L4 manager's,
\* which binds it once, so a successor may have none while its predecessor drains.
CertificateFollows == <>[](pace = "alone" => Settled)

\* "On cert change: write new cert bytes ... then trigger a graceful upgrade so the
\* new process reads the updated cert immediately": every complete change is loaded
\* in the end.  Refuted.
EveryCertificateServed == <>[](secrets[Current] => proc[Newest].loaded = Current)

=============================================================================
