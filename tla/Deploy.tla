------------------------------- MODULE Deploy -------------------------------
(***************************************************************************)
(* Putting the platform up: infra/gcp/deploy.sh from the operator's host,  *)
(* remote-bootstrap.sh and sentinel-charter-up.sh on the VM, and           *)
(* dd-bootstrap.sh against DefectDojo. A command is a sequence of steps    *)
(* that look whether their work is done; it is killed or fails at any of   *)
(* them and is run again. gcloud, Docker, systemd and DefectDojo are       *)
(* external. One command runs at a time.                                   *)
(***************************************************************************)
EXTENDS Naturals, Sequences, FiniteSets, SequencesExt

CONSTANT Commands  \* bound: how many commands are run

VARIABLES
  rules,    \* the firewall rules of the project
  have,     \* what is there: the VM, and what is on it
  dojo,     \* what DefectDojo holds: a set of objects, and the number of engagements of the name
  plan,     \* the steps the running command has before it
  access,   \* ACCESS_MODEL of the running command
  begun     \* the number of commands run

deployVars == <<rules, have, dojo, plan, access, begun>>

DeployInit ==
  /\ rules = {} /\ have = {}
  /\ dojo = [objects |-> {}, engagements |-> 0]
  /\ plan = <<>> /\ access = "iap" /\ begun = 0

Services == <<"langfuse", "litellm", "target", "kong", "database", "defectdojo">>
\* Seeded fault: the VM is created first.
ProvisionInHaste(model) == IF model = "iap" THEN <<"vm", "allow-iap", "deny-public">> ELSE <<"vm", "allow-operator">>
Provision(model) == IF model = "iap" THEN <<"allow-iap", "deny-public", "vm">> ELSE <<"allow-operator", "vm">>
Sync == <<"repo">>
Bootstrap == <<"docker", "plugin", "venv", "group", "unit", "enabled", "net", "bootstrapped">>
Up == <<"fresh">> \o Services \o <<"running">>
Teardown == <<"delete">>
TeardownAll == <<"delete", "rules">>
SeedLake == <<"dedup", "type", "product", "engagement", "user", "grant", "token">>

\* vm_exists: a describe that fails says no.
Needed(command) == command \in {Sync, Bootstrap, Up}

\* main; "all" is these commands in a row. preflight, status and tunnel change nothing.
Run ==
  /\ plan = <<>> /\ begun < Commands
  /\ begun' = begun + 1
  /\ \E model \in {"iap", "operator-cidr"} :
       /\ access' = model
       /\ \E command \in {Provision(model), Sync, Bootstrap, Up, Teardown, TeardownAll, SeedLake} :
            plan' = IF Needed(command) /\ "vm" \notin have THEN <<>> ELSE command
  /\ UNCHANGED <<rules, have, dojo>>

\* Any step may fail, and any command be killed: set -e leaves the rest undone.
Abort ==
  /\ plan # <<>>
  /\ plan' = <<>>
  /\ UNCHANGED <<rules, have, dojo, access, begun>>

Rule ==
  /\ plan # <<>> /\ plan[1] \in {"allow-iap", "deny-public", "allow-operator"}
  /\ rules' = rules \cup {plan[1]}
  /\ plan' = Tail(plan)
  /\ UNCHANGED <<have, dojo, access, begun>>

\* A step of provision, sync or bootstrap that looks for its work and does what is missing.
Make ==
  /\ plan # <<>>
  /\ plan[1] \in {"vm", "repo"} \cup (Range(Bootstrap) \ {"unit", "enabled"})
  /\ have' = have \cup {plan[1]}
  /\ plan' = Tail(plan)
  /\ UNCHANGED <<rules, dojo, access, begun>>

\* The unit file is looked for; the service is enabled only by the run that wrote the file.
Unit ==
  /\ plan # <<>> /\ plan[1] = "unit"
  /\ plan' = IF "unit" \in have THEN Tail(Tail(plan)) ELSE Tail(plan)
  /\ have' = have \cup {"unit"}
  /\ UNCHANGED <<rules, dojo, access, begun>>

\* systemctl enable --now || true: a failure is complained of, and passed over.
Enable ==
  /\ plan # <<>> /\ plan[1] = "enabled"
  /\ have' \in {have \cup {"complaint"}, have \cup {"enabled"}}
  /\ plan' = Tail(plan)
  /\ UNCHANGED <<rules, dojo, access, begun>>

\* The launcher needs what sync and bootstrap left, and a Kong nobody has started.
Fresh ==
  /\ plan # <<>> /\ plan[1] = "fresh"
  /\ plan' = IF {"repo", "net"} \subseteq have /\ "kong" \notin have THEN Tail(plan) ELSE <<>>
  /\ UNCHANGED <<rules, have, dojo, access, begun>>

ComposeUp ==
  /\ plan # <<>> /\ plan[1] \in Range(Services) \cup {"running"}
  /\ have' = have \cup {plan[1]}
  /\ plan' = Tail(plan)
  /\ UNCHANGED <<rules, dojo, access, begun>>

\* The VM goes with what is on it, unless the describe failed: then it is taken for absent.
Delete ==
  /\ plan # <<>> /\ plan[1] = "delete"
  /\ have' \in {{}, have}
  /\ plan' = Tail(plan)
  /\ UNCHANGED <<rules, dojo, access, begun>>

DeleteRules ==
  /\ plan # <<>> /\ plan[1] = "rules"
  /\ \E left \in SUBSET rules : rules' = left
  /\ plan' = Tail(plan)
  /\ UNCHANGED <<have, dojo, access, begun>>

\* dd-bootstrap: find by name, or create. A find that is answered with an error finds nothing;
\* DefectDojo then refuses a second type, product or user of a name, and takes a second engagement.
Seed ==
  /\ plan # <<>> /\ plan[1] \in Range(SeedLake)
  /\ \E found \in BOOLEAN :
       IF plan[1] = "engagement"
       THEN dojo' = IF found /\ dojo.engagements > 0 THEN dojo ELSE [dojo EXCEPT !.engagements = @ + 1]
       ELSE /\ found \/ plan[1] \notin dojo.objects
            /\ dojo' = [dojo EXCEPT !.objects = @ \cup {plan[1]}]
  /\ plan' = Tail(plan)
  /\ UNCHANGED <<rules, have, access, begun>>

DeployNext == Run \/ Abort \/ Rule \/ Make \/ Unit \/ Enable \/ Fresh \/ ComposeUp \/ Delete \/ DeleteRules \/ Seed

DeploySpec == DeployInit /\ [][DeployNext]_deployVars

-----------------------------------------------------------------------------

\* Whatever was killed, failed or torn down before, a VM is created only once the rules of its access
\* model are there (cmd_provision, cmd_teardown).
CreatedBehindRules ==
  [][("vm" \notin have /\ "vm" \in have') =>
       IF access = "iap" THEN {"allow-iap", "deny-public"} \subseteq rules ELSE "allow-operator" \in rules]_deployVars

\* remote-bootstrap.sh:5: "Idempotent: safe to re-run." A bootstrap that reached its end, be it at a
\* second run after a first that was cut short, and that complained of nothing, has left all it installs.
BootstrapIsWhole == "bootstrapped" \in have /\ "complaint" \notin have => Range(Bootstrap) \subseteq have
=============================================================================
