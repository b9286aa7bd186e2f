------------------------------ MODULE ServiceFiles ------------------------------
(***************************************************************************)
(* services/services.go and services/nginx.go: the operator's service      *)
(* definitions, what a deployment makes of them, and the configuration of  *)
(* the edge proxy.                                                         *)
(*                                                                         *)
(* A definition is processed for this cluster, SAVED OVER the operator's   *)
(* file, deployed as a stack and copied to the storage.  The next run      *)
(* therefore processes its own output.  Of a definition only what          *)
(* processing changes is kept.                                             *)
(***************************************************************************)
EXTENDS Naturals, Sequences, FiniteSets

CONSTANTS Services,          \* the files, in the order of their names
          Edge,              \* the service that is the edge proxy
          Proxied, Streamed, \* services with NGINX_PROXY, with NGINX_TCP_STREAM
          WithPassword,      \* services with PORTAINER_ADMIN_PASSWORD
          MountDepth,        \* components of the storage mount path below /mnt (2: any path elsewhere)
          StorageOn,         \* distributed storage is enabled
          MaxTextChanges     \* bound on what processing adds to one file

ServiceNames == {Services[i] : i \in 1..Len(Services)}

ASSUME ServicesAssumption ==
    /\ Services \in Seq(ServiceNames)
    /\ \A i, j \in 1..Len(Services) : Services[i] = Services[j] => i = j
    /\ Edge \in ServiceNames
    /\ Proxied \subseteq ServiceNames /\ Streamed \subseteq ServiceNames
    /\ WithPassword \subseteq ServiceNames
    /\ MountDepth \in Nat \ {0, 1} /\ StorageOn \in BOOLEAN
    /\ MaxTextChanges \in Nat \ {0}

VARIABLES file,              \* per service, the operator's file
          enabled,           \* services whose header says ENABLED
          stack,             \* per service, what its stack was deployed from
          stored,            \* per service, the definition in the storage
          edge,              \* what the edge proxy's configuration routes
          prepared,          \* this run prepared the edge proxy
          deployed           \* services this run has deployed

serviceVars == <<file, enabled, stack, stored, edge, prepared, deployed>>

(* torn: cut short.  worker: a placement constraint asks for a worker.     *)
(* var: the mount path is still a variable.  extra: components a mount     *)
(* path has too many.  hashes: administrator passwords on command lines.   *)
Original == [torn |-> FALSE, worker |-> TRUE, var |-> TRUE, extra |-> 0, hashes |-> 0]
Absent == [Original EXCEPT !.torn = TRUE, !.worker = FALSE, !.var = FALSE]
Torn == [Absent EXCEPT !.extra = 1]

Capped(n) == IF n > MaxTextChanges THEN MaxTextChanges ELSE n

(* Defect: the legacy pattern ends after the storage type.                 *)
ReplacedShort(f) ==
    IF ~StorageOn THEN f ELSE [f EXCEPT !.var = FALSE, !.extra = Capped(@ + MountDepth - 1)]

(* replaceStoragePaths: the variable first, then every /mnt/<type>/<name>, *)
(* two components, the mount path that was just put there among them.      *)
Replaced(f) ==
    IF ~StorageOn THEN f ELSE [f EXCEPT !.var = FALSE, !.extra = Capped(@ + MountDepth - 2)]

(* adjustPlacementConstraints: from worker to manager, never back. *)
Adjusted(f, dedicated) == IF dedicated THEN f ELSE [f EXCEPT !.worker = FALSE]

(* injectPortainerAdminPassword: the pattern for `command: <args>` takes a *)
(* line break for white space, so it matches the list a former run made of *)
(* the line, and puts the flag in again, after the list's first element.   *)
Injected(s, f) == IF s \in WithPassword THEN [f EXCEPT !.hashes = Capped(@ + 1)] ELSE f

Processed(s, f, dedicated) ==
    IF f.torn THEN f ELSE Injected(s, Adjusted(Replaced(f), dedicated))

ServicesInit ==
    /\ file = [s \in ServiceNames |-> Original]
    /\ enabled = ServiceNames
    /\ stack = [s \in ServiceNames |-> Absent]
    /\ stored = [s \in ServiceNames |-> Absent]
    /\ edge = [rules |-> {}, streams |-> {}]
    /\ prepared = FALSE /\ deployed = {}

-------------------------------------------------------------------------------
(* deployService, when all of it succeeds. *)
Deployed(s, dedicated) ==
    LET p == Processed(s, file[s], dedicated)
    IN  /\ file' = [file EXCEPT ![s] = p]
        /\ stack' = [stack EXCEPT ![s] = p]
        /\ deployed' = deployed \cup {s}

(* The save fails, which is logged: the file is as it was, or cut short.   *)
DeployedUnsaved(s, dedicated) ==
    /\ \E f \in {file[s], Torn} : file' = [file EXCEPT ![s] = f]
    /\ stack' = [stack EXCEPT ![s] = Processed(s, file[s], dedicated)]
    /\ deployed' = deployed \cup {s}

(* The upload or the stack deployment fails: this service has failed.      *)
NotDeployed(s, dedicated) ==
    /\ file' = [file EXCEPT ![s] = Processed(s, @, dedicated)]
    /\ UNCHANGED <<stack, deployed>>

(* uploadServiceDefinitions: of the services deployed in this run what was *)
(* deployed, of the other enabled ones the file.                           *)
Definition(s) == IF s \in deployed THEN stack[s] ELSE file[s]

Uploaded(missing) ==
    stored' = [s \in ServiceNames |->
                 IF s \in enabled \ missing THEN Definition(s) ELSE stored[s]]

(* Defect: like nginx.conf, default.conf is only created when it is not    *)
(* there.                                                                  *)
PlaceholderIfMissing == [edge EXCEPT !.rules = @]

(* createDefaultServerConfig overwrites whatever the last run generated.   *)
Placeholder == [edge EXCEPT !.rules = {}]

(* PrepareEdgeLoadBalancerDeployment; the certificate may fail to be made. *)
PrepareEdge ==
    IF Edge \in enabled
    THEN edge' = Placeholder /\ prepared' = TRUE
    ELSE prepared' = FALSE /\ UNCHANGED edge

PrepareEdgeFails ==
    /\ Edge \in enabled
    /\ prepared' = FALSE
    /\ edge' \in {edge, Placeholder}

Routed == (enabled \cap Proxied) \ {Edge}

(* GenerateProxyRulesForServices: nothing to route, nothing to write; and  *)
(* the TCP streams only if there is something to route and to stream.      *)
Generate ==
    edge' = IF ~prepared \/ Routed = {} THEN edge
            ELSE [rules |-> Routed,
                  streams |-> IF enabled \cap Streamed = {} THEN edge.streams
                              ELSE enabled \cap Streamed]

(* default.conf was not written, or only the stream file was not. *)
GenerateFails ==
    /\ prepared /\ Routed # {}
    /\ edge' \in {edge, [edge EXCEPT !.rules = Routed]}

-------------------------------------------------------------------------------
(* What a deployment saves over an operator's file is a text that a        *)
(* deployment to the same cluster leaves as it is                          *)
(* (services.go deployService, "so it can be redeployed with dynamic       *)
(* settings").                                                             *)
Settled(s, dedicated) == Processed(s, file'[s], dedicated) = file'[s]
===============================================================================
