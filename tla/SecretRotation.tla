--------------------------- MODULE SecretRotation ---------------------------
(***************************************************************************)
(* Key versions and their rotation: servers and secret-rotate runs with    *)
(* key rings from the configuration they started with, over one database.  *)
(*                                                                         *)
(*   internal/crypto, internal/auth/token_hash.go   the key rings          *)
(*   internal/config/config.go                      SecretEncryptionKeys   *)
(*   internal/admin/secret_rotation_service.go      Reencrypt*Secrets      *)
(*   internal/provider/provider_service.go          CreateProvider         *)
(*   internal/budget/alert_service.go               Seal/OpenWebhookSecret *)
(*   cmd/secret-rotate/main.go                      the tool               *)
(*                                                                         *)
(* A configuration is [active, ring], used for encryption and for token    *)
(* hashes alike.  A stored secret is [sealed, version]: the key it is      *)
(* sealed or hashed with and the version written beside it; what it says   *)
(* is fixed when it is created, so opening it with the right key is enough *)
(* to know it intact.  Version 0 is a webhook secret in plain text, from   *)
(* before they were encrypted.  The operator keeps to                      *)
(* docs/runbooks/secret-rotation.md.                                       *)
(***************************************************************************)
EXTENDS Naturals

CONSTANTS
    Providers, Alerts, Tokens,  \* ids of rows that may be created
    Legacy,                     \* alerts with a plain text secret
    Orgs, OrgOf,                \* [Providers \cup Alerts -> Orgs]
    Versions, Servers, Tools,
    MaxEdits, MaxRuns           \* bounds of the instance

Encrypted == Providers \cup Alerts
Secrets == Encrypted \cup Tokens
AllOrgs == "all"  \* no -org-id

ASSUME RotationAssumption ==
    /\ Legacy \subseteq Alerts /\ OrgOf \in [Encrypted -> Orgs]
    /\ Tokens \cap Encrypted = {}  \* rows of other tables
    /\ Versions \subseteq Nat \ {0} /\ {MaxEdits, MaxRuns} \subseteq Nat

VARIABLES
    config,   \* the configuration in force for whatever starts next
    server,   \* [Servers -> the configuration it runs with, or Stopped]
    rows,     \* provider_secrets, budget_alerts.webhook_secret and the token tables
    tool,     \* secret-rotate runs
    edits, runs  \* how often the configuration was edited and a run started

rvars == <<config, server, rows, tool, edits, runs>>

Empty == [sealed |-> 0, version |-> 0, present |-> FALSE]
PlainText == [Empty EXCEPT !.present = TRUE]
Stopped == [active |-> 0, ring |-> {}]
NoRows == [s \in {} |-> Empty]
Off == [pc |-> "off", cfg |-> Stopped, dry |-> FALSE, org |-> AllOrgs, part |-> "providers",
        todo |-> NoRows, alone |-> FALSE]

RotationInit ==
    /\ \E v \in Versions : config = [active |-> v, ring |-> {v}]
    /\ server = [p \in Servers |-> Stopped]
    /\ rows = [s \in Secrets |-> IF s \in Legacy THEN PlainText ELSE Empty]
    /\ tool = [t \in Tools |-> Off]
    /\ edits = 0 /\ runs = 0

-----------------------------------------------------------------------------
(* Key rings                                                               *)

\* SecretEncryptionKeys, TokenHashSecrets and the rings refuse anything else.
NewSecretKeyRing(c) == c.active \in c.ring

Seal(c) == [sealed |-> c.active, version |-> c.active, present |-> TRUE]

\* By the version beside the secret.
Open(c, row) == row.version \in c.ring /\ row.sealed = row.version
OpenWebhookSecret(c, row) == row.version = 0 \/ Open(c, row)

\* A token has no version: CandidateHashes tries every key.
Matches(c, row) == row.sealed \in c.ring

Opens(c, s, row) ==
    \/ s \in Providers /\ Open(c, row)
    \/ s \in Alerts /\ OpenWebhookSecret(c, row)
    \/ s \in Tokens /\ Matches(c, row)

\* A write with version v ends the time that a run towards another one was alone.
Noted(v) == [t \in Tools |-> [tool[t] EXCEPT !.alone = @ /\ tool[t].cfg.active = v]]

-----------------------------------------------------------------------------
(* Servers                                                                 *)

Restart(p) ==
    /\ NewSecretKeyRing(config) /\ server[p] # config
    /\ server' = [server EXCEPT ![p] = config]
    /\ UNCHANGED <<config, rows, tool, edits, runs>>

Stop(p) ==
    /\ server[p] # Stopped
    /\ server' = [server EXCEPT ![p] = Stopped]
    /\ UNCHANGED <<config, rows, tool, edits, runs>>

\* CreateProvider and CreateAlert seal with the active key.
CreateSecret(p, s) ==
    /\ server[p] # Stopped /\ ~rows[s].present
    /\ rows' = [rows EXCEPT ![s] = Seal(server[p])]
    /\ tool' = Noted(server[p].active)
    /\ UNCHANGED <<config, server, edits, runs>>

\* CreateAdminToken, CreateAPIKey, CreateUserSession, CreateMagicLinkToken: Hash with the
\* active key.
CreateToken(p, s) ==
    /\ server[p] # Stopped /\ ~rows[s].present
    /\ rows' = [rows EXCEPT ![s] = Seal(server[p])]
    /\ UNCHANGED <<config, server, tool, edits, runs>>

\* A token expires, or is revoked.
EndToken(s) ==
    /\ rows[s].present
    /\ rows' = [rows EXCEPT ![s] = Empty]
    /\ UNCHANGED <<config, server, tool, edits, runs>>

-----------------------------------------------------------------------------
(* secret-rotate                                                           *)

InProgress(t) == tool[t].pc \in {"list", "run"}

InScope(t, part) ==
    {s \in (IF part = "providers" THEN Providers ELSE Alerts) :
        rows[s].present /\ tool[t].org \in {AllOrgs, OrgOf[s]}}

\* ListProviderSecretsForRotation, and the query on budget_alerts: the rows as one
\* statement sees them.
Listed(t, part) == [s \in InScope(t, part) |-> rows[s]]

StartTool(t, dry, org) ==
    /\ ~InProgress(t) /\ runs < MaxRuns
    /\ NewSecretKeyRing(config)
    /\ tool' = [tool EXCEPT ![t] = [Off EXCEPT !.pc = "list", !.cfg = config, !.dry = dry,
                                               !.org = org, !.alone = TRUE]]
    /\ runs' = runs + 1
    /\ UNCHANGED <<config, server, rows, edits>>

ListRows(t) ==
    /\ tool[t].pc = "list"
    /\ tool' = [tool EXCEPT ![t].pc = "run", ![t].todo = Listed(t, tool[t].part)]
    /\ UNCHANGED <<config, server, rows, edits, runs>>

Skipped_Plain(t, row) == row.version \in {0, tool[t].cfg.active}

\* Rows that are at the active version already; a plain text one is not.
Skipped(t, row) == row.version = tool[t].cfg.active

UpdateCiphertext_OldVersion(t, row) == [Seal(tool[t].cfg) EXCEPT !.version = row.version]

\* The row is overwritten whatever it holds by now.
UpdateCiphertext(t, row) == Seal(tool[t].cfg)

\* One row of the list: skipped, opened and sealed again, or the end of the run.  A dry
\* run opens without writing.
ReencryptRow(t, s) ==
    LET row == tool[t].todo[s]
        rest == [u \in DOMAIN tool[t].todo \ {s} |-> tool[t].todo[u]] IN
    /\ tool[t].pc = "run" /\ s \in DOMAIN tool[t].todo
    /\ \/ /\ Skipped(t, row) \/ (Opens(tool[t].cfg, s, row) /\ tool[t].dry)
          /\ tool' = [tool EXCEPT ![t].todo = rest]
          /\ UNCHANGED rows
       \/ /\ ~Skipped(t, row) /\ Opens(tool[t].cfg, s, row) /\ ~tool[t].dry
          /\ rows' = [rows EXCEPT ![s] = UpdateCiphertext(t, row)]
          /\ tool' = [Noted(tool[t].cfg.active) EXCEPT ![t].todo = rest]
       \/ /\ ~Skipped(t, row) /\ ~Opens(tool[t].cfg, s, row)
          /\ tool' = [tool EXCEPT ![t].pc = "failed", ![t].todo = NoRows]
          /\ UNCHANGED rows
    /\ UNCHANGED <<config, server, edits, runs>>

\* Provider secrets first, then webhook secrets.
EndOfList(t) ==
    /\ tool[t].pc = "run" /\ DOMAIN tool[t].todo = {}
    /\ tool' = IF tool[t].part = "providers"
               THEN [tool EXCEPT ![t].part = "webhooks", ![t].pc = "list", ![t].todo = NoRows]
               ELSE [tool EXCEPT ![t].pc = "done", ![t].todo = NoRows]
    /\ UNCHANGED <<config, server, rows, edits, runs>>

\* A database error stops the run halfway, or the process is killed.
ToolFails(t) ==
    /\ InProgress(t)
    /\ tool' = [tool EXCEPT ![t].pc = "failed", ![t].todo = NoRows]
    /\ UNCHANGED <<config, server, rows, edits, runs>>

-----------------------------------------------------------------------------
(* The operator                                                            *)

\* The first conjunct is the runbook's: no ciphertext uses the key's version any more, and
\* tokens hashed with it have expired, been revoked or been issued again. The other two
\* are an ASSUMPTION about the operator beyond the runbook, which names no restart of all
\* instances before a key is deleted: that no server and no run still writes with the
\* key. Without it a server not yet restarted writes a secret the new ring cannot read.
MayDrop(v) ==
    /\ \A s \in Secrets : rows[s].present => v \notin {rows[s].version, rows[s].sealed}
    /\ \A p \in Servers : server[p].active # v
    /\ \A t \in Tools : InProgress(t) => tool[t].cfg.active # v

EditConfig(c) ==
    /\ edits < MaxEdits
    /\ \A v \in config.ring \ c.ring : MayDrop(v)
    /\ config' = c /\ edits' = edits + 1
    /\ UNCHANGED <<server, rows, tool, runs>>

RotationNext ==
    \/ \E c \in [active: Versions, ring: SUBSET Versions] : EditConfig(c)
    \/ \E p \in Servers :
         \/ Restart(p) \/ Stop(p)
         \/ \E s \in Encrypted : CreateSecret(p, s)
         \/ \E s \in Tokens : CreateToken(p, s)
    \/ \E s \in Tokens : EndToken(s)
    \/ \E t \in Tools :
         \/ \E dry \in BOOLEAN, o \in Orgs \cup {AllOrgs} : StartTool(t, dry, o)
         \/ ListRows(t) \/ EndOfList(t) \/ ToolFails(t)
         \/ \E s \in Encrypted : ReencryptRow(t, s)

RotationSpec == RotationInit /\ [][RotationNext]_rvars

-----------------------------------------------------------------------------
(* Properties                                                              *)

Configs == [active: Versions, ring: SUBSET Versions]
Row == [sealed: Versions \cup {0}, version: Versions \cup {0}, present: BOOLEAN]
Lists == UNION {[S -> Row] : S \in SUBSET Encrypted}
Run == [pc: {"off", "list", "run", "done", "failed"}, cfg: Configs \cup {Stopped},
        dry: BOOLEAN, org: Orgs \cup {AllOrgs}, part: {"providers", "webhooks"},
        todo: Lists, alone: BOOLEAN]

RotationTypeOK ==
    /\ config \in Configs
    /\ server \in [Servers -> Configs \cup {Stopped}]
    /\ rows \in [Secrets -> Row]
    /\ tool \in [Tools -> Run]

\* No secret is lost: whatever runs, or starts next, with the configuration in force
\* opens every provider and webhook secret and recognises every token, also while runs
\* of secret-rotate with older configurations overwrite rows from the list they made,
\* stop halfway, or meet each other, and servers not yet restarted add rows.
SecretsRecoverable ==
    \A s \in Secrets : rows[s].present => Opens(config, s, rows[s])

\* A run that ends without an error has done its work: every secret in its scope is at
\* the active version, legacy webhook secrets included, as long as nobody has written
\* with another version since it started.
DoneMeansRotated ==
    \A t \in Tools : tool[t].pc = "done" /\ ~tool[t].dry /\ tool[t].alone =>
        \A s \in InScope(t, "providers") \cup InScope(t, "webhooks") :
            rows[s].version = tool[t].cfg.active
=============================================================================
