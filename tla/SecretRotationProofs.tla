------------------------ MODULE SecretRotationProofs ------------------------
(***************************************************************************)
(* No secret is lost, and a run of secret-rotate that ends well has done   *)
(* its work: for any number of servers, runs, key versions and rows.       *)
(***************************************************************************)
EXTENDS SecretRotation, TLAPS

\* A stored secret is sealed with the version written beside it, and that version
\* is in the ring; only a webhook secret may be in plain text.
RowsInRing ==
    \A s \in Secrets : rows[s].present =>
        /\ rows[s].sealed = rows[s].version
        /\ rows[s].version \in config.ring \/ (rows[s].version = 0 /\ s \in Alerts)

\* Whoever may still write does so with a version of the ring.
WritersInRing ==
    /\ \A p \in Servers : server[p] # Stopped => server[p].active \in config.ring
    /\ \A t \in Tools : InProgress(t) => tool[t].cfg.active \in config.ring

RecoverInv == RotationTypeOK /\ RowsInRing /\ WritersInRing

\* s is at the version of run t.
Rotated(t, s) == rows[s].version = tool[t].cfg.active

\* s is at the version of run t, or still to be seen by it.
Pending(t, s) == s \in DOMAIN tool[t].todo /\ tool[t].todo[s].version # tool[t].cfg.active

\* Where a run stands that is no dry run, while nobody writes another version.
Progress(t) ==
    ~tool[t].dry /\ tool[t].alone =>
        /\ tool[t].pc = "done" \/ (InProgress(t) /\ tool[t].part = "webhooks") =>
              \A s \in InScope(t, "providers") : Rotated(t, s)
        /\ tool[t].pc = "done" => \A s \in InScope(t, "webhooks") : Rotated(t, s)
        /\ tool[t].pc = "run" =>
              \A s \in InScope(t, tool[t].part) : Rotated(t, s) \/ Pending(t, s)

RotateInv == RotationTypeOK /\ \A t \in Tools : Progress(t)

-----------------------------------------------------------------------------
(* Types                                                                   *)

\* The empty list is a list of secrets.
LEMMA NoRowsIsList == NoRows \in Lists /\ DOMAIN NoRows = {}
  <1>1. NoRows \in [{} -> Row]
    BY DEF NoRows
  <1>2. QED
    BY <1>1 DEF Lists, NoRows

\* A sealed secret is a row.
LEMMA SealIsRow ==
    ASSUME NEW c \in Configs
    PROVE  Seal(c) \in Row
  BY DEF Seal, Row, Configs

\* A list of secrets is a function, and stays one without its first entry.
LEMMA ListIsFunction ==
    ASSUME NEW l \in Lists
    PROVE  /\ l \in [DOMAIN l -> Row] /\ DOMAIN l \subseteq Encrypted
           /\ \A s : [u \in DOMAIN l \ {s} |-> l[u]] \in Lists
  <1>1. PICK S \in SUBSET Encrypted : l \in [S -> Row]
    BY DEF Lists
  <1>2. ASSUME NEW s
        PROVE  [u \in S \ {s} |-> l[u]] \in Lists
    <2>1. [u \in S \ {s} |-> l[u]] \in [S \ {s} -> Row]
      BY <1>1
    <2>2. QED
      BY <2>1 DEF Lists
  <1>3. QED
    BY <1>1, <1>2

\* Noted only touches the mark.
LEMMA NotedFields ==
    ASSUME RotationTypeOK, NEW v
    PROVE  /\ Noted(v) \in [Tools -> Run]
           /\ \A t \in Tools :
                /\ Noted(v)[t].pc = tool[t].pc /\ Noted(v)[t].cfg = tool[t].cfg
                /\ Noted(v)[t].dry = tool[t].dry /\ Noted(v)[t].org = tool[t].org
                /\ Noted(v)[t].part = tool[t].part /\ Noted(v)[t].todo = tool[t].todo
                /\ Noted(v)[t].alone => tool[t].alone /\ tool[t].cfg.active = v
  <1>1. ASSUME NEW t \in Tools
        PROVE  tool[t] \in Run
    BY DEF RotationTypeOK
  <1>2. ASSUME NEW t \in Tools
        PROVE  [tool[t] EXCEPT !.alone = @ /\ tool[t].cfg.active = v] \in Run
    BY <1>1 DEF Run
  <1>3. QED
    BY <1>1, <1>2 DEF Noted, Run

\* The initial tables and tools are well-formed.
LEMMA TypedInit == RotationInit => RotationTypeOK
  <1> SUFFICES ASSUME RotationInit PROVE RotationTypeOK
    OBVIOUS
  <1>1. Off \in Run
    BY NoRowsIsList DEF Off, Run, AllOrgs
  <1>2. Empty \in Row /\ PlainText \in Row
    BY DEF Empty, PlainText, Row
  <1>3. QED
    BY <1>1, <1>2 DEF RotationInit, RotationTypeOK, Configs

\* Every step keeps tables and tools well-formed.
LEMMA TypedStep == RotationTypeOK /\ [RotationNext]_rvars => RotationTypeOK'
  <1> SUFFICES ASSUME RotationTypeOK, [RotationNext]_rvars PROVE RotationTypeOK'
    OBVIOUS
  <1>f. \A t \in Tools : tool[t] \in Run
    BY DEF RotationTypeOK
  <1>1. ASSUME NEW c \in [active: Versions, ring: SUBSET Versions], EditConfig(c)
        PROVE  RotationTypeOK'
    BY <1>1 DEF EditConfig, RotationTypeOK, Configs
  <1>2. ASSUME NEW p \in Servers, Restart(p) \/ Stop(p)
        PROVE  RotationTypeOK'
    BY <1>2 DEF Restart, Stop, RotationTypeOK
  <1>3. ASSUME NEW p \in Servers, NEW s \in Secrets, CreateSecret(p, s) \/ CreateToken(p, s)
        PROVE  RotationTypeOK'
    <2>1. Seal(server[p]) \in Row
      BY <1>3, SealIsRow DEF RotationTypeOK, CreateSecret, CreateToken
    <2>2. QED
      BY <1>3, <2>1, NotedFields DEF RotationTypeOK, CreateSecret, CreateToken
  <1>4. ASSUME NEW s \in Tokens, EndToken(s)
        PROVE  RotationTypeOK'
    BY <1>4 DEF EndToken, RotationTypeOK, Empty, Row
  <1>5. ASSUME NEW t \in Tools, NEW dry \in BOOLEAN, NEW o \in Orgs \cup {AllOrgs}, StartTool(t, dry, o)
        PROVE  RotationTypeOK'
    <2>1. [Off EXCEPT !.pc = "list", !.cfg = config, !.dry = dry, !.org = o, !.alone = TRUE] \in Run
      BY NoRowsIsList DEF Off, Run, RotationTypeOK
    <2>2. QED
      BY <1>5, <2>1 DEF StartTool, RotationTypeOK
  <1>6. ASSUME NEW t \in Tools, ListRows(t)
        PROVE  RotationTypeOK'
    <2>1. Listed(t, tool[t].part) \in [InScope(t, tool[t].part) -> Row]
      BY DEF Listed, InScope, RotationTypeOK, Secrets, Encrypted
    <2>2. InScope(t, tool[t].part) \in SUBSET Encrypted
      BY DEF InScope, Encrypted
    <2>3. Listed(t, tool[t].part) \in Lists
      BY <2>1, <2>2 DEF Lists
    <2>4. ASSUME NEW l \in Lists
          PROVE  [tool[t] EXCEPT !.pc = "run", !.todo = l] \in Run
      BY <1>f DEF Run
    <2>5. QED
      BY <1>6, <1>f, <2>3, <2>4 DEF ListRows, RotationTypeOK
  <1>7. ASSUME NEW t \in Tools, EndOfList(t) \/ ToolFails(t)
        PROVE  RotationTypeOK'
    BY <1>7, <1>f, NoRowsIsList DEF EndOfList, ToolFails, RotationTypeOK, Run
  <1>8. ASSUME NEW t \in Tools, NEW s \in Encrypted, ReencryptRow(t, s)
        PROVE  RotationTypeOK'
    <2> DEFINE rest == [u \in DOMAIN tool[t].todo \ {s} |-> tool[t].todo[u]]
    <2>1. rest \in Lists
      BY <1>f, ListIsFunction DEF Run
    <2>2. s \in Secrets
      BY DEF Secrets
    <2>3. CASE tool' = [tool EXCEPT ![t].todo = rest] /\ UNCHANGED rows
      BY <1>8, <1>f, <2>1, <2>3 DEF ReencryptRow, RotationTypeOK, Run
    <2>4. CASE /\ rows' = [rows EXCEPT ![s] = UpdateCiphertext(t, tool[t].todo[s])]
               /\ tool' = [Noted(tool[t].cfg.active) EXCEPT ![t].todo = rest]
               /\ ~Skipped(t, tool[t].todo[s]) /\ Opens(tool[t].cfg, s, tool[t].todo[s])
      <3>0. tool[t].cfg \in Configs
        <4>1. tool[t].cfg # Stopped
          <5>1. tool[t].todo[s] \in Row /\ s \notin Tokens
            BY <1>8, <1>f, ListIsFunction, RotationAssumption DEF ReencryptRow, Run
          <5>2. tool[t].todo[s].version # tool[t].cfg.active
            BY <2>4 DEF Skipped
          <5>3. tool[t].todo[s].version = 0 \/ tool[t].todo[s].version \in tool[t].cfg.ring
            BY <2>4, <5>1 DEF Opens, Open, OpenWebhookSecret
          <5>4. QED
            BY <5>2, <5>3 DEF Stopped
        <4>2. QED
          BY <1>f, <4>1 DEF Run
      <3>1. Seal(tool[t].cfg) \in Row
        BY <3>0, SealIsRow
      <3>2. tool' \in [Tools -> Run]
        BY <2>1, <2>4, NotedFields DEF Run
      <3>3. rows' \in [Secrets -> Row]
        BY <2>2, <2>4, <3>1 DEF UpdateCiphertext, RotationTypeOK
      <3>4. QED
        BY <1>8, <3>2, <3>3 DEF ReencryptRow, RotationTypeOK
    <2>5. CASE tool' = [tool EXCEPT ![t].pc = "failed", ![t].todo = NoRows] /\ UNCHANGED rows
      BY <1>8, <1>f, <2>5, NoRowsIsList DEF ReencryptRow, RotationTypeOK, Run
    <2>6. QED
      BY <1>8, <2>3, <2>4, <2>5 DEF ReencryptRow
  <1>9. CASE UNCHANGED rvars
    BY <1>9 DEF rvars, RotationTypeOK
  <1>10. QED
    BY <1>1, <1>2, <1>3, <1>4, <1>5, <1>6, <1>7, <1>8, <1>9
       DEF RotationNext, Secrets

\* The key rings, rows and runs keep their types; in particular a running secret-rotate
\* has a complete configuration and a list of encrypted rows.
THEOREM RotationTyped == RotationSpec => []RotationTypeOK
  BY TypedInit, TypedStep, PTL DEF RotationSpec

-----------------------------------------------------------------------------
(* No secret is lost                                                       *)

\* What is sealed with a version of the ring can be opened with it.
LEMMA InRingOpens == RecoverInv => SecretsRecoverable
  <1> SUFFICES ASSUME RecoverInv, NEW s \in Secrets, rows[s].present
               PROVE  Opens(config, s, rows[s])
    BY DEF SecretsRecoverable
  <1>1. CASE rows[s].version \in config.ring
    BY <1>1 DEF RecoverInv, RowsInRing, Opens, Open, OpenWebhookSecret, Matches, Secrets, Encrypted
  <1>2. CASE rows[s].version = 0 /\ s \in Alerts
    BY <1>2 DEF Opens, OpenWebhookSecret
  <1>3. QED
    BY <1>1, <1>2 DEF RecoverInv, RowsInRing

\* A row written with a version of the ring fits, and the others stay as they are.
LEMMA WriteKeepsRing ==
    ASSUME RecoverInv, NEW s \in Secrets, NEW c, c.active \in config.ring,
           rows' = [rows EXCEPT ![s] = Seal(c)], UNCHANGED config
    PROVE  RowsInRing'
  BY DEF RecoverInv, RotationTypeOK, RowsInRing, Seal

\* Every step keeps RecoverInv.
LEMMA RecoverStep == RecoverInv /\ [RotationNext]_rvars => RecoverInv'
  <1> SUFFICES ASSUME RecoverInv, [RotationNext]_rvars PROVE RecoverInv'
    OBVIOUS
  <1>t. RotationTypeOK /\ RotationTypeOK'
    BY TypedStep DEF RecoverInv
  <1>f. \A t \in Tools : tool[t] \in Run
    BY <1>t DEF RotationTypeOK
  <1>1. ASSUME NEW c \in [active: Versions, ring: SUBSET Versions], EditConfig(c)
        PROVE  RowsInRing' /\ WritersInRing'
    <2>1. ASSUME NEW v \in config.ring, v \notin c.ring
          PROVE  MayDrop(v)
      BY <1>1, <2>1 DEF EditConfig
    <2>2. RowsInRing'
      BY <1>1, <2>1 DEF EditConfig, MayDrop, RecoverInv, RowsInRing
    <2>3. WritersInRing'
      BY <1>1, <2>1 DEF EditConfig, MayDrop, RecoverInv, WritersInRing, InProgress
    <2>4. QED
      BY <2>2, <2>3
  <1>2. ASSUME NEW p \in Servers, Restart(p) \/ Stop(p)
        PROVE  RowsInRing' /\ WritersInRing'
    BY <1>2, <1>t DEF Restart, Stop, NewSecretKeyRing, RecoverInv, RowsInRing, WritersInRing,
                      InProgress, RotationTypeOK
  <1>3. ASSUME NEW p \in Servers, NEW s \in Secrets, CreateSecret(p, s) \/ CreateToken(p, s)
        PROVE  RowsInRing' /\ WritersInRing'
    <2>1. server[p].active \in config.ring
      BY <1>3 DEF CreateSecret, CreateToken, RecoverInv, WritersInRing
    <2>2. RowsInRing'
      BY <1>3, <2>1, WriteKeepsRing DEF CreateSecret, CreateToken
    <2>3. \A t \in Tools : tool'[t].pc = tool[t].pc /\ tool'[t].cfg = tool[t].cfg
      BY <1>3, <1>t, NotedFields DEF CreateSecret, CreateToken
    <2>4. WritersInRing'
      BY <1>3, <2>3 DEF CreateSecret, CreateToken, RecoverInv, WritersInRing, InProgress
    <2>5. QED
      BY <2>2, <2>4
  <1>4. ASSUME NEW s \in Tokens, EndToken(s)
        PROVE  RowsInRing' /\ WritersInRing'
    BY <1>4, <1>t DEF EndToken, Empty, RecoverInv, RowsInRing, WritersInRing, InProgress, RotationTypeOK
  <1>5. ASSUME NEW t \in Tools, NEW dry \in BOOLEAN, NEW o \in Orgs \cup {AllOrgs}, StartTool(t, dry, o)
        PROVE  RowsInRing' /\ WritersInRing'
    <2>1. tool'[t].cfg = config /\ \A u \in Tools \ {t} : tool'[u] = tool[u]
      BY <1>5, <1>t DEF StartTool, Off, RotationTypeOK
    <2>2. QED
      BY <1>5, <2>1 DEF StartTool, NewSecretKeyRing, RecoverInv, RowsInRing, WritersInRing, InProgress
  <1>6. ASSUME NEW t \in Tools, ListRows(t) \/ EndOfList(t) \/ ToolFails(t)
        PROVE  RowsInRing' /\ WritersInRing'
    <2>1. \A u \in Tools : tool'[u].cfg = tool[u].cfg /\ (InProgress(u)' => InProgress(u))
      BY <1>6, <1>f, <1>t DEF ListRows, EndOfList, ToolFails, InProgress, RotationTypeOK, Run
    <2>2. QED
      BY <1>6, <2>1 DEF ListRows, EndOfList, ToolFails, RecoverInv, RowsInRing, WritersInRing
  <1>7. ASSUME NEW t \in Tools, NEW s \in Encrypted, ReencryptRow(t, s)
        PROVE  RowsInRing' /\ WritersInRing'
    <2>1. \A u \in Tools : tool'[u].cfg = tool[u].cfg /\ (InProgress(u)' => InProgress(u))
      BY <1>7, <1>f, <1>t, NotedFields DEF ReencryptRow, InProgress, RotationTypeOK, Run
    <2>2. WritersInRing'
      BY <1>7, <2>1 DEF ReencryptRow, RecoverInv, WritersInRing
    <2>3. tool[t].cfg.active \in config.ring
      BY <1>7 DEF ReencryptRow, InProgress, RecoverInv, WritersInRing
    <2>4. CASE UNCHANGED rows
      BY <1>7, <2>2, <2>4 DEF ReencryptRow, RecoverInv, RowsInRing
    <2>5. CASE rows' = [rows EXCEPT ![s] = Seal(tool[t].cfg)]
      <3>1. UNCHANGED config /\ s \in Secrets
        BY <1>7 DEF ReencryptRow, Secrets
      <3>2. QED
        BY <2>2, <2>3, <2>5, <3>1, WriteKeepsRing
    <2>6. UNCHANGED rows \/ rows' = [rows EXCEPT ![s] = Seal(tool[t].cfg)]
      BY <1>7 DEF ReencryptRow, UpdateCiphertext
    <2>7. QED
      BY <2>2, <2>4, <2>5, <2>6
  <1>8. CASE UNCHANGED rvars
    BY <1>8, <1>t DEF rvars, RecoverInv, RowsInRing, WritersInRing, InProgress
  <1>9. QED
    BY <1>1, <1>2, <1>3, <1>4, <1>5, <1>6, <1>7, <1>8, <1>t DEF RotationNext, Secrets, RecoverInv

\* Every provider secret, webhook secret and token that is stored stays readable with
\* the configuration in force, whatever servers and rotation runs with older
\* configurations write, if keys are dropped as the runbook says.
THEOREM SecretsStayReadable == RotationSpec => []SecretsRecoverable
  <1>1. RotationInit => RecoverInv
    <2> SUFFICES ASSUME RotationInit PROVE RowsInRing /\ WritersInRing
      BY TypedInit DEF RecoverInv
    <2>1. RowsInRing
      BY RotationAssumption DEF RotationInit, RowsInRing, PlainText, Empty
    <2>2. WritersInRing
      BY DEF RotationInit, WritersInRing, InProgress, Off
    <2>3. QED
      BY <2>1, <2>2
  <1>2. QED
    BY <1>1, RecoverStep, InRingOpens, PTL DEF RotationSpec

-----------------------------------------------------------------------------
(* A run that ends well has done its work                                  *)

\* A run that is not touched keeps its place when a row is written: either with its
\* own version, or it is no longer alone.
LEMMA WriteKeepsProgress ==
    ASSUME RotationTypeOK, NEW t \in Tools, Progress(t), NEW s \in Encrypted, NEW r, r.present = TRUE,
           rows' = [rows EXCEPT ![s] = r],
           tool'[t].pc = tool[t].pc, tool'[t].cfg = tool[t].cfg, tool'[t].dry = tool[t].dry,
           tool'[t].org = tool[t].org, tool'[t].part = tool[t].part, tool'[t].todo = tool[t].todo,
           tool'[t].alone => tool[t].alone /\ tool[t].cfg.active = r.version
    PROVE  Progress(t)'
  <1> SUFFICES ASSUME ~tool'[t].dry, tool'[t].alone PROVE Progress(t)'
    BY DEF Progress
  <1>1. \A part : InScope(t, part)' \subseteq InScope(t, part) \cup {s}
    BY DEF InScope, RotationTypeOK, Secrets, Encrypted
  <1>2. Rotated(t, s)' /\ \A x \in Encrypted \ {s} : Rotated(t, x)' = Rotated(t, x)
    BY DEF Rotated, RotationTypeOK, Secrets
  <1>3. \A x : Pending(t, x)' = Pending(t, x)
    BY DEF Pending
  <1>4. \A part : InScope(t, part) \subseteq Encrypted
    BY DEF InScope, Encrypted
  <1>5. QED
    BY <1>1, <1>2, <1>3, <1>4 DEF Progress, InProgress

\* A run keeps its place when nothing that it looks at changes.
LEMMA IdleKeepsProgress ==
    ASSUME NEW t \in Tools, Progress(t), tool'[t] = tool[t], \A s \in Encrypted : rows'[s] = rows[s]
    PROVE  Progress(t)'
  <1>1. \A part : InScope(t, part)' = InScope(t, part)
    BY DEF InScope, Encrypted
  <1>2. \A part : InScope(t, part) \subseteq Encrypted
    BY DEF InScope, Encrypted
  <1>3. QED
    BY <1>1, <1>2 DEF Progress, InProgress, Rotated, Pending

\* What one row of the list does to the run itself.
LEMMA RowKeepsProgress ==
    ASSUME RotationTypeOK, NEW t \in Tools, Progress(t), NEW s \in Encrypted, ReencryptRow(t, s)
    PROVE  Progress(t)'
  <1> DEFINE row == tool[t].todo[s]
             rest == [u \in DOMAIN tool[t].todo \ {s} |-> tool[t].todo[u]]
  <1>f. tool[t] \in Run
    BY DEF RotationTypeOK
  <1>s. s \in Secrets /\ \A part : InScope(t, part) \subseteq Encrypted
    BY DEF Secrets, InScope, Encrypted
  <1>1. CASE /\ Skipped(t, row) \/ (Opens(tool[t].cfg, s, row) /\ tool[t].dry)
             /\ tool' = [tool EXCEPT ![t].todo = rest] /\ UNCHANGED rows
    <2>1. /\ tool'[t].pc = tool[t].pc /\ tool'[t].cfg = tool[t].cfg /\ tool'[t].dry = tool[t].dry
          /\ tool'[t].org = tool[t].org /\ tool'[t].part = tool[t].part
          /\ tool'[t].alone = tool[t].alone /\ tool'[t].todo = rest
      BY <1>1, <1>f DEF RotationTypeOK, Run
    <2>2. SUFFICES ASSUME ~tool[t].dry, tool[t].alone PROVE Progress(t)'
      BY <2>1 DEF Progress
    <2>3. \A part : InScope(t, part)' = InScope(t, part)
      BY <1>1, <2>1 DEF InScope
    <2>4. \A x : Rotated(t, x)' = Rotated(t, x)
      BY <1>1, <2>1 DEF Rotated
    <2>5. \A x : Pending(t, x) => Pending(t, x)'
      BY <1>1, <2>1, <2>2 DEF Pending, Skipped
    <2>6. QED
      BY <2>1, <2>3, <2>4, <2>5 DEF Progress, InProgress
  <1>2. CASE /\ rows' = [rows EXCEPT ![s] = Seal(tool[t].cfg)]
             /\ tool' = [Noted(tool[t].cfg.active) EXCEPT ![t].todo = rest]
    <2>1. /\ tool'[t].pc = tool[t].pc /\ tool'[t].cfg = tool[t].cfg /\ tool'[t].dry = tool[t].dry
          /\ tool'[t].org = tool[t].org /\ tool'[t].part = tool[t].part
          /\ tool'[t].alone => tool[t].alone /\ tool'[t].todo = rest
      BY <1>2, <1>f, NotedFields DEF RotationTypeOK, Run
    <2>2. SUFFICES ASSUME ~tool[t].dry, tool'[t].alone PROVE Progress(t)'
      BY <2>1 DEF Progress
    <2>3. tool[t].alone /\ tool'[t].todo = rest
      BY <2>1, <2>2
    <2>4. \A part : InScope(t, part)' \subseteq InScope(t, part) \cup {s}
      BY <1>2, <1>s, <2>1 DEF InScope, RotationTypeOK, Secrets, Encrypted
    <2>5. Rotated(t, s)' /\ \A x \in Encrypted \ {s} : Rotated(t, x)' = Rotated(t, x)
      BY <1>2, <1>s, <2>1 DEF Rotated, Seal, RotationTypeOK, Secrets
    <2>6. \A x \in Encrypted \ {s} : Pending(t, x)' = Pending(t, x)
      BY <2>1, <2>3 DEF Pending
    <2>7. QED
      BY <1>s, <2>1, <2>3, <2>4, <2>5, <2>6 DEF Progress, InProgress
  <1>3. CASE tool' = [tool EXCEPT ![t].pc = "failed", ![t].todo = NoRows]
    <2>1. tool'[t].pc = "failed"
      BY <1>3, <1>f DEF RotationTypeOK, Run
    <2>2. QED
      BY <2>1 DEF Progress, InProgress
  <1>4. QED
    BY <1>1, <1>2, <1>3 DEF ReencryptRow, UpdateCiphertext

\* Every step keeps RotateInv.
LEMMA RotateStep == RotateInv /\ [RotationNext]_rvars => RotateInv'
  <1> SUFFICES ASSUME RotateInv, [RotationNext]_rvars, NEW u \in Tools
               PROVE  Progress(u)'
    BY TypedStep DEF RotateInv
  <1>t. RotationTypeOK /\ Progress(u) /\ \A t \in Tools : tool[t] \in Run
    BY DEF RotateInv, RotationTypeOK
  <1>1. ASSUME NEW c \in [active: Versions, ring: SUBSET Versions], EditConfig(c)
        PROVE  Progress(u)'
    BY <1>1, <1>t, IdleKeepsProgress DEF EditConfig
  <1>2. ASSUME NEW p \in Servers, Restart(p) \/ Stop(p)
        PROVE  Progress(u)'
    BY <1>2, <1>t, IdleKeepsProgress DEF Restart, Stop
  <1>3. ASSUME NEW p \in Servers, NEW s \in Encrypted, CreateSecret(p, s)
        PROVE  Progress(u)'
    <2>1. rows' = [rows EXCEPT ![s] = Seal(server[p])] /\ tool' = Noted(server[p].active)
      BY <1>3 DEF CreateSecret
    <2>2. Seal(server[p]).present = TRUE /\ Seal(server[p]).version = server[p].active
      BY DEF Seal
    <2>3. QED
      BY <1>t, <2>1, <2>2, NotedFields, WriteKeepsProgress
  <1>4. ASSUME NEW p \in Servers, NEW s \in Tokens, CreateToken(p, s)
        PROVE  Progress(u)'
    <2>1. \A x \in Encrypted : rows'[x] = rows[x]
      BY <1>4, <1>t, RotationAssumption DEF CreateToken, RotationTypeOK, Secrets
    <2>2. QED
      BY <1>4, <1>t, <2>1, IdleKeepsProgress DEF CreateToken
  <1>5. ASSUME NEW s \in Tokens, EndToken(s)
        PROVE  Progress(u)'
    <2>1. \A x \in Encrypted : rows'[x] = rows[x]
      BY <1>5, <1>t, RotationAssumption DEF EndToken, RotationTypeOK, Secrets
    <2>2. QED
      BY <1>5, <1>t, <2>1, IdleKeepsProgress DEF EndToken
  <1>6. ASSUME NEW t \in Tools, NEW dry \in BOOLEAN, NEW o \in Orgs \cup {AllOrgs}, StartTool(t, dry, o)
        PROVE  Progress(u)'
    <2>1. CASE u = t
      <3>1. tool'[t].pc = "list" /\ tool'[t].part = "providers"
        BY <1>6, <1>t DEF StartTool, Off, RotationTypeOK
      <3>2. QED
        BY <2>1, <3>1 DEF Progress, InProgress
    <2>2. CASE u # t
      BY <1>6, <1>t, <2>2, IdleKeepsProgress DEF StartTool, RotationTypeOK
    <2>3. QED
      BY <2>1, <2>2
  <1>7. ASSUME NEW t \in Tools, ListRows(t)
        PROVE  Progress(u)'
    <2>1. CASE u = t
      <3>1. /\ tool'[t].pc = "run" /\ tool'[t].cfg = tool[t].cfg /\ tool'[t].dry = tool[t].dry
            /\ tool'[t].org = tool[t].org /\ tool'[t].part = tool[t].part
            /\ tool'[t].alone = tool[t].alone /\ tool'[t].todo = Listed(t, tool[t].part)
        BY <1>7, <1>t DEF ListRows, RotationTypeOK, Run
      <3>2. \A part : InScope(t, part)' = InScope(t, part)
        BY <1>7, <3>1 DEF ListRows, InScope
      <3>3. \A x : Rotated(t, x)' = Rotated(t, x)
        BY <1>7, <3>1 DEF ListRows, Rotated
      <3>4. \A x \in InScope(t, tool[t].part) : Rotated(t, x)' \/ Pending(t, x)'
        BY <3>1, <3>3 DEF Rotated, Pending, Listed
      <3>5. tool[t].pc = "list"
        BY <1>7 DEF ListRows
      <3>6. QED
        BY <1>t, <2>1, <3>1, <3>2, <3>3, <3>4, <3>5 DEF Progress, InProgress
    <2>2. CASE u # t
      BY <1>7, <1>t, <2>2, IdleKeepsProgress DEF ListRows, RotationTypeOK
    <2>3. QED
      BY <2>1, <2>2
  <1>8. ASSUME NEW t \in Tools, EndOfList(t)
        PROVE  Progress(u)'
    <2>1. CASE u = t
      <3>1. /\ tool'[t].cfg = tool[t].cfg /\ tool'[t].dry = tool[t].dry
            /\ tool'[t].org = tool[t].org /\ tool'[t].alone = tool[t].alone
            /\ \/ tool[t].part = "providers" /\ tool'[t].part = "webhooks" /\ tool'[t].pc = "list"
               \/ tool[t].part = "webhooks" /\ tool'[t].part = "webhooks" /\ tool'[t].pc = "done"
        BY <1>8, <1>t DEF EndOfList, RotationTypeOK, Run
      <3>2. \A part : InScope(t, part)' = InScope(t, part)
        BY <1>8, <3>1 DEF EndOfList, InScope
      <3>3. \A x : Rotated(t, x)' = Rotated(t, x)
        BY <1>8, <3>1 DEF EndOfList, Rotated
      <3>4. tool[t].pc = "run" /\ \A x : ~Pending(t, x)
        BY <1>8 DEF EndOfList, Pending
      <3>5. QED
        BY <1>t, <2>1, <3>1, <3>2, <3>3, <3>4 DEF Progress, InProgress
    <2>2. CASE u # t
      BY <1>8, <1>t, <2>2, IdleKeepsProgress DEF EndOfList, RotationTypeOK
    <2>3. QED
      BY <2>1, <2>2
  <1>9. ASSUME NEW t \in Tools, ToolFails(t)
        PROVE  Progress(u)'
    <2>1. CASE u = t
      <3>1. tool'[t].pc = "failed"
        BY <1>9, <1>t DEF ToolFails, RotationTypeOK, Run
      <3>2. QED
        BY <2>1, <3>1 DEF Progress, InProgress
    <2>2. CASE u # t
      BY <1>9, <1>t, <2>2, IdleKeepsProgress DEF ToolFails, RotationTypeOK
    <2>3. QED
      BY <2>1, <2>2
  <1>10. ASSUME NEW t \in Tools, NEW s \in Encrypted, ReencryptRow(t, s)
         PROVE  Progress(u)'
    <2>1. CASE u = t
      BY <1>10, <1>t, <2>1, RowKeepsProgress
    <2>2. CASE u # t /\ UNCHANGED rows /\ tool'[u] = tool[u]
      BY <1>t, <2>2, IdleKeepsProgress
    <2>3. CASE /\ rows' = [rows EXCEPT ![s] = Seal(tool[t].cfg)]
               /\ tool'[u] = Noted(tool[t].cfg.active)[u]
      <3>1. Seal(tool[t].cfg).present = TRUE /\ Seal(tool[t].cfg).version = tool[t].cfg.active
        BY DEF Seal
      <3>2. /\ tool'[u].pc = tool[u].pc /\ tool'[u].cfg = tool[u].cfg /\ tool'[u].dry = tool[u].dry
            /\ tool'[u].org = tool[u].org /\ tool'[u].part = tool[u].part /\ tool'[u].todo = tool[u].todo
            /\ tool'[u].alone => tool[u].alone /\ tool[u].cfg.active = tool[t].cfg.active
        BY <1>t, <2>3, NotedFields
      <3>3. QED
        BY <1>t, <2>3, <3>1, <3>2, WriteKeepsProgress
    <2>4. u # t => \/ UNCHANGED rows /\ tool'[u] = tool[u]
                   \/ /\ rows' = [rows EXCEPT ![s] = Seal(tool[t].cfg)]
                      /\ tool'[u] = Noted(tool[t].cfg.active)[u]
      <3>1. \/ UNCHANGED rows /\ \E x : tool' = [tool EXCEPT ![t] = x]
            \/ /\ rows' = [rows EXCEPT ![s] = Seal(tool[t].cfg)]
               /\ \E x : tool' = [Noted(tool[t].cfg.active) EXCEPT ![t] = x]
        BY <1>10, Zenon DEF ReencryptRow, UpdateCiphertext
      <3>2. DOMAIN tool = Tools /\ DOMAIN Noted(tool[t].cfg.active) = Tools
        BY <1>t DEF RotationTypeOK, Noted
      <3>3. QED
        BY <3>1, <3>2
    <2>5. QED
      BY <2>1, <2>2, <2>3, <2>4
  <1>11. CASE UNCHANGED rvars
    BY <1>11, <1>t, IdleKeepsProgress DEF rvars
  <1>12. QED
    BY <1>1, <1>2, <1>3, <1>4, <1>5, <1>6, <1>7, <1>8, <1>9, <1>10, <1>11 DEF RotationNext

\* A run that ends without an error has rotated every provider and webhook secret in its
\* scope, legacy ones included, unless a server or another run has written with another
\* version since it started: ReencryptProviderSecrets and ReencryptWebhookSecrets miss
\* no row although they work through a list that was read before.
THEOREM DoneRunsHaveRotated == RotationSpec => []DoneMeansRotated
  <1>1. RotationInit => RotateInv
    <2> SUFFICES ASSUME RotationInit, NEW t \in Tools PROVE Progress(t)
      BY TypedInit DEF RotateInv
    <2>1. tool[t].pc = "off"
      BY DEF RotationInit, Off
    <2>2. QED
      BY <2>1 DEF Progress, InProgress
  <1>2. RotateInv => DoneMeansRotated
    BY DEF RotateInv, DoneMeansRotated, Progress, Rotated
  <1>3. QED
    BY <1>1, <1>2, RotateStep, PTL DEF RotationSpec
=============================================================================
