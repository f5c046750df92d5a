------------------------------ MODULE Deployment ------------------------------
(***************************************************************************)
(* A deployment: the secrets file of a set of groups, HSMs provisioned     *)
(* from it with a PIN and permissions, their boots, and the files they     *)
(* write, read and pass on.  What is asked is whether the commands agree   *)
(* on permissions and keys wherever a file has come from; how a command    *)
(* runs is in the other modules, so here each is one step.                 *)
(*                                                                         *)
(* Cryptography is symbolic: a key pair is its name, both halves of it;    *)
(* Shared(p, q) is what X25519 gives for one half of p and the other of q; *)
(* a hash is what was hashed; a tag or signature holds when the keys match.*)
(* Operators marked "Fault" are wrong variants no specification uses.      *)
(***************************************************************************)
EXTENDS Naturals

CONSTANTS
  Hsms, Groups, Slots,
  Contents,        \* of files that are not empty
  Permissions,     \* permission strings, see Letter
  OwnerPins,       \* PINs given to generate_secrets
  MaxGenerations,  \* bound on runs of gen_secrets
  MaxBoots         \* bound on the boots of an HSM

Uses == {"read", "write", "transfer"}
Letter == [read |-> "R", write |-> "W", transfer |-> "C"]
HexDigits == {"1", "a", "A"}
Digits == HexDigits \cup {"x"}
PinLength == 1 .. 2      \* of the 6 characters: enough to mix cases
Pins == [PinLength -> Digits]

ASSUME DeployAssumption ==
  /\ Permissions \subseteq [Uses -> {"R", "W", "C", "-"}]
  /\ OwnerPins \subseteq [PinLength -> HexDigits]
  /\ MaxGenerations \in Nat /\ MaxBoots \in Nat
  /\ {"none", "empty", "Invalid PIN", "not provisioned", "corrupted"} \cap Contents = {}

VARIABLES
  secrets,  \* the secrets file: number, key pairs of each group
  image,    \* the secrets.c and secrets.h each HSM was built with
  ram,      \* pin_hash and the random data of stage 2
  slots     \* the files

deployVars == <<secrets, image, ram, slots>>

NoImage == [transfer |-> 0, groups |-> [g \in {} |-> g], stage1 |-> <<>>, owner |-> <<>>]
NoFile == [content |-> "none"]
Off == [nonce |-> 0, stage1 |-> <<>>, stage2 |-> {}]

DeployInit ==
  /\ secrets = [number |-> 0, keys |-> [g \in {} |-> g]]
  /\ image = [h \in Hsms |-> NoImage]
  /\ ram = [h \in Hsms |-> Off]
  /\ slots = [h \in Hsms |-> [s \in Slots |-> NoFile]]

-----------------------------------------------------------------------------
(* The PIN. *)

Lower(pin) == [i \in PinLength |-> IF pin[i] = "A" THEN "a" ELSE pin[i]]

\* validate_pin: the digits are checked, lowered and hashed in two stages.
ValidPin(h, pin) ==
  /\ \A i \in PinLength : pin[i] \in HexDigits
  /\ ram[h].stage1 = Lower(pin) /\ ram[h].stage2 = {ram[h].nonce}

-----------------------------------------------------------------------------
(* What an HSM knows. *)

Provisioned(h) == image[h].transfer # 0
Running(h) == ram[h].nonce # 0

\* utils_find_group
Known(h, g) == g \in DOMAIN image[h].groups

\* A permission is a private key that is there.
Permits(h, g, use) == Known(h, g) /\ use \in DOMAIN image[h].groups[g].private

Public(h, g, use) == image[h].groups[g].public[use]
Private(h, g, use) == image[h].groups[g].private[use]

Shared(p, q) == {p, q}

\* Ephemeral keys are fresh; no property here depends on it.
Ephemeral == [number |-> 0, group |-> "none", use |-> "ephemeral"]

\* The keys of a file and of a transfer: a shared secret and the public keys.
SessionKey(secret, public) == [secret |-> secret, ephemeral |-> Ephemeral, public |-> public]

\* A file of group g as h writes it.  An empty one is not encrypted.
Written(h, g, content) ==
  [content |-> content, group |-> g, signer |-> Private(h, g, "write"),
   key |-> SessionKey(Shared(Ephemeral, Public(h, g, "read")), Public(h, g, "read"))]

MayWrite(h, g) == Permits(h, g, "write")

-----------------------------------------------------------------------------
(* Read. *)

\* Fault: the signature is checked with the key the HSM signs with.
SignedByGroup_own(h, f) ==
  Permits(h, f.group, "write") /\ f.signer = Private(h, f.group, "write")

SignedByGroup(h, f) == f.signer = Public(h, f.group, "write")

Decrypts(h, f) ==
  \/ f.content = "empty"
  \/ f.key = SessionKey(Shared(Private(h, f.group, "read"), Ephemeral), Public(h, f.group, "read"))

\* What the host gets for a slot that holds file f.
ReadResult(h, f, pin) ==
  IF ~ValidPin(h, pin) THEN "Invalid PIN"
  ELSE IF ~Permits(h, f.group, "read") THEN "not provisioned"
  ELSE IF SignedByGroup(h, f) /\ Decrypts(h, f) THEN f.content
  ELSE "corrupted"

-----------------------------------------------------------------------------
(* Interrogate and receive; h asks, l listens. *)

\* Fault: interrogate lists the groups whose files the HSM may read.
Asked_read(h) == {g \in Groups : Permits(h, g, "read")}

Asked(h) == {g \in Groups : Permits(h, g, "transfer")}

\* Both lists travel under the transfer key of the deployment.
Offered(h, l) ==
  IF image[h].transfer # image[l].transfer THEN {}
  ELSE {s \in Slots : slots[l][s].content # "none" /\ slots[l][s].group \in Asked(h)}

SendKey(l, g) ==
  SessionKey(Shared(Ephemeral, Public(l, g, "transfer")), Public(l, g, "transfer"))

ReceiveKey(h, g) ==
  SessionKey(Shared(Private(h, g, "transfer"), Ephemeral), Public(h, g, "transfer"))

\* The listener announces a file; then either side may stop.
Announced(l, s) == slots[l][s].content # "none"

Receivable(h, l, s) ==
  LET g == slots[l][s].group IN
  /\ Announced(l, s) /\ Known(l, g)
  /\ Known(h, g) /\ Permits(h, g, "transfer")
  /\ SendKey(l, g) = ReceiveKey(h, g)

-----------------------------------------------------------------------------
(* Actions. *)

\* gen_secrets of the deployment's groups, or of the next deployment's.
GenSecrets(listed) ==
  LET n == secrets.number + 1 IN
  /\ secrets.number < MaxGenerations
  /\ secrets' = [number |-> n,
                 keys |-> [g \in listed |-> [use \in Uses |->
                             [number |-> n, group |-> g, use |-> use]]]]
  /\ UNCHANGED <<image, ram, slots>>

\* The entry of a group in secrets.c: all public keys, and the private keys whose
\* letter stands in its place of the permission string.
GroupEntry(g, letters) ==
  [public |-> secrets.keys[g],
   private |-> [use \in {u \in Uses : letters[u] = Letter[u]} |-> secrets.keys[g][use]]]

\* generate_secrets, for an HSM that is built once.  Of several strings for a group
\* the last counts, so `permissions` is a function; a group must be in the file.
Provision(h, permissions, pin) ==
  /\ ~Provisioned(h) /\ secrets.number # 0
  /\ image' = [image EXCEPT ![h] =
                 [transfer |-> secrets.number, owner |-> pin, stage1 |-> Lower(pin),
                  groups |-> [g \in DOMAIN permissions |-> GroupEntry(g, permissions[g])]]]
  /\ UNCHANGED <<secrets, ram, slots>>

\* Fault: the hash survives a warm reset, and stage 2 is applied to it again.
Boot_warm(h) ==
  LET n == ram[h].nonce + 1 IN
  /\ Provisioned(h) /\ ram[h].nonce < MaxBoots
  /\ ram' = [ram EXCEPT ![h] =
               [nonce |-> n, stage1 |-> image[h].stage1, stage2 |-> @.stage2 \cup {n}]]
  /\ UNCHANGED <<secrets, image, slots>>

\* A boot loads pin_hash anew and hashes it with fresh random data.
Boot(h) ==
  LET n == ram[h].nonce + 1 IN
  /\ Provisioned(h) /\ ram[h].nonce < MaxBoots
  /\ ram' = [ram EXCEPT ![h] = [nonce |-> n, stage1 |-> image[h].stage1, stage2 |-> {n}]]
  /\ UNCHANGED <<secrets, image, slots>>

WriteFile(h, s, g, content, pin) ==
  /\ Running(h) /\ ValidPin(h, pin) /\ MayWrite(h, g)
  /\ slots' = [slots EXCEPT ![h][s] = Written(h, g, content)]
  /\ UNCHANGED <<secrets, image, ram>>

\* receive on h, listen on l: the whole entry is stored as it was.
ReceiveFile(h, l, from, to, pin) ==
  /\ h # l /\ Running(h) /\ Running(l) /\ ValidPin(h, pin)
  /\ Receivable(h, l, from)
  /\ slots' = [slots EXCEPT ![h][to] = slots[l][from]]
  /\ UNCHANGED <<secrets, image, ram>>

DeployNext ==
  \/ \E listed \in (SUBSET Groups) \ {{}} : GenSecrets(listed)
  \/ \E h \in Hsms :
       \/ \E listed \in (SUBSET DOMAIN secrets.keys) \ {{}}, pin \in OwnerPins :
            \E permissions \in [listed -> Permissions] : Provision(h, permissions, pin)
       \/ Boot(h)
       \/ \E s \in Slots, g \in Groups, c \in Contents \cup {"empty"}, pin \in Pins :
            WriteFile(h, s, g, c, pin)
       \/ \E l \in Hsms, from \in Slots, to \in Slots, pin \in Pins :
            ReceiveFile(h, l, from, to, pin)

DeploySpec == DeployInit /\ [][DeployNext]_deployVars

-----------------------------------------------------------------------------
(* Properties. *)

Key == [number : Nat, group : Groups, use : Uses]

\* Types; a running HSM has hashed its PIN with the random data of this boot only,
\* and it knows the group of every file it holds.
DeployTypeOK ==
  /\ secrets.number \in Nat /\ DOMAIN secrets.keys \subseteq Groups
  /\ \A h \in Hsms :
       /\ image[h].transfer \in 0 .. secrets.number
       /\ DOMAIN image[h].groups \subseteq Groups
       /\ ram[h].nonce \in Nat
       /\ Running(h) => Provisioned(h) /\ ram[h].stage2 = {ram[h].nonce}
       /\ \A s \in Slots : slots[h][s].content # "none" =>
            /\ slots[h][s].content \in Contents \cup {"empty"}
            /\ Known(h, slots[h][s].group)

RightPin(h, pin) ==
  (\A i \in PinLength : pin[i] \in HexDigits) /\ Lower(pin) = Lower(image[h].owner)

\* Whoever wrote a file and however often it was passed on, whatever secrets were
\* generated meanwhile: the PIN its HSM was built with, in any case, and the
\* permission to read give back its content, and nothing ever seems corrupted.
ReadsBack ==
  \A h \in Hsms, s \in Slots, pin \in Pins :
    Running(h) /\ slots[h][s].content # "none" =>
      ReadResult(h, slots[h][s], pin) =
        IF ~RightPin(h, pin) THEN "Invalid PIN"
        ELSE IF Permits(h, slots[h][s].group, "read") THEN slots[h][s].content
        ELSE "not provisioned"

\* interrogate shows a slot exactly if receive would fetch it, also between HSMs of
\* different deployments; and the listener knows the group of what it announces.
OfferedIsReceivable ==
  \A h, l \in Hsms, s \in Slots :
    h # l /\ Running(h) /\ Running(l) =>
      /\ s \in Offered(h, l) <=> Receivable(h, l, s)
      /\ Announced(l, s) => Known(l, slots[l][s].group)
=============================================================================
