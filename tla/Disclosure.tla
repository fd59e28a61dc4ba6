----------------------------- MODULE Disclosure -----------------------------
(***************************************************************************)
(* Which payloads the daemon seals for the forensic key, and what the      *)
(* holder of a key gets back: the risk an action type has (sdk/go/         *)
(* taxonomy), the disclosure policy (daemon/internal/pipeline/             *)
(* disclosure_policy.go), the envelope (sdk/go/receipt/disclosure.go) and  *)
(* the command `receipt disclose` (daemon/internal/disclosecli).           *)
(*                                                                         *)
(* A payload stands for its canonical bytes and so for its hash, a key for *)
(* its fingerprint.                                                        *)
(***************************************************************************)
EXTENDS Command, Queries

(* The registry's risk of the action types that occur here; what it does not *)
(* know is of medium risk.                                                   *)
RiskOf(action) ==
    CASE action \in {Create, Read, "doctor.agent-receipts-doctor.roundtrip"} -> "low"
      [] action = Delete -> "high"
      [] OTHER -> "medium" \* modify and move among them

(* A policy as the operator writes it: the entries between the commas. *)
reservedKeywords == {"", "false", "off", "0", "true", "all", "1", "high"}
Invalid == [mode |-> "invalid", allowlist |-> {}]

ParseDisclosurePolicy(s) ==
    LET Mode(m) == [mode |-> m, allowlist |-> {}]
    IN CASE s \in {<<"">>, <<"false">>, <<"off">>, <<"0">>} -> Mode("off")
         [] s \in {<<"true">>, <<"all">>, <<"1">>} -> Mode("all")
         [] s = <<"high">> -> Mode("high")
         [] OTHER -> IF ToSet(s) \cap reservedKeywords # {} THEN Invalid
                     ELSE [mode |-> "allowlist", allowlist |-> ToSet(s)]

Enabled(policy) == policy.mode # "off"

ShouldDisclose(policy, action, risk) ==
    CASE policy.mode = "all"       -> TRUE
      [] policy.mode = "high"      -> risk \in {"high", "critical"}
      [] policy.mode = "allowlist" -> action \in policy.allowlist
      [] OTHER -> FALSE

(* Run refuses a policy it cannot read, and one with nothing to encrypt to;  *)
(* a key file must hold 32 bytes ("short": it does not).                     *)
requireForensicKey(policy, key) == Enabled(policy) => key # None

Startable(config) ==
    LET params == ParseDisclosurePolicy(config.params)
        response == ParseDisclosurePolicy(config.response)
    IN /\ Invalid \notin {params, response}
       /\ config.key # "short"
       /\ requireForensicKey(params, config.key)
       /\ requireForensicKey(response, config.key)
-----------------------------------------------------------------------------
(* encryptDisclosure: only an object can be sealed, and what cannot be is    *)
(* left out.                                                                 *)
EncryptDisclosure(payload, key) ==
    IF payload.kind # "object" THEN None
    ELSE [kid |-> key, ct |-> [to |-> key, plain |-> payload], intact |-> TRUE]

(* DecryptDisclosure. *)
Opens(envelope, key) == envelope.intact /\ envelope.ct.to = key

Answer(exit, text) == [exit |-> exit, text |-> text, payload |-> None]
Plain(payload)     == [exit |-> 0, text |-> "decrypted", payload |-> payload]

(* What a key makes of the field of a receipt: a key that fails and is one   *)
(* the envelope is for has found it damaged.                                 *)
Reading(envelope, key) ==
    CASE envelope = None -> Answer(0, "no disclosure")
      [] envelope # None /\ Opens(envelope, key) -> Plain(envelope.ct.plain)
      [] OTHER -> Answer(3, IF envelope.kid = key THEN "corrupt" ELSE "another key")

(* resolveChainID: requested is None if no chain was named. *)
ChainsIn(rows, requested) == IF requested = None THEN DistinctChainIDs(rows) ELSE {requested}

(* Run of `receipt disclose`.  Nothing here reads the signature of the       *)
(* receipt.                                                                  *)
Disclose(rows, requested, seq, key, field) ==
    LET chains == ChainsIn(rows, requested)
        found  == UNION {GetByChainSequence(rows, chain, seq) : chain \in chains}
    IN CASE chains = {} -> Answer(1, "store holds no receipts")
         [] Cardinality(chains) > 1 -> Answer(2, "pass --chain-id")
         [] Cardinality(chains) = 1 /\ found = {} -> Answer(1, "no receipt")
         [] OTHER -> Reading(rows[CHOOSE i \in found : TRUE][field], key)
=============================================================================
