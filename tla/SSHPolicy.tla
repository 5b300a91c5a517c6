------------------------------ MODULE SSHPolicy ------------------------------
(***************************************************************************)
(* The SSH compatibility policy: which of a device's compatibility modes   *)
(* the deployment's switches and the acknowledgements of a request allow,  *)
(* which algorithms a mode adds to the client's own, and the three places  *)
(* that turn a refusal into the code the user sees.  Pure operators.       *)
(***************************************************************************)
EXTENDS Naturals, FiniteSets

Modes == {"modern", "cisco_legacy", "cisco_legacy_group1", "very_old_ssh"}
Vendors == {"cisco_iosxe", "fortinet_fortios", "generic_readonly"}

\* Settings' kill switches and the acknowledgements that come with a request
Switches == [legacy : BOOLEAN, group1 : BOOLEAN, veryOld : BOOLEAN]
Acks     == [group1 : BOOLEAN, veryOld : BOOLEAN]

\* enforce_compatibility_policy does not raise
Authorized(mode, sw, ack) ==
  CASE mode = "modern"              -> TRUE
    [] mode = "cisco_legacy"        -> sw.legacy
    [] mode = "cisco_legacy_group1" -> sw.legacy /\ sw.group1 /\ ack.group1
    [] mode = "very_old_ssh"        -> sw.legacy /\ sw.group1 /\ sw.veryOld /\ ack.veryOld

\* The code admitted_connection gives a refusal, "ok" when there is none.
ServiceDenial(mode, sw, ack) ==
  CASE Authorized(mode, sw, ack) -> "ok"
    [] OTHER -> IF ~sw.legacy THEN "legacy_mode_disabled_by_policy"
                ELSE IF mode = "very_old_ssh"
                        /\ (~sw.group1 \/ ~sw.veryOld \/ ~ack.veryOld)
                     THEN "very_old_mode_disabled_by_policy"
                     ELSE "legacy_group1_disabled_by_policy"

\* The terminal endpoint has its own copy of that mapping.
TerminalDenial(mode, sw, ack) ==
  IF Authorized(mode, sw, ack) THEN "ok"
  ELSE IF ~sw.legacy THEN "legacy_mode_disabled_by_policy"
  ELSE IF mode = "very_old_ssh" /\ (~sw.group1 \/ ~sw.veryOld \/ ~ack.veryOld)
       THEN "very_old_mode_disabled_by_policy"
  ELSE "legacy_group1_disabled_by_policy"

\* Mutated form: collecting a key does not ask for the switch of group 1.
CandidateDenial_Group1(mode, sw, ack) ==
  IF mode = "modern" \/ Authorized(mode, [sw EXCEPT !.group1 = TRUE], ack) THEN "ok"
  ELSE ServiceDenial(mode, [sw EXCEPT !.group1 = TRUE], ack)

\* Collecting a host key candidate decides without enforce_compatibility_policy.
CandidateDenial(mode, sw, ack) ==
  CASE mode = "modern" -> "ok"
    [] mode # "modern" /\ ~sw.legacy -> "legacy_mode_disabled_by_policy"
    [] mode = "cisco_legacy_group1" /\ sw.legacy /\ (~sw.group1 \/ ~ack.group1)
         -> "legacy_group1_disabled_by_policy"
    [] mode = "very_old_ssh" /\ sw.legacy /\ (~sw.group1 \/ ~sw.veryOld \/ ~ack.veryOld)
         -> "very_old_mode_disabled_by_policy"
    [] OTHER -> "ok"

\* Cisco's modes are for Cisco, the oldest one for Fortinet too.
VendorSupports(vendor, mode) ==
  CASE mode = "modern" -> TRUE
    [] mode \in {"cisco_legacy", "cisco_legacy_group1"} -> vendor = "cisco_iosxe"
    [] mode = "very_old_ssh" -> vendor \in {"cisco_iosxe", "fortinet_fortios"}

\* What an operation on a registered device acknowledges in the place of the
\* operator, who did so when the device was registered.
SavedAck(mode) == [group1  |-> mode \in {"cisco_legacy_group1", "very_old_ssh"},
                   veryOld |-> mode = "very_old_ssh"]

\* SnapshotService.capture acknowledges on its own.
CaptureAck(mode) == [group1 |-> mode = "cisco_legacy_group1", veryOld |-> FALSE]

\* What a mode adds to the algorithms the client offers by itself.
Added(mode) ==
  LET legacy  == {"dh-group14-sha1", "dh-group-exchange-sha1", "ssh-rsa",
                  "aes256-cbc", "aes192-cbc", "aes128-cbc", "hmac-sha1", "hmac-sha1-96"}
      group1  == {"dh-group1-sha1"}
      veryOld == {"ssh-dss", "3des-cbc", "hmac-md5", "hmac-md5-96"}
  IN  CASE mode = "modern"              -> {}
        [] mode = "cisco_legacy"        -> legacy
        [] mode = "cisco_legacy_group1" -> legacy \cup group1
        [] mode = "very_old_ssh"        -> legacy \cup group1 \cup veryOld

-----------------------------------------------------------------------------
\* What cannot be connected to is refused alike where its key is collected,
\* where it is connected to and in the terminal; and what may be read from a
\* registered device may be captured from it, but in the oldest mode, which a
\* capture never acknowledges.
AgreeOn(mode, sw, ack) ==
  /\ CandidateDenial(mode, sw, ack) = ServiceDenial(mode, sw, ack)
  /\ TerminalDenial(mode, sw, ack) = ServiceDenial(mode, sw, ack)
  /\ Authorized(mode, sw, CaptureAck(mode))
       <=> Authorized(mode, sw, SavedAck(mode)) /\ mode # "very_old_ssh"
=============================================================================
