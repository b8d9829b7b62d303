----------------------------- MODULE SshPacket -----------------------------
(***************************************************************************)
(* Lengths in an SSH packet: payload2packet builds one from a payload of n *)
(* bytes, recv_packet checks one it has received (User/ssh/packet.c).      *)
(***************************************************************************)
EXTENDS Integers

SSH_DEFAULT_PACKET_ALIGN == 8
SSH_MAX_PACKET_SIZE == 35000

(* mac_len is 4 for a plain packet, whose length field counts for the       *)
(* alignment, and 16 for a sealed one, whose length field does not.         *)
MacLens == {4, 16}

(* One byte stands in front of the payload and holds the padding's length.  *)
PadLen(n, mac_len) ==
    LET short == SSH_DEFAULT_PACKET_ALIGN - ((1 + n + mac_len) % SSH_DEFAULT_PACKET_ALIGN)
    IN  (IF short < 4 THEN short + SSH_DEFAULT_PACKET_ALIGN ELSE short) % 256

PacketLen(n, mac_len) == 1 + n + PadLen(n, mac_len)

(* recv_packet returns 0; len is the length field, pad the first byte.      *)
Accepted(len, pad) ==
    /\ len >= 1 + 4 /\ len <= SSH_MAX_PACKET_SIZE
    /\ pad >= 4 /\ pad <= len - 1

(* An unsigned subtraction, done before pad is validated.                   *)
PayloadLength(len, pad) == (len - pad - 1) % 2^32
=============================================================================
