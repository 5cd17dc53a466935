----------------------------- MODULE MFProtocol -----------------------------
(***************************************************************************)
(* The bodies of the protocol's messages (mfprotocol.c) and the message    *)
(* MFMessage_Alloc puts them in: how much memory each constructor takes,   *)
(* and which bytes of it it writes.  A write is the interval from its      *)
(* first byte up to, and without, its end.  Sizes are those of the         *)
(* structures of mfprotocol.h, mfmessages.h and mfcrypto.h.                *)
(***************************************************************************)
EXTENDS Integers

GuidSize      == 16
PublicKeySize == 64
SignatureSize == 64
SeedSize      == 32

UserInfoSize    == GuidSize + PublicKeySize + 64
ChannelInfoSize == GuidSize + 64 + 4 + 4 + 32 + SeedSize

(* MF_MESSAGE_SERVER_INFO_OUT ends with Flags, SupportedVersions and the   *)
(* two counts behind the name.                                             *)
ServerNameSize   == 256
ServerNameOffset == PublicKeySize + SignatureSize
ServerInfoSize   == ServerNameOffset + ServerNameSize + 16

(* MF_MESSAGE_NEW_USER_IN ends with the name.                              *)
UserNameSize   == 64
UserNameOffset == PublicKeySize + 8 + 4 + 4
NewUserSize    == UserNameOffset + UserNameSize

ErrorSize  == 8
HeaderSize == 8 + SignatureSize + 48 + 8 + 8 + 8 + 2 * GuidSize + 48

Write(offset, length) == [first |-> offset, end |-> offset + length]

Inside(w, size) == 0 <= w.first /\ w.first <= w.end /\ w.end <= size

Apart(v, w) == v.end <= w.first \/ w.end <= v.first

(***************************************************************************)
(* MFProtocol_ServerInfoOut.                                               *)
(***************************************************************************)
ServerInfoBody(users, channels) ==
    ServerInfoSize + users * UserInfoSize + channels * ChannelInfoSize

(* How much of a server's name of length n is copied.                      *)
ServerNameLength(n) == IF n >= ServerNameSize THEN ServerNameSize - 1 ELSE n

(* The body is sized with the counts as given and filled with those it     *)
(* holds, which have 32 bits.                                              *)
Count(n) == n % 2^32

ServerNameWrite(n) == Write(ServerNameOffset, ServerNameLength(n))
UsersWrite(users) == Write(ServerInfoSize, Count(users) * UserInfoSize)
ChannelsWrite(users, channels) ==
    Write(ServerInfoSize + Count(users) * UserInfoSize,
          Count(channels) * ChannelInfoSize)

(***************************************************************************)
(* MFProtocol_NewUserIn copies the name as long as it is, and              *)
(* MFProtocol_ErrorMessage a text of length n with its terminator.         *)
(***************************************************************************)
UserNameWrite(n) == Write(UserNameOffset, n)

ErrorBody(n) == ErrorSize + n + 1
ErrorTextWrite(n) == Write(ErrorSize, n + 1)

(***************************************************************************)
(* MFMessage_Alloc: the total is a uint32_t, the copy has the full length. *)
(***************************************************************************)
MessageTotal(length) == (HeaderSize + (length % 2^32)) % 2^32
DataWrite(length) == Write(HeaderSize, length)
=============================================================================
