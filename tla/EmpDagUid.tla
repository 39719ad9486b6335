----------------------------- MODULE EmpDagUid -----------------------------
(***************************************************************************)
(* The identifiers of the EMPDAG (empdag_uid.h).  A node is an MP          *)
(* (mathematical programme) or a Nash node; a uid is the id shifted by two *)
(* bits, bit 1 telling a Nash node from an MP.  In a reverse arc bit 0     *)
(* tells a value-function (VF) arc from a control (CTRL) one.  The numeric *)
(* values are kept: arrays of uids are sorted by them.                     *)
(***************************************************************************)
EXTENDS Integers

\* EMPDAG_UID_NONE, UINT_MAX in the code
EMPDAG_UID_NONE == -1

valid_uid(uid) == uid # EMPDAG_UID_NONE

mpid2uid(id) == 4 * id
nashid2uid(id) == 4 * id + 2
rarcVFuid(uid) == uid + 1
rarcCTRLuid(uid) == uid

uid2id(uid) == uid \div 4
uidisMP(uid) == uid % 4 \in {0, 1}
uidisNash(uid) == uid % 4 \in {2, 3}
rarcTypeVF(uid) == uid % 2 = 1
rarcTypeCtrl(uid) == uid % 2 = 0

\* the node a reverse arc comes from
parent_uid(uid) == uid - (uid % 2)
=============================================================================
