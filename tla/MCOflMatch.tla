----------------------------- MODULE MCOflMatch -----------------------------
(***************************************************************************)
(* OflMatch for TLC: a registry with one field of each width the puts      *)
(* exist for, two values, one mask, and a packet whose fields include one  *)
(* of an experimenter class and one of a length no put exists for.         *)
(***************************************************************************)
EXTENDS OflMatch

MCFieldWidth ==
    [ip_proto |-> 1, eth_type |-> 2, in_port |-> 4, eth_src |-> 6,
     metadata |-> 8, ipv6_src |-> 16]

MCValues == {"v1", "v2"}

MCMasks == {"k1"}

MCNoMask == "none"

OFPXMC_EXPERIMENTER == 65535

MCPacketFieldPool ==
    { [header |-> OXM_HEADER("in_port"), value |-> "v1"],
      [header |-> OXM_HEADER("eth_src"), value |-> "v2"],
      [header |-> OXM_HEADER("eth_type"), value |-> "v1"],
      [header |-> [vendor |-> OFPXMC_EXPERIMENTER, field |-> "exp", hasmask |-> FALSE,
                   length |-> 4], value |-> "v1"],
      [header |-> [vendor |-> OFPXMC_OPENFLOW_BASIC, field |-> "odd", hasmask |-> FALSE,
                   length |-> 3], value |-> "v2"] }

MCMaxEntries == 3

=============================================================================
