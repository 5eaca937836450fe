------------------------------ MODULE MCAccess ------------------------------
EXTENDS Access

\* Two processes may run in the same environment, or in one with another
\* administrator, secret, source and address.
MCConfigs ==
  {[admin_username |-> "admin", admin_password |-> "p1", jwt_secret |-> "s1", demo_mode |-> TRUE,
    bind_addr |-> "local"],
   [admin_username |-> "chief", admin_password |-> "p2", jwt_secret |-> "s2", demo_mode |-> FALSE,
    bind_addr |-> "public"]}

MCStaff == {[username |-> "ivan", password |-> "p2", role |-> "investigator"]}
=============================================================================
