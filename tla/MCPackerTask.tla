---------------------------- MODULE MCPackerTask ----------------------------
(* Instances of PackerTask: which commands and schemes a run may have.      *)
EXTENDS PackerTask

AllSchemes == DOMAIN Script
BuildOnly == {"build"}
\* The federated schemes whose handler mints before it validates.
MintsFirst == {"awsWif", "gcpWif"}
OnlyAwsWif == {"awsWif"}
=============================================================================
