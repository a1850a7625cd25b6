----------------------------- MODULE MCPrograms -----------------------------
(* Programs on directories with and without a setting store, and a small   *)
(* ring.                                                                   *)
EXTENDS Programs

MCListings == {
  << >>,
  <<"NSA_RV", "log_txt">>,
  <<"NSA_RA", "NSA_RV", "setting_json">>,
  <<"setting_json", "log_txt", "NSA_RV">>,
  <<"log_txt", "NSA_RS", "NSA_RA", "setting_json">>}
=============================================================================
