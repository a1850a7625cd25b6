--------------------------- MODULE MCSettingJson ----------------------------
(* SettingJson with the kinds of settings the repository's plugins have.   *)
EXTENDS SettingJson

Scalar(n, k, x) == [name |-> n, kind |-> k, max |-> 1, size |-> 3, default |-> <<x>>]
Array(n, k, d) == [name |-> n, kind |-> k, max |-> 2, size |-> 3, default |-> d]

(* Narrow scalars, a string, an array that comes last, a module without    *)
(* settings.                                                               *)
MCModules == {"NSA_RA", "NSA_RV", "log_txt", "setting_json"}
MCSettings == [m \in MCModules |->
  CASE m = "NSA_RV" -> << Scalar("isVdetectors", "bool", 1), Scalar("det_id", "uint8", 1) >>
    [] m = "NSA_RA" -> << Array("coeff", "double", <<1, 3>>) >>
    [] m = "log_txt" -> << Scalar("logfile", "str", 1) >>
    [] OTHER -> << >>]
MCOrders == {<<"NSA_RA", "NSA_RV", "setting_json", "log_txt">>,
             <<"log_txt", "setting_json", "NSA_RV">>}
MCCells == {[t |-> "int", v |-> 0], [t |-> "int", v |-> 4], [t |-> "str", v |-> 2],
            [t |-> "real", v |-> 7]}

(* NSA_RA's two arrays.                                                    *)
MCTwoArrays == [m \in {"NSA_RA"} |->
  << [name |-> "t", kind |-> "int64", max |-> 2, size |-> 8, default |-> <<1, 3>>],
     [name |-> "coeff", kind |-> "double", max |-> 2, size |-> 8, default |-> <<4>>] >>]
ArraysOrders == {<<"NSA_RA">>}
IntCells == {[t |-> "int", v |-> 1]}
=============================================================================
