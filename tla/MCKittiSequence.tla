---------------------------- MODULE MCKittiSequence ----------------------------
(* Small calibration files, directories and timestamp files. *)
EXTENDS KittiSequence

CONSTANTS MCTimes   \* the timestamp files of the image stream: "near" or "far" times

MCRegular(e) == e # "7/"
MCExtension(e) ==
  CASE e \in {"0.png", "00.png", "9.png", "10.png", "x.png", "7/"} -> "png"
    [] e \in {"0.bin", "9.bin", "10.bin"} -> "bin"
    [] OTHER -> "txt"
MCNumber(e) ==
  CASE e \in {"0.png", "00.png", "0.bin", "0.txt"} -> 0
    [] e \in {"9.png", "9.bin", "9.txt"} -> 9
    [] e \in {"10.png", "10.bin"} -> 10
    [] e = "7/" -> 7
    [] OTHER -> NotNumeric
MCPicture(e) == IF e = "0.png" THEN "invalid_frame_file" ELSE "fine"

Line(key, found) == [key |-> key, found |-> found]
Velo == { None, <<>>, <<Line("R", "ok"), Line("T", "ok")>>,
          <<Line("calib_time", "malformed_line"), Line("T", "ok"), Line("R", "unfit")>>,
          <<Line("R", "ok"), Line("R", "malformed_line"), Line("T", "ok")>>,
          <<Line("R", "wrong_value_count"), Line("R", "ok")>>,
          <<Line("T", "non_finite_value"), Line("R", "ok")>>,
          <<Line("calib_time", "ok"), Line("R", "ok")>> }
Camera == { <<Line("P_rect_02", "ok"), Line("R_rect_00", "ok"), Line("S_rect_02", s)>> :
              s \in {"ok", "unfit", "wrong_value_count"} }
          \cup { <<Line("S_rect_02", "ok"), Line("R_rect_00", "ok")>> }

Images == {None} \cup { d \in SUBSET {"0.png", "00.png", "9.png", "10.png", "x.png", "7/", "9.txt"} :
                         Cardinality(d) \in 1..4 }
Clouds == (SUBSET {"0.bin", "9.bin", "10.bin"})

ImageTimes ==
  IF MCTimes = "near"
  THEN {None, <<>>, <<1, 4, 6, 7>>}
       \cup UNION { [1..n -> {1, 4, 6, Malformed}] : n \in 1..3 }
  ELSE { <<t, u>> : t, u \in {-20, -3, 2, 12, 30} }
LidarTimes == {None, <<6>>, <<2, 4>>, <<4, 2>>, <<0, 3, 7>>}

MCContents(s) ==
  CASE s = <<"calibration", "velo">>   -> Velo
    [] s = <<"calibration", "camera">> -> Camera
    [] s = <<"directory", "image">>    -> Images
    [] s = <<"directory", "lidar">>    -> Clouds
    [] s = <<"timestamps", "image">>   -> ImageTimes
    [] s = <<"timestamps", "lidar">>   -> LidarTimes

\* The near times are near indeed: what is proved of near times applies to that run.
ASSUME MCNearAssumption == MCTimes = "near" => TimesAreNear
=============================================================================
