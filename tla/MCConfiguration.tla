--------------------------- MODULE MCConfiguration ---------------------------
(* Two administrators; the OCR service's environment can differ in its mode *)
(* and presets, or in the device of its profile.                            *)
EXTENDS Configuration

TwoServices == <<"inference", "ocr">>
Environment(value) == [s \in Services |-> IF s = "ocr" THEN value ELSE "fixed"]
Auto == Environment("auto")
Gpu == Environment("gpu")
ThreeConfigs == {Auto, Environment("manual"), Gpu}
Devices == [c \in ThreeConfigs |-> IF c = Gpu THEN "ocr_gpu" ELSE "ocr_cpu"]
=============================================================================
