SPECIFICATION BootSpec
CONSTANTS
    Nic = {FALSE}
    Screen = {TRUE}
    TIMER_FREQ = 100
    STEP_TICKS = 14
    BOOTANIM_FADE_IN_TICKS = 30
    BOOTANIM_LOGO_TICKS = 60
    BOOTANIM_TEXT_TICKS = 40
    BOOTANIM_FADE_OUT_TICKS = 30
    BOOTANIM_MAX_STEPS = 16
PROPERTY RenderEngineEntered
CHECK_DEADLOCK FALSE
